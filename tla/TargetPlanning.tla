-------------------------- MODULE TargetPlanning --------------------------
(***************************************************************************)
(* What a scope file authorises and what a run is planned from it: the     *)
(* evaluation of a URL against include and exclude rules, the target plan, *)
(* the admission of passive discovery roots and the filters that turn      *)
(* discovered hosts into URLs.                                             *)
(*                                                                         *)
(* A rule has a pattern for protocol, host, port and file.  The patterns   *)
(* are regular expressions; the code tells apart the ones it can list      *)
(* (alternatives of literals), the host forms it recognises and the rest,  *)
(* and so do the records below.  A digest or a rule ID stands for exactly  *)
(* what was hashed, so equal IDs are equal rules.                          *)
(***************************************************************************)
EXTENDS Integers, FiniteSets, Sequences

CONSTANTS
  Rules,    \* IDs of the normalised enabled rules that scope files contain
  Parsed,   \* the four patterns of each rule
  Hosts,    \* host names: sequences of labels
  Reasons,  \* reasons an operator may give for a manual discovery root
  None      \* no reason

Protocols == {"http", "https"}
Ports == {"80", "443", "8080"}
Paths == {"/", "/api"}
PrefixOf == {<<"http", "https">>, <<"80", "8080">>, <<"/", "/api">>}

\* alternatives in the order they are written, or .*
Pattern(V) == [kind : {"finite", "any"}, alts : Seq(V), anchored : BOOLEAN]
\* exact: x   deep: .*\.x   label: [^.]+\.x   opt...: the same in (?: )?
\* loose: .*x   any: .*
HostPattern == [kind : {"exact", "deep", "label", "optdeep", "optlabel", "loose", "any"},
                base : Hosts]
Rule == [protocol : Pattern(Protocols), host : HostPattern,
         port : Pattern(Ports), file : Pattern(Paths)]
Scope == [include : SUBSET Rules, exclude : SUBSET Rules]

ASSUME PlanningAssumption == Parsed \in [Rules -> Rule]

ManualRoot == [domain : Hosts, reason : Reasons]
Target == [protocol : Protocols, host : Hosts, port : Ports, path : Paths]

-----------------------------------------------------------------------------
(* internal/scope: matching.                                               *)

Alternatives(p) == {p.alts[i] : i \in DOMAIN p.alts}

\* Go takes the leftmost match and, of the alternatives that match there, the
\* first one written: without an anchor http|https finds only http in https.
full(p, v) ==
  \/ p.kind = "any"
  \/ p.kind = "finite" /\ p.anchored /\ v \in Alternatives(p)
  \/ /\ p.kind = "finite" /\ ~ p.anchored
     /\ \E i \in DOMAIN p.alts :
          p.alts[i] = v /\ \A j \in 1..(i - 1) : <<p.alts[j], v>> \notin PrefixOf

Below(h, base) ==
  /\ Len(h) > Len(base)
  /\ SubSeq(h, Len(h) - Len(base) + 1, Len(h)) = base

hostMatches(p, h) ==
  \/ p.kind = "any"
  \/ p.kind \in {"exact", "optdeep", "optlabel", "loose"} /\ h = p.base
  \/ p.kind \in {"deep", "optdeep", "loose"} /\ Below(h, p.base)
  \/ p.kind \in {"label", "optlabel"} /\ Below(h, p.base) /\ Len(h) = Len(p.base) + 1

matches(r, t) ==
  /\ full(Parsed[r].protocol, t.protocol) /\ hostMatches(Parsed[r].host, t.host)
  /\ full(Parsed[r].port, t.port) /\ full(Parsed[r].file, t.path)

DefaultPort(protocol) == IF protocol = "https" THEN "443" ELSE "80"

\* The URL of an endpoint leaves its scheme's default port out ...
endpointURL(protocol, host, port, path) ==
  [protocol |-> protocol, host |-> host, path |-> path,
   port |-> IF port = DefaultPort(protocol) THEN "" ELSE port]

\* ... and Evaluate puts it back.
Located(u) == [u EXCEPT !.port = IF @ = "" THEN DefaultPort(u.protocol) ELSE @]

\* Evaluate with its reason: exclusions first, then the includes, then the
\* first part of the URL up to which no include agrees.
Evaluate(sc, u) ==
  LET t == Located(u)
      P(r) == full(Parsed[r].protocol, t.protocol)
      H(r) == P(r) /\ hostMatches(Parsed[r].host, t.host)
      O(r) == H(r) /\ full(Parsed[r].port, t.port)
  IN IF \E r \in sc.exclude : matches(r, t) THEN "matched_exclusion"
     ELSE IF \E r \in sc.include : matches(r, t) THEN "allowed"
     ELSE IF ~ \E r \in sc.include : P(r) THEN "protocol_not_authorized"
     ELSE IF ~ \E r \in sc.include : H(r) THEN "host_mismatch"
     ELSE IF ~ \E r \in sc.include : O(r) THEN "port_not_authorized"
     ELSE "path_not_authorized"

Allows(sc, u) == Evaluate(sc, u) = "allowed"

\* Everything a scope authorises.
Allowed(sc) == {t \in Target : Allows(sc, t)}

-----------------------------------------------------------------------------
(* internal/targeting: what the planner may list.                          *)

finite(p, limit) == p.kind = "finite" /\ p.alts # <<>> /\ Len(p.alts) <= limit
finiteProtocols(p) == IF finite(p, 8) THEN Alternatives(p) ELSE {}
finitePorts(p) == IF finite(p, 32) THEN Alternatives(p) ELSE {}
exactHost(p) == p.kind = "exact"
narrowWildcard(p) == p.kind \in {"deep", "label"}
optionalWildcard(p) == p.kind \in {"optdeep", "optlabel"}

\* The path to start from: / where it is authorised, else a single literal.
initialPath(p) ==
  IF full(p, "/") THEN {"/"} ELSE IF finite(p, 2) /\ Len(p.alts) = 1 THEN Alternatives(p) ELSE {}

Endpoints(r, host) ==
  {endpointURL(protocol, host, port, path) :
     protocol \in finiteProtocols(Parsed[r].protocol), port \in finitePorts(Parsed[r].port),
     path \in initialPath(Parsed[r].file)}

\* Exact hosts become seeds with the endpoints the whole scope allows;
\* narrow wildcards and the operator's domains become discovery roots.  A
\* root keeps the rules it comes from and the operator's reason.
Plan(sc, manual) ==
  LET derived == {r \in sc.include : narrowWildcard(Parsed[r].host)}
      domains == {Parsed[r].host.base : r \in derived} \cup {m.domain : m \in manual}
  IN [scope |-> sc,
      seeds |-> UNION {{[rule |-> r, url |-> u] : u \in {v \in Endpoints(r, Parsed[r].host.base) : Allows(sc, v)}} :
                         r \in {r \in sc.include : exactHost(Parsed[r].host)}},
      roots |-> {[domain |-> d,
                  rules |-> {r \in derived : Parsed[r].host.base = d},
                  manual |-> IF \E m \in manual : m.domain = d
                             THEN (CHOOSE m \in manual : m.domain = d).reason ELSE None] :
                   d \in domains}]

InitialURLs(plan) == {s.url : s \in plan.seeds}
HasExecutableTargets(plan) == plan.seeds # {} \/ plan.roots # {}

-----------------------------------------------------------------------------
(* internal/targeting: discovery roots and discovered hosts.               *)

Labels == UNION {{h[i] : i \in DOMAIN h} : h \in Hosts}

\* Host names are not used up: right below every name that a rule gives there
\* is one that no rule gives.
ASSUME HostsAssumption ==
  /\ Hosts \subseteq Seq(Labels)
  /\ \A r \in Rules : \E h \in Hosts :
       /\ Below(h, Parsed[r].host.base) /\ Len(h) = Len(Parsed[r].host.base) + 1
       /\ \A x \in Rules : h # Parsed[x].host.base

\* Whether an exclusion takes away every host below the root of a source
\* rule; what cannot be told counts as taken away.
exclusionCoversDiscoveryHosts(exclusion, source) ==
  \/ exclusion = source
  \/ exclusion.kind \in {"any", "loose"}
  \/ /\ narrowWildcard(exclusion) \/ optionalWildcard(exclusion)
     /\ source.base = exclusion.base \/ Below(source.base, exclusion.base)

\* An exclusion counts only if it is the very same pattern.
MutCombinationAllowed(exclusions, source, protocol, port, path) ==
  \A x \in exclusions :
    full(Parsed[x].protocol, protocol) /\ full(Parsed[x].port, port) /\ full(Parsed[x].file, path)
      => Parsed[x].host # Parsed[source].host

discoveryCombinationAllowed(exclusions, source, protocol, port, path) ==
  \A x \in exclusions :
    full(Parsed[x].protocol, protocol) /\ full(Parsed[x].port, port) /\ full(Parsed[x].file, path)
      => ~ exclusionCoversDiscoveryHosts(Parsed[x].host, Parsed[source].host)

discoverySourceBasisAllowed(sc, root, r) ==
  /\ r \in sc.include /\ narrowWildcard(Parsed[r].host) /\ Parsed[r].host.base = root
  /\ \E protocol \in finiteProtocols(Parsed[r].protocol), port \in finitePorts(Parsed[r].port),
        path \in initialPath(Parsed[r].file) :
        discoveryCombinationAllowed(sc.exclude, r, protocol, port, path)

\* A root of the plan the run is pinned to, if the current plan has it from
\* the same source and that source still stands.
AllowsDiscoveryRoot(sc, pinned, current, root) ==
  \E p \in pinned, c \in current :
    /\ p.domain = root /\ c.domain = root
    /\ \/ \E r \in p.rules \cap c.rules :
            discoverySourceBasisAllowed(sc, root, r) \/ (p.manual # None /\ c.manual # None)
       \/ p.manual # None /\ p.manual = c.manual

\* The URLs of a discovered host that the scope allows.
authorizeHost(sc, host) ==
  UNION {{u \in Endpoints(r, host) : Allows(sc, u)} :
           r \in {r \in sc.include : hostMatches(Parsed[r].host, host)}}

FilterDiscoveredHosts(sc, hosts) == UNION {authorizeHost(sc, h) : h \in hosts}
FilterURLs(sc, urls) == {u \in urls : Allows(sc, u)}

\* A request for a provider is refused as a whole for one root or target that
\* is not authorised.
ValidateRoots(sc, pinned, current) ==
  \A p \in pinned : AllowsDiscoveryRoot(sc, pinned, current, p.domain)
ValidateTargets(sc, urls) == \A u \in urls : Allows(sc, u)

\* discover.subdomains queries the roots the run was planned with; whatever
\* host its tool then names is filtered like any other.
discoverSubdomains(sc, pinned, current) ==
  IF pinned # {} /\ ValidateRoots(sc, pinned, current)
  THEN FilterDiscoveredHosts(sc, Hosts) ELSE {}

executeTargetingPrepare(sc, exact, discovered) == FilterURLs(sc, exact \cup discovered)
=============================================================================
