-------------------------- MODULE MCScopeVersions --------------------------
(* Small instances of ScopeVersions for TLC.                               *)
EXTENDS ScopeVersions, TLC

CONSTANTS q1, q2, f1, f2, why, wide, one, wild, less, none, root

X == <<"x">>
AX == <<"a", "x">>
SomeHosts == {X, AX, <<"b", "x">>, <<"c", "a", "x">>, <<"d", "a", "x">>}

AnyValue == [kind |-> "any", alts |-> <<>>, anchored |-> TRUE]
Listed(s, anchored) == [kind |-> "finite", alts |-> s, anchored |-> anchored]
OnHost(kind, base) == [kind |-> kind, base |-> base]
MakeRule(p, h, o, f) == [protocol |-> p, host |-> h, port |-> o, file |-> f]

Https == Listed(<<"https">>, TRUE)
Both == Listed(<<"https", "http">>, FALSE)     \* https?
BothBadly == Listed(<<"http", "https">>, FALSE) \* http|https without an anchor
Web == Listed(<<"80", "443">>, TRUE)

SomeRules == {"oneHost", "wild", "wildA", "noApi", "noHttp", "noneBelowA", "noneBelowX"}
SomeParsed == [r \in SomeRules |->
  CASE r = "oneHost" -> MakeRule(Both, OnHost("exact", AX), Web, AnyValue)
    [] r = "wild" -> MakeRule(BothBadly, OnHost("deep", X), Listed(<<"443", "8080">>, TRUE), AnyValue)
    [] r = "wildA" -> MakeRule(Https, OnHost("label", AX), Listed(<<"443">>, FALSE),
                               Listed(<<"/api">>, TRUE))
    [] r = "noApi" -> MakeRule(AnyValue, OnHost("exact", AX), AnyValue, Listed(<<"/api">>, TRUE))
    [] r = "noHttp" -> MakeRule(Listed(<<"http">>, TRUE), OnHost("loose", X), AnyValue, AnyValue)
    [] r = "noneBelowA" -> MakeRule(AnyValue, OnHost("optdeep", AX), AnyValue, AnyValue)
    [] r = "noneBelowX" -> MakeRule(Https, OnHost("label", X), AnyValue, AnyValue)]

SomeCompiled == [d \in {wide, one, wild, less} |->
  CASE d = wide -> [include |-> {"oneHost", "wild"}, exclude |-> {}]
    [] d = one -> [include |-> {"oneHost"}, exclude |-> {"noApi"}]
    [] d = wild -> [include |-> {"wild", "wildA"}, exclude |-> {"noneBelowA"}]
    [] d = less -> [include |-> {"wild"}, exclude |-> {"noHttp", "noneBelowX"}]]
SomeRoots == [m \in {none, root} |->
  IF m = none THEN {} ELSE {[domain |-> X, reason |-> why]}]

ScopeSymmetry == Permutations(Requests) \cup Permutations(Refs)
=============================================================================
