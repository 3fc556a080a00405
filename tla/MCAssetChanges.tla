--------------------------- MODULE MCAssetChanges ---------------------------
(* Small instances of AssetChanges for TLC.                                *)
EXTENDS AssetChanges, TLC

CONSTANTS r1, r2, u1, p1

Up     == [status |-> 200, tech |-> "nginx"]
Denied == [status |-> 403, tech |-> ""]
Silent == [status |-> Unknown, tech |-> "nginx"]

SomeContents == {Up, Denied, Silent}

\* The page has a keyword in its path, the probed URL has none.
SomeWeights == [e \in Endpoints |-> IF e \in Pages THEN 2 ELSE 0]

SomeVerdicts == {v \in Verify : v.evidence = "observed"}

RunSymmetry == Permutations(Runs)
=============================================================================
