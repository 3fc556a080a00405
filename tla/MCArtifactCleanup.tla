------------------------- MODULE MCArtifactCleanup -------------------------
(* Small instances of ArtifactCleanup for TLC.                             *)
EXTENDS ArtifactCleanup, TLC

CONSTANTS stdout, normalized, other, r1, r2, c1, c2

\* A result with two files, stdout.jsonl and result.json, and a second one in
\* flight beside it.
TwoResults == (r1 :> <<stdout, normalized>>) @@ (r2 :> <<other>>)
=============================================================================
