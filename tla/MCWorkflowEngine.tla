-------------------------- MODULE MCWorkflowEngine --------------------------
(***************************************************************************)
(* Small definitions for WorkflowEngine: two independent steps and a gated *)
(* conditional step after them, and two steps in a row for two engines.    *)
(***************************************************************************)
EXTENDS WorkflowEngine, TLC

CONSTANTS crawl, resolve, probe

ForkSteps == {crawl, resolve, probe}
ForkDeps  == (crawl :> {}) @@ (resolve :> {}) @@ (probe :> {crawl, resolve})
ForkRank  == (crawl :> 1) @@ (resolve :> 2) @@ (probe :> 3)
ForkTries == (crawl :> 2) @@ (resolve :> 1) @@ (probe :> 2)
ForkGated == {probe}

ChainSteps == {crawl, probe}
ChainDeps  == (crawl :> {}) @@ (probe :> {crawl})
ChainRank  == (crawl :> 1) @@ (probe :> 2)
ChainTries == (crawl :> 2) @@ (probe :> 1)

MCSymmetry == Permutations(Engines)
=============================================================================
