----------------------------- MODULE JobLedger -----------------------------
(***************************************************************************)
(* What the job queue promises about a job, without streams, deliveries,   *)
(* workers, retries, dead letters or crashes: the attempt is claimed once, *)
(* its provider is called once, its result is recorded once and stands,    *)
(* and only a recorded success is announced.  What happens in between may  *)
(* come to an end at any point.                                            *)
(***************************************************************************)
EXTENDS Naturals

CONSTANT Jobs

VARIABLES phase, calls, results

ledger == <<phase, calls, results>>

LedgerInit ==
  /\ phase = [j \in Jobs |-> "waiting"]
  /\ calls = [j \in Jobs |-> 0]
  /\ results = {}

Move(j, from, to) == phase[j] = from /\ phase' = [phase EXCEPT ![j] = to]

CountCall(j) == calls' = [calls EXCEPT ![j] = @ + 1]

Claim(j) == Move(j, "waiting", "claimed") /\ UNCHANGED <<calls, results>>

Call(j) == Move(j, "claimed", "called") /\ CountCall(j) /\ UNCHANGED results

\* The call is cut short, and the cancellation is its result.
Cancel(j) == Move(j, "claimed", "cancelled") /\ CountCall(j) /\ UNCHANGED results

Record(j) ==
  /\ \E r \in {"succeeded", "retryable", "failed"} : Move(j, "called", r)
  /\ UNCHANGED <<calls, results>>

Announce(j) ==
  /\ phase[j] = "succeeded"
  /\ results' = results \cup {j}
  /\ UNCHANGED <<phase, calls>>

LedgerNext ==
  \E j \in Jobs : Claim(j) \/ Call(j) \/ Cancel(j) \/ Record(j) \/ Announce(j)

LedgerSpec == LedgerInit /\ [][LedgerNext]_ledger
=============================================================================
