----------------------- MODULE MCScheduledExecutions -----------------------
(***************************************************************************)
(* Small instances of ScheduledExecutions: one schedule whose executions   *)
(* compete for it, and workers on one host, which write the same lease     *)
(* owner.                                                                  *)
(***************************************************************************)
EXTENDS ScheduledExecutions, TLC

CONSTANTS theSchedule, theHost

MCSchedules  == {theSchedule}
MCHosts      == {theHost}
MCScheduleOf == [e \in Executions |-> theSchedule]
MCHost       == [w \in Workers |-> theHost]

MCSymmetry == Permutations(Workers)

\* The lineage of a closed execution that no worker holds: no later step of
\* any execution reads it, so states that differ only there are one state.
MCForget(f, v) ==
    [e \in Executions |->
        IF status[e] \in Closed /\ \A w \in Workers : job[w] # e THEN v ELSE f[e]]

MCOverlapView ==
    <<row, worker, MCForget(task, "none"), MCForget(run, "none"),
      MCForget(done, FALSE), MCForget(work, "none"),
      MCForget(gate, "unreached"), MCForget(decision, "none")>>
=============================================================================
