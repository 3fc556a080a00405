---------------------------- MODULE ScheduleSlot ----------------------------
(***************************************************************************)
(* What the scheduler promises about the executions of a schedule, without *)
(* leases, workers, tasks, runs or recovery: a schedule is a slot that one *)
(* execution at a time occupies, an execution enters the slot at most      *)
(* once, and work that has started is never started again behind the       *)
(* operator's back: a running execution goes back to the queue only after  *)
(* it has been paused.                                                     *)
(***************************************************************************)
CONSTANTS Schedules, Executions, ScheduleOf

VARIABLE phase

Occupying == {"queued", "claimed", "running", "paused"}

SlotInit == phase = [e \in Executions |-> "new"]

Free(e) ==
    \A f \in Executions : ScheduleOf[f] = ScheduleOf[e] => phase[f] \notin Occupying

Move(e, from, to) ==
    /\ phase[e] \in from
    /\ phase' = [phase EXCEPT ![e] = to]

Plan(e)    == Free(e) /\ Move(e, {"new"}, "queued")
Skip(e)    == ~Free(e) /\ Move(e, {"new"}, "closed")
Take(e)    == Move(e, {"queued"}, "claimed")
Start(e)   == Move(e, {"claimed"}, "running")
Pause(e)   == Move(e, {"claimed", "running"}, "paused")
GiveBack(e) == Move(e, {"claimed"}, "queued")    \* nothing was started
Resume(e)  == Move(e, {"paused"}, "queued")      \* the operator asked for it
Close(e)   == Move(e, {"claimed", "running", "paused"}, "closed")

SlotNext ==
    \E e \in Executions :
        \/ Plan(e) \/ Skip(e) \/ Take(e) \/ Start(e)
        \/ Pause(e) \/ GiveBack(e) \/ Resume(e) \/ Close(e)

SlotSpec == SlotInit /\ [][SlotNext]_phase
=============================================================================
