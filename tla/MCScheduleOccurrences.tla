----------------------- MODULE MCScheduleOccurrences -----------------------
(* Small instances of ScheduleOccurrences for TLC.                         *)
EXTENDS ScheduleOccurrences, TLC

CONSTANTS s1, s2

ListOrder == <<s1, s2>>

\* Every minute, and the thirtieth of February.
EveryMinute == [t \in 0..Horizon |-> t + 1]
Never       == [t \in 0..Horizon |-> Zero]
SomeCrons   == ("minute" :> EveryMinute) @@ ("never" :> Never)
=============================================================================
