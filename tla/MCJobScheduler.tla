---------------------------- MODULE MCJobScheduler -----------------------------
(* A frequent job and a rare one, over a few ticks of the clock.             *)
EXTENDS JobScheduler, TLC

CONSTANTS often, seldom

Timetable == (often :> {1, 3}) @@ (seldom :> {2})
OneJob == often :> 1..Horizon
================================================================================
