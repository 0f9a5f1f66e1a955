-------------------------------- MODULE MCServe --------------------------------
(* Instances of Serve for TLC. *)
EXTENDS Serve, TLC

CONSTANTS i1, i2, cli, core, tasks, project, v1, v2, calendar, mail, add, list, ping, note

LaneList == <<core, tasks, project>>
TwoLaneList == <<core, tasks>>

\* v2 adds a revision of core and one of the tasks lane.
HeadsOf == [r \in Release |-> [l \in Lane |->
             IF l = project THEN 0 ELSE IF r = v1 THEN 1 ELSE 2]]

NoneOrTasks == {{}, {tasks}}
OnlyCore == {{core}}
Sound == {{}}

Booleans == {TRUE, FALSE}
Always == {TRUE}

Servers == <<calendar, mail>>
Fit(n) == [name |-> n, fit |-> TRUE]

\* calendar lists more than it may register, and mail a name of calendar or of
\* the program.
Adverts == [s \in {calendar, mail} |->
  IF s = calendar
  THEN {<<[name |-> list, fit |-> FALSE], Fit(add), Fit(add), Fit(list), Fit(ping)>>}
  ELSE {<<Fit(add), Fit(ping)>>, <<Fit(note)>>}]

InstanceSymmetry == Permutations(Instance)

NoServers == <<>>
Nothing == [s \in {} |-> {}]
===============================================================================
