------------------------------- MODULE TurnMutex -------------------------------
(***************************************************************************)
(* What chatting promises about turns: whoever writes on a channel, its    *)
(* turns run one at a time.                                                *)
(***************************************************************************)
CONSTANTS Channel, Request

VARIABLE turn  \* turn[ch]: the requests whose turn on ch is running

Init == turn = [ch \in Channel |-> {}]

Begin(ch, r) ==
  /\ turn[ch] = {}
  /\ turn' = [turn EXCEPT ![ch] = {r}]

End(ch) ==
  /\ turn[ch] # {}
  /\ turn' = [turn EXCEPT ![ch] = {}]

Next == \E ch \in Channel : End(ch) \/ \E r \in Request : Begin(ch, r)

Spec == Init /\ [][Next]_turn

===============================================================================
