------------------------- MODULE ConfirmationLifecycle -------------------------
(***************************************************************************)
(* What the confirm gate promises about the rows of                        *)
(* pending_confirmations of one conversation: a row is asked for while no  *)
(* other is open, it is settled once, and the call behind it is started at *)
(* most once and only after it was confirmed.  RouterTurns implements it.  *)
(***************************************************************************)
EXTENDS Naturals

CONSTANT Conf

VARIABLES status, runs

vars == <<status, runs>>

Init ==
  /\ status = [c \in Conf |-> "none"]
  /\ runs = [c \in Conf |-> 0]

Ask(c) ==
  /\ \A d \in Conf : status[d] # "pending"
  /\ status[c] = "none"
  /\ status' = [status EXCEPT ![c] = "pending"]
  /\ UNCHANGED runs

Settle(c) ==
  /\ status[c] = "pending"
  /\ \E s \in {"confirmed", "declined", "expired"} : status' = [status EXCEPT ![c] = s]
  /\ UNCHANGED runs

Run(c) ==
  /\ status[c] = "confirmed" /\ runs[c] = 0
  /\ runs' = [runs EXCEPT ![c] = 1]
  /\ UNCHANGED status

Next == \E c \in Conf : Ask(c) \/ Settle(c) \/ Run(c)
Spec == Init /\ [][Next]_vars
===============================================================================
