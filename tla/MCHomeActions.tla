---------------------------- MODULE MCHomeActions ----------------------------
(* Instances of HomeActions for TLC. *)
EXTENDS HomeActions

CONSTANTS u1, u2, q1, tg, stranger1, stranger2, client1, client2

TickAndUndo == <<"tick", "undo">>
===============================================================================
