---------------------------- MODULE MCChatRequests ----------------------------
(* Instances of ChatRequests for TLC. *)
EXTENDS ChatRequests

CONSTANTS r1, r2, r3, chat, brief

\* Every message on one new channel.
OneChat == [r \in Request |-> chat]
===============================================================================
