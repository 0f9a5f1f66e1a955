----------------------------- MODULE MCRouterTurns -----------------------------
(* Instances of RouterTurns for TLC. *)
EXTENDS RouterTurns, TLC

CONSTANTS m1, m2, u1, u2, c1, c2, fetch, write, erase, ghost

\* fetch is untrusted and read-only, write a trusted mutation, erase an untrusted
\* mutation declared confirm, ghost a name no start registers.
MCTool == {fetch, write, erase, ghost}
MCConfirm == {erase}
MCReadOnly == {fetch}
MCUntrusted == {fetch, erase}
TwoSenders == [m \in Msg |-> IF m = m1 THEN u1 ELSE u2]
OneSender == [m \in Msg |-> u1]

CleanOrTainted == {<<fetch>>, <<write>>, <<write, erase>>}
Mixed == {<<erase, fetch>>, <<ghost, write>>}

\* A start may find every tool, or a configuration without erase.
Upgrades == {{fetch, write, erase}, {fetch, write}}
Everything == {{fetch, write, erase}}

ConfSymmetry == Permutations(Conf)
===============================================================================
