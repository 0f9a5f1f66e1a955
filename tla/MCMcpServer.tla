------------------------------ MODULE MCMcpServer ------------------------------
(* Two callers and two tools, one registered read-only and one mutating.     *)
EXTENDS McpServer, TLC

CONSTANTS get, put, c1, c2

Notes == (get :> "read") @@ (put :> "plain")
Drifted == (get :> "destructive") @@ (put :> "plain")
Gone == (get :> "absent") @@ (put :> "absent")

\* It returns unchanged, with the read-only tool declared destructive, or with no
\* tools at all.
Everything == {Notes, Drifted, Gone}

\* One read-only tool, on a server that never changes.
OneNote == get :> "read"
Same == {OneNote}
\* One that returns without its tool, or with it.
ComesAndGoes == {OneNote, get :> "absent"}
\* One that returns with its tool declared destructive.
Mutates == {get :> "destructive"}

CallerSymmetry == Permutations(Caller)
================================================================================
