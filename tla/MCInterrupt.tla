---------------------------- MODULE MCInterrupt ----------------------------
(* Runs of one process: one command with two turns, or a library run on    *)
(* the main thread, its successor, and a run of another thread.            *)
EXTENDS Interrupt, TLC

CONSTANTS r1, r2, r3, t1, t2, t3   \* runs, and the turns of their agents

LibraryCrew == (r1 :> {t1}) @@ (r2 :> {t2}) @@ (r3 :> {t3})
LibraryPool == (r1 :> 1) @@ (r2 :> 1) @@ (r3 :> 1)
LibraryAfter == {<<r1, r2>>}

OneCrew == (r1 :> {t1, t2})
OnePool == (r1 :> 2)
=============================================================================
