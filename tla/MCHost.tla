------------------------------- MODULE MCHost -------------------------------
(***************************************************************************)
(* What the runs of a host share: the claims on checkouts, the store of the *)
(* run worktrees, and the threads of a run that is interrupted.  The models *)
(* of these share no variable, so a behaviour is one of exactly one of      *)
(* them, the part, while the others stay where they begin.                  *)
(***************************************************************************)
EXTENDS WorkdirClaims, TLC

CONSTANTS
  r1, r2, r3, h1, h2, p1, p2,  \* runs, processes and checkouts
  a, b, c,                     \* turns
  WorktreeRuns, MaxStale       \* the runs with a worktree, and how often the store goes stale

(* Nobody is not one of the runs.                                          *)
ASSUME WorktreesAssumption == NoRun \notin WorktreeRuns /\ MaxStale \in Nat

(* Three runs, two of them in one process, over two checkouts that they     *)
(* claim in opposite orders.                                                *)
MCProcs == (r1 :> h1) @@ (r2 :> h1) @@ (r3 :> h2)
MCWants == (r1 :> {<<p1>>, <<p1, p2>>}) @@ (r2 :> {<<p2, p1>>}) @@ (r3 :> {<<p2, p1>>})

VARIABLES
  part,
  at, outcome, turn, left, active, event, signalled, message, refuse, procs,
  alive, doomed, budget, open, signals, granted, hit, cut, pressed,
  lock, store, gen, stales, direct, probed, path, admin, record, claim, step,
  victim, made, swept

turnVars == <<at, outcome, turn, left, active, event, signalled, message, refuse,
              procs, alive, doomed, budget, open, signals, granted, hit, cut, pressed>>
worktreeVars == <<lock, store, gen, stales, direct, probed, path, admin, record,
                  claim, step, victim, made, swept>>

(* Two commands of one process: a pair of parallel turns, then a turn of    *)
(* the main thread.                                                         *)
Turns == INSTANCE Interrupt WITH
  Runs <- {r1, r2}, Workers <- {a, b, c},
  Crew <- (r1 :> {a, b}) @@ (r2 :> {c}), Pool <- (r1 :> 2) @@ (r2 :> 1),
  Main <- {r1, r2}, Cli <- {r1, r2}, Direct <- {r2}, After <- {<<r1, r2>>},
  Resets <- {6, 9}, Limit <- 15, Margin <- 1, MaxWaits <- 2, Slices <- 1,
  MaxSignals <- 1, pc <- turn, live <- open

(* These runs and the direct run share one store.                           *)
Worktrees == INSTANCE RunWorktrees WITH
  Runs <- WorktreeRuns, pc <- step, doomed <- swept

MCInit ==
  /\ part \in {"claims", "turns", "worktrees"}
  /\ Init /\ Turns!Init /\ Worktrees!Init
  /\ part # "worktrees" => store = "good"

MCNext ==
  \/ part = "claims" /\ Next /\ UNCHANGED <<part, turnVars, worktreeVars>>
  \/ part = "turns" /\ Turns!Next /\ UNCHANGED <<part, vars, worktreeVars>>
  \/ part = "worktrees" /\ Worktrees!Next /\ UNCHANGED <<part, vars, turnVars>>

(* The fairness of the part that runs.                                      *)
MCFairness ==
  /\ \A r \in Runs : /\ WF_vars(part = "claims" /\ Acquire(r))
                     /\ WF_vars(part = "claims" /\ Unwind(r))
  /\ \A r \in {r1, r2} : WF_turnVars(part = "turns" /\ Turns!HostStep(r))
  /\ \A w \in {a, b, c} : WF_turnVars(part = "turns" /\ Turns!WorkerStep(w))
  /\ \A r \in WorktreeRuns :
       WF_worktreeVars(/\ part = "worktrees"
                       /\ \/ Worktrees!PrepareStep(r) \/ Worktrees!PruneStep(r)
                          \/ Worktrees!AddStep(r) \/ Worktrees!EndStep(r))

MCSpec == MCInit /\ [][MCNext]_<<part, vars, turnVars, worktreeVars>> /\ MCFairness

-----------------------------------------------------------------------------
(* An interrupted command ends however long its agents take                 *)
(* (terminate_active_processes).                                            *)
InterruptEnds == Turns!InterruptEnds

(* The properties of the worktrees, explained in RunWorktrees.              *)

(* No starting run takes the worktree of a working one, nor recreates a     *)
(* store that a direct run has claimed (prune_dead_worktrees,               *)
(* _prepare_store_locked).                                                  *)
UsedStays == Worktrees!UsedStays

(* Every path a run leaves has an owner record, what was a ready worktree   *)
(* keeps its ready one to the last, and the sweep takes every whole         *)
(* worktree of a dead run (add_run_worktree, _remove_owned_locked,          *)
(* prune_dead_worktrees).                                                   *)
LeftoversAreFound == Worktrees!LeftoversAreFound

(* No run keeps the lock of the store, and none waits for ever to get out   *)
(* of its scope (store_lock, workdir_run_scope).                            *)
NobodyIsHeldUp == UnwindingEnds /\ Worktrees!LockIsFreed
=============================================================================
