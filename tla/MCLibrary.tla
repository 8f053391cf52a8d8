----------------------------- MODULE MCLibrary ------------------------------
(***************************************************************************)
(* What a caller varies: the runs of one process, started from the command  *)
(* line or from a library, which share the cancel latch, and the policy of  *)
(* a loop.  The loop is taken with two reviewers and two heads, in the same *)
(* variables: on a parallel selective board, and on a sequential board of   *)
(* all reviewers whose first reviewer fails.  The coder pushes under both;  *)
(* on the selective board CI fails on the first commit and passes on the    *)
(* second.  The models of the process and of the loop share no variable, so *)
(* a behaviour is one of exactly one of them, the part.                     *)
(***************************************************************************)
EXTENDS MCInterrupt

CONSTANTS r4,              \* the command with parallel turns
          h1, h2, NoHead   \* commits

(* Two commands, as the constants of this module have it: a pair of         *)
(* parallel turns, then a turn of the main thread.                          *)
CommandCrew == [r \in Runs |-> CASE r = r4 -> {t1, t2} [] r = r3 -> {t3} [] OTHER -> {}]
CommandPool == [r \in Runs |-> IF r = r4 THEN 2 ELSE 1]
CommandAfter == {<<r4, r3>>}

VARIABLES part, head, ci, clash, reqs, merged, pushes, log, runs, task, seen, known, run

loopVars == <<head, ci, clash, reqs, merged, pushes, log, runs, task, seen, known, run>>

(* The runs of a library as in MCInterrupt, with one reset and one wait a   *)
(* run, in the same variables.                                              *)
Library == INSTANCE Interrupt WITH
  Runs <- {r1, r2, r3}, Crew <- LibraryCrew, Pool <- LibraryPool, After <- LibraryAfter,
  Main <- {r1, r2}, Cli <- {}, Direct <- {}, Resets <- {6}, MaxWaits <- 1

Chosen == INSTANCE PrLoop WITH
  Reviewers <- {r1, r2}, Heads <- {h1, h2}, Primary <- r1,
  Policy <- "selective-intermediate", MaxRounds <- 2, MaxReqs <- 0, FirstHead <- h1,
  Parallel <- TRUE, CiResults <- {"passing", "failing"}, Conflicting <- {},
  Pushers <- {"coder"}, MaxPushes <- 1, MaxRuns <- 2, WatchBudget <- 1,
  Failures <- {}, pc <- task

Board == INSTANCE PrLoop WITH
  Reviewers <- {r1, r2}, Heads <- {h1, h2}, Primary <- r1,
  Policy <- "all-reviewers", MaxRounds <- 1, MaxReqs <- 0, FirstHead <- h1,
  Parallel <- FALSE, CiResults <- {"passing", "failing"}, Conflicting <- {},
  Pushers <- {"coder"}, MaxPushes <- 1, MaxRuns <- 2, WatchBudget <- 2,
  Failures <- {r1}, pc <- task

MCInit == part \in {"library", "commands", "chosen", "board"} /\ Init /\ Chosen!Init

MCNext ==
  \/ part = "library" /\ Library!Next /\ UNCHANGED <<part, loopVars>>
  \/ /\ part = "commands" /\ Next
     /\ at'[r1] = at[r1] /\ at'[r2] = at[r2]
     /\ UNCHANGED <<part, loopVars>>
  \/ /\ part = "chosen" /\ Chosen!Next
     /\ ci'[h1] # "passing" /\ ci'[h2] # "failing"
     /\ UNCHANGED <<part, vars>>
  \/ part = "board" /\ Board!Next /\ UNCHANGED <<part, vars>>

MCSpec == MCInit /\ [][MCNext]_<<part, vars, loopVars>>

-----------------------------------------------------------------------------
(* The properties of the loop, explained in PrLoop.                         *)

(* No finding is forgotten on the way to a settled round, under a policy    *)
(* that lets reviewers pause and one that does not (unresolved_items.py;    *)
(* for restarts after a rejected turn see PrLoopFindingsLost.cfg).          *)
FindingsCarried ==
  IF part = "chosen" THEN Chosen!FindingsCarried ELSE Board!FindingsCarried
=============================================================================
