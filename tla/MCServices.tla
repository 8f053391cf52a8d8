----------------------------- MODULE MCServices -----------------------------
(***************************************************************************)
(* The dispatch of managed CI and the staged planning of an issue.  They    *)
(* share no variable of the models, so a behaviour is one of exactly one of *)
(* them, the part, while the other stays where it begins.                   *)
(***************************************************************************)
EXTENDS ManagedCi

CONSTANTS k1, k2,      \* commits
          lead, other  \* the primary and a secondary plan reviewer

VARIABLES
  part,
  demand, changes, text, log, held, started, task, plan, ended, executed

planVars ==
  <<demand, changes, text, log, held, started, task, plan, ended, executed>>

(* Managed CI is explored three times: one head and two activations with a  *)
(* generation each, two heads with one activation, and one head and two     *)
(* activations of one generation that poll long enough to rerun.            *)
LongCi == INSTANCE ManagedCi WITH Scopes <- {FALSE}, MaxPolls <- 3

(* Planning is explored in two runs of two rounds, with a change of the     *)
(* requirements or of the text, in three rounds, with a change of the       *)
(* requirements or with two restarts and one revision, and in four runs of  *)
(* one round, with two changes of the requirements.  The instances are of   *)
(* the proof module, so that its theorems speak of these very behaviours.   *)
Plan == INSTANCE PlanLoopProofs WITH
  Reviewers <- {lead, other}, Primary <- lead, Demands <- {"none", "signed"},
  MaxRounds <- 2, MaxRuns <- 2, MaxChanges <- 1, MaxEdits <- 1,
  runs <- started, pc <- task, run <- plan
LongPlan == INSTANCE PlanLoopProofs WITH
  Reviewers <- {lead, other}, Primary <- lead, Demands <- {"none", "signed"},
  MaxRounds <- 3, MaxRuns <- 3, MaxChanges <- 1, MaxEdits <- 0,
  runs <- started, pc <- task, run <- plan
Replan == INSTANCE PlanLoopProofs WITH
  Reviewers <- {lead, other}, Primary <- lead, Demands <- {"none", "signed"},
  MaxRounds <- 1, MaxRuns <- 4, MaxChanges <- 2, MaxEdits <- 0,
  runs <- started, pc <- task, run <- plan

MCInit ==
  /\ part \in {"one head", "two heads", "long wait", "plan", "long plan", "restarts"}
  /\ Init /\ Plan!Init
  /\ live = k1
  /\ scoped <=> part # "long wait"
  /\ part \notin {"plan", "long plan", "restarts"} => demand = "none"

(* The bound of the long planning: several runs without signed requirements *)
(* and with one revision of the plan, or one run with a change of them.     *)
RestartsOrChanges ==
  started' > 1 =>
    /\ demand' = "none" /\ changes' = 0
    /\ Cardinality({i \in DOMAIN log' : log'[i].kind = "plan"}) <= 2

MCNext ==
  \/ part = "one head" /\ Next /\ live' = live /\ UNCHANGED <<part, planVars>>
  \/ part = "two heads" /\ Next /\ starts' < 2 /\ UNCHANGED <<part, planVars>>
  \/ part = "long wait" /\ LongCi!Next /\ live' = live /\ UNCHANGED <<part, planVars>>
  \/ part = "plan" /\ Plan!Next /\ changes' + text' <= 1 /\ UNCHANGED <<part, vars>>
  \/ part = "long plan" /\ LongPlan!Next /\ RestartsOrChanges /\ UNCHANGED <<part, vars>>
  \/ part = "restarts" /\ Replan!Next /\ UNCHANGED <<part, vars>>

MCSpec == MCInit /\ [][MCNext]_<<part, vars, planVars>>

-----------------------------------------------------------------------------
(* The properties of planning, explained in PlanLoop, each for the instance *)
(* the behaviour is one of.                                                 *)

(* What is executed is the plan every reviewer last approved, under the     *)
(* requirements of now, with no finding left (the final gate of             *)
(* plan_first_loop.py).                                                     *)
ApprovedPlanIsSound ==
  /\ part = "plan" => Plan!ApprovedPlanIsSound
  /\ part = "long plan" => LongPlan!ApprovedPlanIsSound
  /\ part = "restarts" => Replan!ApprovedPlanIsSound

(* The secondaries wait for the primary (select_plan_reviewers).            *)
PanelWaits ==
  /\ part = "plan" => Plan!PanelWaits
  /\ part = "long plan" => LongPlan!PanelWaits
  /\ part = "restarts" => Replan!PanelWaits

(* The cross-checks never refuse an approval but for an overlooked review   *)
(* (plan_ledger_unreconstructible_items, approval_shortcut_disagreement).   *)
CrossChecksAgree ==
  /\ part = "plan" => Plan!CrossChecksAgree
  /\ part = "long plan" => LongPlan!CrossChecksAgree
  /\ part = "restarts" => Replan!CrossChecksAgree
=============================================================================
