-------------------------- MODULE ReviewScheduling --------------------------
(***************************************************************************)
(* The choice of the reviewers of one round (review_scheduling.py:         *)
(* policy_capabilities, classify_transition, select_reviewers).            *)
(*                                                                         *)
(* A request s holds what the pull-request loop derived from its records:  *)
(*   approvals  reviewers with a qualifying approval of the exact head     *)
(*   owners     reviewers some active item is pending on                   *)
(*   active     some item of the ledger is active                          *)
(*   narrow     the transition was classified narrow                       *)
(*   force      the force-full latch, or an automatic fallback             *)
(*   opened     the secondary panel was legitimately opened                *)
(*   sweep      a final exact-head sweep is due                            *)
(***************************************************************************)
EXTENDS ReviewLedger

CONSTANTS
  Primary,    \* the primary reviewer of the staged policy
  Policy      \* "all-reviewers", "selective-intermediate" or "primary-then-panel"

ASSUME PrimaryAssumption == Primary \in Reviewers
ASSUME PolicyAssumption ==
  Policy \in {"all-reviewers", "selective-intermediate", "primary-then-panel"}

Staged == Policy = "primary-then-panel"
Selective == Policy # "all-reviewers"   \* scheduler_enabled, owner-scoped
Secondaries == Reviewers \ {Primary}

Phases == {"full-board", "primary", "secondary-audit", "remediation",
           "final-secondary-sweep", "pre-panel-stop"}

Decision(phase, selected) == [phase |-> phase, selected |-> selected]
FullBoard == Decision("full-board", Reviewers)

(* Before the panel opens only the primary works; a finding that already   *)
(* belongs to a secondary is a contradiction the scheduler refuses.        *)
PrePanel(s) ==
  CASE s.owners \cap Secondaries # {} -> Decision("pre-panel-stop", {})
    [] s.owners \cap Secondaries = {} /\ Primary \notin s.approvals
         -> Decision("primary", {Primary})
    [] s.owners \cap Secondaries = {} /\ Primary \in s.approvals
         -> Decision("secondary-audit", Secondaries \ s.approvals)

PostPanel(s) ==
  CASE s.force \/ ~s.narrow -> FullBoard
    [] ~s.force /\ s.narrow /\ s.active
         -> Decision("remediation", (s.owners \cup {Primary}) \ s.approvals)
    [] ~s.force /\ s.narrow /\ ~s.active /\ Primary \notin s.approvals
         -> Decision("remediation", {Primary})
    [] ~s.force /\ s.narrow /\ ~s.active /\ Primary \in s.approvals
         -> Decision("final-secondary-sweep", Secondaries \ s.approvals)

Intermediate(s) ==
  CASE s.force -> FullBoard
    [] ~s.force /\ s.sweep -> Decision("final-secondary-sweep", Reviewers \ s.approvals)
    [] ~s.force /\ ~s.sweep /\ (~s.narrow \/ s.owners = {}) -> FullBoard
    [] ~s.force /\ ~s.sweep /\ s.narrow /\ s.owners # {} -> Decision("remediation", s.owners)

(* Mutant of SelectReviewers: nobody asks whether the panel was opened.    *)
SelectAsIfOpened(s) ==
  CASE Policy = "all-reviewers" -> FullBoard
    [] Policy = "selective-intermediate" -> Intermediate(s)
    [] Policy = "primary-then-panel" -> PostPanel(s)

SelectReviewers(s) ==
  CASE Policy = "all-reviewers" -> FullBoard
    [] Policy = "selective-intermediate" -> Intermediate(s)
    [] Policy = "primary-then-panel" -> IF s.opened THEN PostPanel(s) ELSE PrePanel(s)
=============================================================================
