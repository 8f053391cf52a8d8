------------------------------ MODULE RoundLog ------------------------------
(***************************************************************************)
(* The durable round records of a pull request, and what a restarted run   *)
(* makes of them (round_state.py, code_approval.py, panel_evidence.py,     *)
(* qualification_checkpoint.py).                                           *)
(*                                                                         *)
(* The loop keeps no file of its own: every step that must survive a       *)
(* restart is posted as a comment with a metadata record.  A log is the    *)
(* sequence of these records in comment order:                             *)
(*   prelaunch       a scheduling decision, before its reviewers run       *)
(*   review          one complete review                                   *)
(*   reconciliation  closes a round, with every vote counted in it         *)
(*   checkpoint      the CI obligation and the round budget                *)
(*   dispatch        a coder turn is about to start (invisible to ordinary *)
(*                   resume)                                               *)
(*   rejected        a coder turn was rejected after it moved the head     *)
(*   coder           an accepted coder turn, opening the next round        *)
(*   headreview      a recovered head gets an ordinary review round        *)
(*                                                                         *)
(* Optional values are sets with at most one element.                      *)
(***************************************************************************)
EXTENDS ReviewScheduling, Sequences

CONSTANTS
  MaxRounds,  \* --max-rounds
  MaxReqs     \* bound on the signed human requirements posted on the PR

ASSUME MaxRoundsAssumption == MaxRounds \in Nat \ {0}
ASSUME MaxReqsAssumption == MaxReqs \in Nat

MaxAttempts == 2   \* MAX_REJECTED_DISPATCH_ATTEMPTS

Kinds == {"prelaunch", "review", "reconciliation", "checkpoint", "dispatch",
          "rejected", "coder", "headreview"}

(* RecoveryRoundBudget: the round limit and the two one-shot extensions.   *)
Budgets == [allowed : Nat, failExt : BOOLEAN, headExt : BOOLEAN]

(* QualificationCheckpoint.  reqs is -1 and appr empty when the digests    *)
(* are absent; sched is the ledger the scheduler digest was taken of.      *)
Checkpoints == [life : Lifecycles, failed : Heads \cup {NoHead}, cand : Heads \cup {NoHead},
                budget : Budgets, reqs : -1 .. MaxReqs, appr : SUBSET Reviewers,
                sched : Ledgers]

Tallies == [Reviewers -> Votes]
NoTally == [r \in Reviewers |-> NoVote]

Records == [kind : Kinds, head : Heads, round : Nat, led : Ledgers, tally : Tallies,
            saw : 0 .. MaxReqs, ck : SUBSET Checkpoints, budget : SUBSET Budgets,
            attempt : 0 .. MaxAttempts, prev : Heads \cup {NoHead}, opens : BOOLEAN, force : BOOLEAN,
            external : BOOLEAN]

Record(kind, h, n, L) ==
  [kind |-> kind, head |-> h, round |-> n, led |-> L, tally |-> NoTally, saw |-> 0,
   ck |-> {}, budget |-> {}, attempt |-> 0, prev |-> NoHead, opens |-> FALSE,
   force |-> FALSE, external |-> FALSE]

Latest(S) == CHOOSE i \in S : \A j \in S : j <= i

On(log, h) == {i \in DOMAIN log : log[i].head = h}
OfKind(log, S, K) == {i \in S : log[i].kind \in K}

(* A scheduling decision posted into a round that a reconciliation of the   *)
(* same round and head has closed, and no head review has reopened since,   *)
(* is inert: only the handoff readers still see it.                         *)
SameRound(log, i, K) ==
  {j \in OfKind(log, On(log, log[i].head), K) : j < i /\ log[j].round = log[i].round}
Inert(log) ==
  {i \in OfKind(log, DOMAIN log, {"prelaunch"}) :
     \E j \in SameRound(log, i, {"reconciliation"}) :
       \A b \in SameRound(log, i, {"headreview"}) : b < j}
Read(log) == DOMAIN log \ Inert(log)

(* Records that carry scheduler metadata.                                  *)
Scheduled == {"prelaunch", "review", "reconciliation", "coder"}

(* The latest vote of each reviewer among the reviews in S.                *)
TallyOf(log, S) ==
  [r \in Reviewers |->
     LET mine == {i \in S : log[i].kind = "review" /\ log[i].tally[r].voted}
     IN  IF mine = {} THEN NoVote ELSE log[Latest(mine)].tally[r]]

-----------------------------------------------------------------------------
(* Approvals *)

(* Mutant of ReviewsOf: a review counts on whatever head it was posted.    *)
ReviewsOfAnyHead(log, r, h) ==
  {i \in DOMAIN log : log[i].kind = "review" /\ log[i].tally[r].voted}

ReviewsOf(log, r, h) == {i \in On(log, h) : log[i].kind = "review" /\ log[i].tally[r].voted}

(* The qualified openings of the secondary panel: secondary-audit records  *)
(* on a head the primary approved before.                                  *)
PostedOpenings(log) ==
  {i \in DOMAIN log : log[i].opens
     /\ \E j \in ReviewsOf(log, Primary, log[i].head) : j < i /\ log[j].tally[Primary].blocks = {}}
Openings(log) == PostedOpenings(log) \ Inert(log)
Opened(log) == Openings(log) # {}
Qualified(log, r, i) == ~Staged \/ r = Primary \/ \E j \in Openings(log) : j < i

(* _latest_pr_approved_reviews_for_head: the latest complete review of the *)
(* exact head approves it and surfaced every requirement known now.        *)
Approves(log, r, h, k) ==
  LET mine == {i \in ReviewsOf(log, r, h) : Qualified(log, r, i)}
  IN  /\ mine # {}
      /\ log[Latest(mine)].tally[r].blocks = {}
      /\ log[Latest(mine)].saw >= k

Approvals(log, h, k) == {r \in Reviewers : Approves(log, r, h, k)}
ApprovalRound(log, r, h) == log[Latest(ReviewsOf(log, r, h))].round

(* The post-opening latch of the staged policy, and the startup latch.     *)
PanelLatched(log) == \E i \in Read(log) : log[i].force /\ \E j \in Openings(log) : j < i
StartupLatched(log) == ~Staged /\ \E i \in Read(log) : log[i].force

-----------------------------------------------------------------------------
(* Resuming a round *)

Ordinary(log) == {i \in Read(log) : log[i].kind # "dispatch"}

(* _select_current_round_records: the records of the round of the latest   *)
(* record of a head, with its ledger, from the latest recovery handoff and *)
(* the latest coder record of that round on.                               *)
Anchor(log, h) == Latest(Ordinary(log) \cap On(log, h))
CurrentRound(log, h) ==
  LET a == log[Anchor(log, h)]
      inRound == {i \in Ordinary(log) \cap On(log, h) : log[i].round = a.round}
      same == {i \in inRound : log[i].led = a.led}
      bounds == OfKind(log, inRound, {"headreview"})
      since == {i \in same : \A b \in bounds : b <= i}
      coders == OfKind(log, since, {"coder"})
  IN  {i \in since : \A c \in coders : c <= i}

HandoffIsLive(log, i) ==
  IF log[i].kind = "headreview"
  THEN \A j \in On(log, log[i].head) : j > i =>
         /\ log[j].kind \notin {"coder", "review"}
         /\ ~(log[j].kind = "reconciliation" /\ log[j].round = log[i].round)
  ELSE \A j \in DOMAIN log : j > i => log[j].kind \notin {"coder", "review", "headreview"}

(* _live_recovery_handoff: a first dispatch on the head it started from is *)
(* left to ordinary resume.                                                *)
LiveHandoffs(log, h, moved) ==
  {i \in OfKind(log, On(log, h), {"dispatch", "rejected", "headreview"}) :
     HandoffIsLive(log, i) /\ (moved \/ ~(log[i].kind = "dispatch" /\ log[i].attempt = 1))}

(* What a restarted run begins from.                                       *)
Fresh == [how |-> "fresh", round |-> 1, led |-> EmptyLedger, ck |-> {}, budget |-> {},
          advance |-> FALSE, attempt |-> 0, post |-> FALSE, reviews |-> {}, closed |-> {},
          reconciled |-> FALSE, external |-> FALSE]
Refused == [Fresh EXCEPT !.how = "refused"]
Resumed(n, L) == [Fresh EXCEPT !.how = "resumed", !.round = n, !.led = L]

ConsumeHandoff(log, i, moved) ==
  LET r == log[i]
      n == IF r.kind = "dispatch" THEN r.round - 1 ELSE r.round   \* dispatch_round
  IN  CASE r.kind = "headreview" ->
             IF ~Active(r.led) THEN Fresh
             ELSE [Resumed(n, r.led) EXCEPT !.budget = r.budget, !.post = moved]
        [] r.kind # "headreview" /\ r.attempt >= MaxAttempts -> Refused
        [] r.kind # "headreview" /\ r.attempt < MaxAttempts ->
             IF ~Active(r.led) THEN Fresh
             ELSE [Resumed(n, r.led) EXCEPT !.budget = r.budget, !.advance = TRUE,
                                            !.attempt = r.attempt]

(* _recover_unrecorded_pr_head_advance, for a head without ordinary        *)
(* records: the handoff of the latest other head, else its round settled   *)
(* by the reviews it had, else its checkpoint.                             *)
RecoverRound(log, h) ==
  LET S == CurrentRound(log, h)
      coders == OfKind(log, S, {"coder"})
      reviews == OfKind(log, S, {"review"})
      a == log[Anchor(log, h)]
      L == Settle(Selective, a.led, TallyOf(log, S))
  IN  CASE coders \cup reviews # {} ->
             IF ~Active(L) THEN Fresh
             ELSE [Resumed(a.round, L) EXCEPT !.advance = TRUE,
                     !.external = \E c \in coders : log[c].external]
        [] coders \cup reviews = {} /\ a.kind = "checkpoint" ->
             IF ~Active(a.led) THEN Fresh
             ELSE [Resumed(a.round, a.led) EXCEPT !.post = TRUE,
                     !.budget = {c.budget : c \in a.ck}]
        [] coders \cup reviews = {} /\ a.kind # "checkpoint" -> Refused

RecoverHeadAdvance(log, h) ==
  LET walk == DOMAIN log \ On(log, h)
      prior == Ordinary(log) \ On(log, h)
      live == IF walk = {} THEN {} ELSE LiveHandoffs(log, log[Latest(walk)].head, TRUE)
  IN  CASE live # {} -> ConsumeHandoff(log, Latest(live), TRUE)
        [] live = {} /\ prior = {} -> Fresh
        [] live = {} /\ prior # {} -> RecoverRound(log, log[Latest(prior)].head)

(* The latest checkpoint bound to the head, unless a head review followed. *)
HeadCheckpoints(log, h) ==
  {i \in Ordinary(log) \cap On(log, h) : log[i].ck # {}
     /\ \A j \in OfKind(log, On(log, h), {"headreview"}) : j < i}
HeadCheckpoint(log, h) ==
  LET S == HeadCheckpoints(log, h) IN IF S = {} THEN {} ELSE log[Latest(S)].ck

(* The budget of the latest head review of the head, also after a review    *)
(* has retired it.                                                         *)
HeadReviewBudget(log, h) ==
  LET S == OfKind(log, On(log, h), {"headreview"})
  IN  IF S = {} THEN {} ELSE log[Latest(S)].budget

Reconciles(log, S) == OfKind(log, S, {"checkpoint", "reconciliation"}) # {}

ResumeRound(log, h) ==
  LET S == {i \in CurrentRound(log, h) :
              \A b \in OfKind(log, On(log, h), {"headreview"}) : b <= i}
      a == log[Anchor(log, h)]
      coders == OfKind(log, S, {"coder"})
      closing == OfKind(log, S, {"reconciliation"})
      started == OfKind(log, S, {"coder", "review"}) # {}
                   \/ (a.kind = "prelaunch" /\ a.round > 1)
      C == HeadCheckpoints(log, h)
      ck == HeadCheckpoint(log, h)
      budget == HeadReviewBudget(log, h)
  IN  CASE started ->
             [Resumed(a.round, a.led) EXCEPT !.ck = ck, !.budget = budget,
                !.reviews = OfKind(log, S, {"review"}),
                !.closed = IF closing = {} THEN {} ELSE {log[Latest(closing)]},
                !.reconciled = Reconciles(log, S),
                !.external = \E c \in coders : log[c].external]
        [] ~started /\ C = {} -> Fresh
        [] ~started /\ C # {} ->
             [Resumed(log[Latest(C)].round, log[Latest(C)].led) EXCEPT !.ck = ck,
                !.budget = budget, !.reconciled = log[Latest(C)].kind = "checkpoint"]

(* _resume_pr_round_from_records *)
Resume(log, h) ==
  LET live == LiveHandoffs(log, h, FALSE)
  IN  CASE live # {} -> ConsumeHandoff(log, Latest(live), FALSE)
        [] live = {} /\ Ordinary(log) \cap On(log, h) # {} -> ResumeRound(log, h)
        [] live = {} /\ Ordinary(log) \cap On(log, h) = {} -> RecoverHeadAdvance(log, h)
=============================================================================
