---------------------------- MODULE PrLoopProofs ----------------------------
(***************************************************************************)
(* Proofs about the pull-request loop, for any reviewers, heads, policy,   *)
(* bounds and failures.  First the ledger operations and resuming from the *)
(* round records; then the inductive invariant and the budget of rounds.   *)
(* Then the CI obligation: past the settlement of a round it is bound to   *)
(* the candidate head under work, checks that have passed stay passed, and *)
(* so what is merged has passed as a head of its own.  Last the approvals: *)
(* no secondary is asked before the panel is opened, and, under the        *)
(* scheduled policies, a merged commit was approved as exactly that commit *)
(* by every reviewer, whose last reviews have surfaced the signed          *)
(* requirements known at the commitment.                                   *)
(***************************************************************************)
EXTENDS PrLoop, TLAPS, WellFoundedInduction

-----------------------------------------------------------------------------
(* The ledger operations and resuming from the round records *)

(* A nonempty set of positions has a latest one.                           *)
LEMMA LatestIn ==
  ASSUME NEW n \in Nat, NEW S \in SUBSET (1 .. n), S # {}
  PROVE  Latest(S) \in S /\ \A j \in S : j <= Latest(S)
<1> DEFINE T == {n - i : i \in S}
           R == OpToRel(<, Nat)
<1>a. \A i \in S : n - i \in Nat
  OBVIOUS
<1>b. PICK k \in S : TRUE
  OBVIOUS
<1>1. T \subseteq Nat /\ n - k \in T
  BY <1>a, <1>b
<1>2. \E x \in T : \A y \in T : ~ (<<y, x>> \in R)
  <2> HIDE DEF T, R
  <2>1. IsWellFoundedOn(R, Nat)
    BY NatLessThanWellFounded DEF R
  <2> QED BY <1>1, <2>1, WFMin
<1>3. PICK x \in T : \A y \in T : ~ (<<y, x>> \in R)
  BY <1>2
<1>4. \A y \in T : ~ (y < x)
  BY <1>1, <1>3 DEF OpToRel
<1>5. PICK i \in S : x = n - i
  BY <1>3
<1>6. \A j \in S : j <= i
  <2> TAKE j \in S
  <2>1. n - j \in T
    OBVIOUS
  <2>2. ~ (n - j < n - i)
    BY <1>4, <1>5, <2>1
  <2> HIDE DEF T
  <2> QED BY <2>2
<1>7. QED
  BY <1>6 DEF Latest
-----------------------------------------------------------------------------
(* The ledger operators keep a ledger a ledger. *)

(* Settling a round yields a ledger and leaves CI and conflict alone.      *)
LEMMA SettleType ==
  ASSUME NEW L \in Ledgers, NEW votes \in Tallies, NEW b \in BOOLEAN
  PROVE  /\ Settle(b, L, votes) \in Ledgers
         /\ Settle(b, L, votes).ci = L.ci
         /\ Settle(b, L, votes).conf = L.conf
<1> DEFINE its == [i \in Reviewers |-> SettleItem(b, votes, i, L.items[i])]
<1>1. \A i \in Reviewers : SettleItem(b, votes, i, L.items[i]) \in SUBSET Reviewers
  BY DEF SettleItem, OwnerScoped, Aggregate, Voters, Blockers, Ledgers
<1>2. its \in [Reviewers -> SUBSET Reviewers]
  BY <1>1
<1> HIDE DEF its
<1>3. [L EXCEPT !.items = its] \in Ledgers
      /\ [L EXCEPT !.items = its].ci = L.ci /\ [L EXCEPT !.items = its].conf = L.conf
  BY <1>2 DEF Ledgers
<1>4. QED
  BY <1>3 DEF Settle, its

(* Upserting, clearing and requalifying the CI obligation.                 *)
LEMMA CiOpsType ==
  ASSUME NEW L \in Ledgers, NEW h \in Heads, NEW life \in Lifecycles
  PROVE  /\ UpsertCi(L, h) \in Ledgers
         /\ ClearCi(L) \in Ledgers
         /\ SetLife(L, life) \in Ledgers
  BY DEF UpsertCi, ClearCi, SetLife, HasCi, NoCi, Ledgers, CiItems, Lifecycles

(* Binding a ledger to a head gives a ledger.                              *)
LEMMA AdvanceType ==
  ASSUME NEW L \in Ledgers, NEW h \in Heads
  PROVE  AdvanceForHead(L, h) \in Ledgers
  BY DEF AdvanceForHead, Ledgers, CiItems, Lifecycles

(* Reconciling the conflict with a probe gives a ledger, and leaves the    *)
(* CI obligation alone.                                                    *)
LEMMA ConflictType ==
  ASSUME NEW L \in Ledgers, NEW live \in Heads, NEW h \in Heads,
         NEW probe \in {"conflicted", "mergeable", "unknown"}
  PROVE  /\ ReconcileConflict(L, probe, live, h) \in Ledgers
         /\ ReconcileConflict(L, probe, live, h).ci = L.ci
  BY DEF ReconcileConflict, Ledgers

(* The empty ledger, tally and vote have their types.                      *)
LEMMA EmptyLedgerType == EmptyLedger \in Ledgers /\ NoTally \in Tallies /\ NoVote \in Votes
  BY DEF EmptyLedger, Ledgers, NoCi, CiItems, Lifecycles, NoTally, Tallies, NoVote, Votes

-----------------------------------------------------------------------------
(* Reading the log *)

(* The latest position of a nonempty set of positions holds a record.      *)
LEMMA LatestRecord ==
  ASSUME NEW hist \in Seq(Records), NEW S \in SUBSET DOMAIN hist, S # {}
  PROVE  Latest(S) \in S /\ Latest(S) \in DOMAIN hist /\ hist[Latest(S)] \in Records
<1>1. DOMAIN hist = 1 .. Len(hist) /\ Len(hist) \in Nat
  OBVIOUS
<1>2. Latest(S) \in S
  BY <1>1, LatestIn
<1>3. QED
  BY <1>1, <1>2

(* A tally taken from the log is a tally.                                  *)
LEMMA TallyType ==
  ASSUME NEW hist \in Seq(Records), NEW S \in SUBSET DOMAIN hist
  PROVE  TallyOf(hist, S) \in Tallies
<1> DEFINE mine(r) == {i \in S : hist[i].kind = "review" /\ hist[i].tally[r].voted}
           vote(r) == IF mine(r) = {} THEN NoVote ELSE hist[Latest(mine(r))].tally[r]
<1>1. ASSUME NEW r \in Reviewers PROVE vote(r) \in Votes
  <2>1. CASE mine(r) = {}
    BY <2>1, EmptyLedgerType
  <2>2. CASE mine(r) # {}
    <3>1. mine(r) \in SUBSET DOMAIN hist
      OBVIOUS
    <3>2. hist[Latest(mine(r))] \in Records
      BY <2>2, <3>1, LatestRecord
    <3>3. hist[Latest(mine(r))].tally \in [Reviewers -> Votes]
      BY <3>2 DEF Records, Tallies
    <3> HIDE DEF mine
    <3> QED BY <2>2, <3>3
  <2> QED BY <2>1, <2>2
<1> HIDE DEF vote
<1>2. [r \in Reviewers |-> vote(r)] \in [Reviewers -> Votes]
  BY <1>1
<1>3. QED
  BY <1>2 DEF TallyOf, Tallies, vote
-----------------------------------------------------------------------------
(* What a restarted run begins from *)

(* A log of records, in which a dispatch announces a round after the first. *)
WellFormed(hist) ==
  /\ hist \in Seq(Records)
  /\ \A i \in DOMAIN hist : hist[i].kind = "dispatch" => hist[i].round >= 1

ResumeStates(hist) ==
  [how : {"fresh", "refused", "resumed"}, round : Nat, led : Ledgers, ck : SUBSET Checkpoints,
   budget : SUBSET Budgets, advance : BOOLEAN, attempt : 0 .. MaxAttempts - 1, post : BOOLEAN,
   reviews : SUBSET DOMAIN hist, closed : SUBSET Records, reconciled : BOOLEAN,
   external : BOOLEAN]

(* The budgets a restart carries were posted in the log.                   *)
CarriedFrom(hist, R) ==
  /\ R.ck = {} \/ \E i \in DOMAIN hist : R.ck = hist[i].ck
  /\ \/ R.budget = {}
     \/ \E i \in DOMAIN hist : R.budget = hist[i].budget
     \/ \E i \in DOMAIN hist : R.budget = {c.budget : c \in hist[i].ck}

Restart(hist, R) == R \in ResumeStates(hist) /\ CarriedFrom(hist, R)

(* A fresh start has the type of a restart and carries no budget.          *)
LEMMA FreshType ==
  ASSUME NEW hist
  PROVE  Fresh \in ResumeStates(hist) /\ Fresh.ck = {} /\ Fresh.budget = {}
  BY EmptyLedgerType DEF ResumeStates, Fresh, MaxAttempts

(* So has a resumed round.                                                 *)
LEMMA ResumedType ==
  ASSUME NEW hist, NEW n \in Nat, NEW L \in Ledgers
  PROVE  /\ Resumed(n, L) \in ResumeStates(hist)
         /\ Resumed(n, L).ck = {} /\ Resumed(n, L).budget = {}
  BY FreshType DEF ResumeStates, Resumed

(* A resumed round with what a handoff or a checkpoint carries.            *)
LEMMA CarryRestart ==
  ASSUME NEW hist, NEW n \in Nat, NEW L \in Ledgers, NEW b \in SUBSET Budgets,
         NEW p \in BOOLEAN, NEW a \in 0 .. MaxAttempts - 1,
         \/ \E i \in DOMAIN hist : b = hist[i].budget
         \/ \E i \in DOMAIN hist : b = {c.budget : c \in hist[i].ck}
  PROVE  /\ Restart(hist, [Resumed(n, L) EXCEPT !.budget = b, !.post = p])
         /\ Restart(hist, [Resumed(n, L) EXCEPT !.post = p, !.budget = b])
         /\ Restart(hist, [Resumed(n, L) EXCEPT !.budget = b, !.advance = p, !.attempt = a])
<1> DEFINE R == Resumed(n, L)
<1>1. R \in ResumeStates(hist) /\ R.ck = {}
  BY ResumedType
<1> HIDE DEF R
<1>2. /\ [R EXCEPT !.budget = b, !.post = p] \in ResumeStates(hist)
      /\ [R EXCEPT !.budget = b, !.post = p].ck = {}
      /\ [R EXCEPT !.budget = b, !.post = p].budget = b
  BY <1>1 DEF ResumeStates
<1>3. /\ [R EXCEPT !.post = p, !.budget = b] \in ResumeStates(hist)
      /\ [R EXCEPT !.post = p, !.budget = b].ck = {}
      /\ [R EXCEPT !.post = p, !.budget = b].budget = b
  BY <1>1 DEF ResumeStates
<1>4. /\ [R EXCEPT !.budget = b, !.advance = p, !.attempt = a] \in ResumeStates(hist)
      /\ [R EXCEPT !.budget = b, !.advance = p, !.attempt = a].ck = {}
      /\ [R EXCEPT !.budget = b, !.advance = p, !.attempt = a].budget = b
  BY <1>1 DEF ResumeStates
<1>5. QED
  BY <1>2, <1>3, <1>4, Zenon DEF Restart, CarriedFrom, R

(* A fresh start and a refusal are restarts.                               *)
LEMMA FreshRestart ==
  ASSUME NEW hist
  PROVE  Restart(hist, Fresh) /\ Restart(hist, Refused)
<1>1. Refused \in ResumeStates(hist) /\ Refused.ck = {} /\ Refused.budget = {}
  BY FreshType DEF ResumeStates, Refused
<1>2. QED
  BY <1>1, FreshType, Zenon DEF Restart, CarriedFrom

(* Consuming a recovery handoff gives a restart                            *)
(* (_consume_recovery_handoff), whichever of the three kinds of handoff    *)
(* it is.                                                                  *)
LEMMA ConsumeRestart ==
  ASSUME NEW hist, WellFormed(hist), NEW i \in DOMAIN hist, NEW moved \in BOOLEAN
  PROVE  Restart(hist, ConsumeHandoff(hist, i, moved))
<1> DEFINE r == hist[i]
           n == IF r.kind = "dispatch" THEN r.round - 1 ELSE r.round
<1>1. r \in Records /\ hist \in Seq(Records)
  BY DEF WellFormed
<1>2. n \in Nat
  BY <1>1 DEF WellFormed, Records
<1>3. r.led \in Ledgers /\ r.budget \in SUBSET Budgets /\ r.attempt \in 0 .. MaxAttempts
  BY <1>1 DEF Records
<1>4. \E j \in DOMAIN hist : r.budget = hist[j].budget
  OBVIOUS
<1> HIDE DEF n, r
<1>5. Restart(hist, [Resumed(n, r.led) EXCEPT !.budget = r.budget, !.post = moved])
  <2>1. 0 \in 0 .. MaxAttempts - 1
    BY DEF MaxAttempts
  <2>2. r.led \in Ledgers /\ r.budget \in SUBSET Budgets
    BY <1>3
  <2> QED BY <1>2, <2>2, <1>4, <2>1, CarryRestart
<1>6. ASSUME r.attempt < MaxAttempts
      PROVE Restart(hist, [Resumed(n, r.led) EXCEPT !.budget = r.budget, !.advance = TRUE,
                                                   !.attempt = r.attempt])
  <2>1. r.attempt \in 0 .. MaxAttempts - 1 /\ TRUE \in BOOLEAN
    BY <1>3, <1>6 DEF MaxAttempts
  <2>2. r.led \in Ledgers /\ r.budget \in SUBSET Budgets
    BY <1>3
  <2> QED BY <1>2, <2>2, <1>4, <2>1, CarryRestart
<1>7. CASE r.kind = "headreview"
  BY <1>1, <1>5, <1>7, FreshRestart DEF ConsumeHandoff, n, r
<1>8. CASE r.kind # "headreview" /\ r.attempt >= MaxAttempts
  BY <1>3, <1>8, FreshRestart DEF ConsumeHandoff, n, r, MaxAttempts
<1>9. CASE r.kind # "headreview" /\ r.attempt < MaxAttempts
  BY <1>1, <1>6, <1>9, FreshRestart, <1>3 DEF ConsumeHandoff, n, r, MaxAttempts
<1>10. QED
  BY <1>7, <1>8, <1>9, <1>3 DEF MaxAttempts

(* The records of the current round are records of the log.                *)
LEMMA CurrentRoundIn ==
  ASSUME NEW hist \in Seq(Records), NEW h
  PROVE  CurrentRound(hist, h) \in SUBSET DOMAIN hist
  BY DEF CurrentRound, Ordinary, Read, On

(* A head with ordinary records has a latest one.                          *)
LEMMA AnchorIn ==
  ASSUME NEW hist \in Seq(Records), NEW h, Ordinary(hist) \cap On(hist, h) # {}
  PROVE  Anchor(hist, h) \in DOMAIN hist /\ hist[Anchor(hist, h)] \in Records
<1>1. Ordinary(hist) \cap On(hist, h) \in SUBSET DOMAIN hist
  BY DEF Ordinary, Read, On
<1>2. QED
  BY <1>1, LatestRecord DEF Anchor

(* Recovering the round of another head gives a restart.                   *)
LEMMA RecoverRoundRestart ==
  ASSUME NEW hist, WellFormed(hist), NEW h, Ordinary(hist) \cap On(hist, h) # {}
  PROVE  Restart(hist, RecoverRound(hist, h))
<1> DEFINE S == CurrentRound(hist, h)
           coders == OfKind(hist, S, {"coder"})
           reviews == OfKind(hist, S, {"review"})
           k == Anchor(hist, h)
           L == Settle(Selective, hist[k].led, TallyOf(hist, S))
           e == \E c \in coders : hist[c].external
           B == {c.budget : c \in hist[k].ck}
<1>1. hist \in Seq(Records)
  BY DEF WellFormed
<1>2. k \in DOMAIN hist /\ hist[k] \in Records
  BY <1>1, AnchorIn
<1>3. TallyOf(hist, S) \in Tallies
  BY <1>1, CurrentRoundIn, TallyType
<1>4. hist[k].led \in Ledgers /\ hist[k].round \in Nat /\ hist[k].ck \in SUBSET Checkpoints
  BY <1>2 DEF Records
<1>5. L \in Ledgers
  BY <1>3, <1>4, SettleType DEF Selective
<1>6. B \in SUBSET Budgets
  BY <1>4 DEF Checkpoints
<1>7. e \in BOOLEAN
  OBVIOUS
<1> HIDE DEF S, k, L, e, B, coders, reviews
<1>8. Restart(hist, [Resumed(hist[k].round, L) EXCEPT !.advance = TRUE, !.external = e])
  <2> DEFINE R == Resumed(hist[k].round, L)
  <2>1. R \in ResumeStates(hist) /\ R.ck = {} /\ R.budget = {}
    BY <1>4, <1>5, ResumedType
  <2> HIDE DEF R
  <2>2. /\ [R EXCEPT !.advance = TRUE, !.external = e] \in ResumeStates(hist)
        /\ [R EXCEPT !.advance = TRUE, !.external = e].ck = {}
        /\ [R EXCEPT !.advance = TRUE, !.external = e].budget = {}
    BY <2>1, <1>7 DEF ResumeStates
  <2> QED BY <2>2, Zenon DEF Restart, CarriedFrom, R
<1>9. \E i \in DOMAIN hist : B = {c.budget : c \in hist[i].ck}
  BY <1>2 DEF B
<1>10. Restart(hist, [Resumed(hist[k].round, hist[k].led) EXCEPT !.post = TRUE, !.budget = B])
  <2>1. 0 \in 0 .. MaxAttempts - 1
    BY DEF MaxAttempts
  <2> QED BY <1>4, <1>6, <1>9, <2>1, CarryRestart
<1>11. CASE coders \cup reviews # {}
  BY <1>1, <1>8, <1>11, FreshRestart DEF RecoverRound, S, k, L, e, coders, reviews
<1>12. CASE coders \cup reviews = {} /\ hist[k].kind = "checkpoint"
  BY <1>1, <1>10, <1>12, FreshRestart DEF RecoverRound, S, k, B, coders, reviews
<1>13. CASE coders \cup reviews = {} /\ hist[k].kind # "checkpoint"
  BY <1>1, <1>13, FreshRestart DEF RecoverRound, S, k, coders, reviews
<1>14. QED
  BY <1>11, <1>12, <1>13

(* The walk over the records of other heads.                               *)
LEMMA RecoverHeadAdvanceRestart ==
  ASSUME NEW hist, WellFormed(hist), NEW h
  PROVE  Restart(hist, RecoverHeadAdvance(hist, h))
<1> DEFINE walk == DOMAIN hist \ On(hist, h)
           prior == Ordinary(hist) \ On(hist, h)
           w == hist[Latest(walk)].head
           live == IF walk = {} THEN {} ELSE LiveHandoffs(hist, w, TRUE)
           p == hist[Latest(prior)].head
<1>1. hist \in Seq(Records)
  BY DEF WellFormed
<1>2. CASE live # {}
  <2>1. live \in SUBSET DOMAIN hist
    BY DEF LiveHandoffs, OfKind, On
  <2>2. Latest(live) \in DOMAIN hist
    BY <1>1, <1>2, <2>1, LatestRecord
  <2>3. Restart(hist, ConsumeHandoff(hist, Latest(live), TRUE))
    BY <2>2, ConsumeRestart
  <2> HIDE DEF live
  <2> QED BY <1>2, <2>3, Zenon DEF RecoverHeadAdvance, live
<1>3. CASE live = {} /\ prior = {}
  BY <1>3, FreshRestart DEF RecoverHeadAdvance
<1>4. CASE live = {} /\ prior # {}
  <2>1. prior \in SUBSET DOMAIN hist
    BY DEF Ordinary, Read
  <2>2. Latest(prior) \in prior
    BY <1>1, <1>4, <2>1, LatestRecord
  <2>3. Ordinary(hist) \cap On(hist, p) # {}
    BY <2>1, <2>2 DEF On
  <2>4. Restart(hist, RecoverRound(hist, p))
    BY <2>3, RecoverRoundRestart
  <2> QED BY <1>4, <2>4 DEF RecoverHeadAdvance
<1>5. QED
  BY <1>2, <1>3, <1>4

(* The checkpoint of a head was posted in the log.                         *)
LEMMA HeadCheckpointIn ==
  ASSUME NEW hist \in Seq(Records), NEW h
  PROVE  /\ HeadCheckpoint(hist, h) \in SUBSET Checkpoints
         /\ HeadCheckpoint(hist, h) = {} \/ \E i \in DOMAIN hist : HeadCheckpoint(hist, h) = hist[i].ck
         /\ HeadCheckpoints(hist, h) \in SUBSET DOMAIN hist
<1> DEFINE S == HeadCheckpoints(hist, h)
<1>1. S \in SUBSET DOMAIN hist
  BY DEF HeadCheckpoints, Ordinary, Read
<1>2. CASE S = {}
  BY <1>1, <1>2 DEF HeadCheckpoint
<1>3. CASE S # {}
  <2>1. Latest(S) \in DOMAIN hist /\ hist[Latest(S)] \in Records
    BY <1>1, <1>3, LatestRecord
  <2>2. hist[Latest(S)].ck \in SUBSET Checkpoints
    BY <2>1 DEF Records
  <2> QED BY <1>1, <1>3, <2>1, <2>2 DEF HeadCheckpoint
<1>4. QED
  BY <1>2, <1>3

(* The budget of a head review of a head was posted in the log.            *)
LEMMA HeadReviewBudgetIn ==
  ASSUME NEW hist \in Seq(Records), NEW h
  PROVE  /\ HeadReviewBudget(hist, h) \in SUBSET Budgets
         /\ \/ HeadReviewBudget(hist, h) = {}
            \/ \E i \in DOMAIN hist : HeadReviewBudget(hist, h) = hist[i].budget
<1> DEFINE S == OfKind(hist, On(hist, h), {"headreview"})
<1>1. S \in SUBSET DOMAIN hist
  BY DEF OfKind, On
<1>2. CASE S = {}
  BY <1>2 DEF HeadReviewBudget
<1>3. CASE S # {}
  <2>1. Latest(S) \in DOMAIN hist /\ hist[Latest(S)] \in Records
    BY <1>1, <1>3, LatestRecord
  <2>2. hist[Latest(S)].budget \in SUBSET Budgets
    BY <2>1 DEF Records
  <2> QED BY <1>3, <2>1, <2>2 DEF HeadReviewBudget
<1>4. QED
  BY <1>2, <1>3

(* Ordinary resume of a head that has records; it restores the budget of   *)
(* the head's latest head review, retired or not.                          *)
LEMMA ResumeRoundRestart ==
  ASSUME NEW hist, WellFormed(hist), NEW h, Ordinary(hist) \cap On(hist, h) # {}
  PROVE  /\ Restart(hist, ResumeRound(hist, h))
         /\ ResumeRound(hist, h).how = "resumed"
              => ResumeRound(hist, h).budget = HeadReviewBudget(hist, h)
<1> DEFINE S == {i \in CurrentRound(hist, h) :
                   \A b \in OfKind(hist, On(hist, h), {"headreview"}) : b <= i}
           k == Anchor(hist, h)
           coders == OfKind(hist, S, {"coder"})
           closing == OfKind(hist, S, {"reconciliation"})
           started == OfKind(hist, S, {"coder", "review"}) # {}
                        \/ (hist[k].kind = "prelaunch" /\ hist[k].round > 1)
           C == HeadCheckpoints(hist, h)
           ck == HeadCheckpoint(hist, h)
           revs == OfKind(hist, S, {"review"})
           cl == IF closing = {} THEN {} ELSE {hist[Latest(closing)]}
           e == \E c \in coders : hist[c].external
           rec == Reconciles(hist, S)
           latest == hist[Latest(C)].kind = "checkpoint"
           B == HeadReviewBudget(hist, h)
<1>1. hist \in Seq(Records)
  BY DEF WellFormed
<1>2. hist[k] \in Records
  BY <1>1, AnchorIn
<1>3. hist[k].led \in Ledgers /\ hist[k].round \in Nat
  BY <1>2 DEF Records
<1>4. S \in SUBSET DOMAIN hist
  BY <1>1, CurrentRoundIn
<1>5. revs \in SUBSET DOMAIN hist
  BY <1>4 DEF OfKind
<1>6. cl \in SUBSET Records
  <2>1. closing \in SUBSET DOMAIN hist
    BY <1>4 DEF OfKind
  <2>2. CASE closing # {}
    <3>1. hist[Latest(closing)] \in Records
      BY <1>1, <2>1, <2>2, LatestRecord
    <3> QED BY <2>2, <3>1
  <2> QED BY <2>2
<1>7. e \in BOOLEAN /\ rec \in BOOLEAN /\ latest \in BOOLEAN
  BY DEF Reconciles
<1>8. /\ ck \in SUBSET Checkpoints
      /\ ck = {} \/ \E i \in DOMAIN hist : ck = hist[i].ck
      /\ C \in SUBSET DOMAIN hist
  BY <1>1, HeadCheckpointIn
<1>8a. B \in SUBSET Budgets /\ (B = {} \/ \E i \in DOMAIN hist : B = hist[i].budget)
  BY <1>1, HeadReviewBudgetIn
<1>9. CASE started
  <2> DEFINE R == Resumed(hist[k].round, hist[k].led)
             Q == [R EXCEPT !.ck = ck, !.budget = B, !.reviews = revs, !.closed = cl,
                            !.reconciled = rec, !.external = e]
  <2>1. R \in ResumeStates(hist) /\ R.ck = {} /\ R.budget = {}
    BY <1>3, ResumedType
  <2>2. Q = ResumeRound(hist, h)
    <3> HIDE DEF k, ck, B
    <3> QED BY <1>9 DEF ResumeRound, k, ck, B
  <2> HIDE DEF R, S, k, ck, revs, cl, rec, e, B
  <2>3. Q \in ResumeStates(hist) /\ Q.ck = ck /\ Q.budget = B
    BY <2>1, <1>5, <1>6, <1>7, <1>8, <1>8a DEF ResumeStates
  <2> HIDE DEF Q
  <2>4. Restart(hist, Q) /\ Q.budget = B
    BY <1>8, <1>8a, <2>3, Zenon DEF Restart, CarriedFrom
  <2> QED BY <2>2, <2>4 DEF B
<1>10. CASE ~started /\ C = {}
  <2>1. ResumeRound(hist, h) = Fresh
    BY <1>10 DEF ResumeRound
  <2>2. Fresh.how # "resumed"
    BY DEF Fresh
  <2>3. Restart(hist, Fresh)
    BY FreshRestart
  <2> HIDE DEF S, k, coders, closing, started, C, ck, revs, cl, e, rec, latest, B
  <2> QED BY <2>1, <2>2, <2>3, Zenon
<1>11. CASE ~started /\ C # {}
  <2> DEFINE R == Resumed(hist[Latest(C)].round, hist[Latest(C)].led)
             Q == [R EXCEPT !.ck = ck, !.budget = B, !.reconciled = latest]
  <2>1. hist[Latest(C)] \in Records
    BY <1>1, <1>8, <1>11, LatestRecord
  <2>2. hist[Latest(C)].led \in Ledgers /\ hist[Latest(C)].round \in Nat
    BY <2>1 DEF Records
  <2>3. R \in ResumeStates(hist) /\ R.ck = {} /\ R.budget = {}
    BY <2>2, ResumedType
  <2>4. Q = ResumeRound(hist, h)
    BY <1>11 DEF ResumeRound
  <2> HIDE DEF R, C, ck, latest, B
  <2>5. Q \in ResumeStates(hist) /\ Q.ck = ck /\ Q.budget = B
    BY <2>3, <1>7, <1>8, <1>8a DEF ResumeStates
  <2> HIDE DEF Q
  <2>6. Restart(hist, Q) /\ Q.budget = B
    BY <1>8, <1>8a, <2>5, Zenon DEF Restart, CarriedFrom
  <2> QED BY <2>4, <2>6 DEF B
<1>12. QED
  BY <1>9, <1>10, <1>11

(* A head review that is consumed hands over its budget.                   *)
LEMMA ConsumedBudget ==
  ASSUME NEW hist, WellFormed(hist), NEW i \in DOMAIN hist, hist[i].kind = "headreview",
         ConsumeHandoff(hist, i, FALSE).how = "resumed"
  PROVE  ConsumeHandoff(hist, i, FALSE).budget = hist[i].budget
<1> DEFINE n == hist[i].round
           L == hist[i].led
           b == hist[i].budget
           Q == [Resumed(n, L) EXCEPT !.budget = b, !.post = FALSE]
<1>1. hist[i] \in Records
  BY DEF WellFormed
<1>2. n \in Nat /\ L \in Ledgers /\ b \in SUBSET Budgets
  BY <1>1 DEF Records
<1>3. ConsumeHandoff(hist, i, FALSE) = Q
  BY DEF ConsumeHandoff, Fresh
<1> HIDE DEF n, L, b
<1>4. Resumed(n, L) \in ResumeStates(hist)
  BY <1>2, ResumedType
<1>5. Q.budget = b
  BY <1>4 DEF ResumeStates
<1> HIDE DEF Q
<1> QED BY <1>3, <1>5 DEF b

(* The budget of the latest head review of h is restored by whatever run   *)
(* resumes a round on h, unless another handoff of h is to be consumed: it  *)
(* does not matter whether a review has retired that head review since.    *)
HeadReviewRestored(hist, h, R) ==
  LET S == OfKind(hist, On(hist, h), {"headreview"})
  IN  S # {} /\ LiveHandoffs(hist, h, FALSE) \subseteq {Latest(S)} /\ R.how = "resumed"
        => R.budget = hist[Latest(S)].budget

(* Whatever the records are, a restarted run begins from well-typed values *)
(* and from budgets that were posted, that of the latest head review of    *)
(* its head before any other (_resume_pr_round_from_records).              *)
THEOREM ResumeRestart ==
  ASSUME NEW hist, WellFormed(hist), NEW h
  PROVE  Restart(hist, Resume(hist, h)) /\ HeadReviewRestored(hist, h, Resume(hist, h))
<1> DEFINE live == LiveHandoffs(hist, h, FALSE)
           S == OfKind(hist, On(hist, h), {"headreview"})
<1>1. hist \in Seq(Records)
  BY DEF WellFormed
<1>2. CASE live # {}
  <2>1. live \in SUBSET DOMAIN hist
    BY DEF LiveHandoffs, OfKind, On
  <2>2. Latest(live) \in DOMAIN hist /\ Latest(live) \in live
    BY <1>1, <1>2, <2>1, LatestRecord
  <2>3. Restart(hist, ConsumeHandoff(hist, Latest(live), FALSE))
    BY <2>2, ConsumeRestart
  <2>4. Resume(hist, h) = ConsumeHandoff(hist, Latest(live), FALSE)
    BY <1>2 DEF Resume
  <2>5. ASSUME S # {}, live \subseteq {Latest(S)}, Resume(hist, h).how = "resumed"
        PROVE  Resume(hist, h).budget = hist[Latest(S)].budget
    <3>1. Latest(live) = Latest(S)
      BY <2>2, <2>5
    <3>2. S \in SUBSET DOMAIN hist
      BY DEF OfKind, On
    <3>3. Latest(S) \in S
      BY <1>1, <2>5, <3>2, LatestRecord
    <3>4. hist[Latest(S)].kind = "headreview"
      BY <3>3 DEF OfKind
    <3> HIDE DEF S, live
    <3> QED BY <2>2, <2>4, <2>5, <3>1, <3>4, ConsumedBudget
  <2> QED BY <2>3, <2>4, <2>5 DEF HeadReviewRestored
<1>3. CASE live = {} /\ Ordinary(hist) \cap On(hist, h) # {}
  <2>1. /\ Restart(hist, ResumeRound(hist, h))
        /\ ResumeRound(hist, h).how = "resumed"
             => ResumeRound(hist, h).budget = HeadReviewBudget(hist, h)
    BY <1>3, ResumeRoundRestart
  <2>2. Resume(hist, h) = ResumeRound(hist, h)
    BY <1>3 DEF Resume
  <2> QED BY <2>1, <2>2 DEF HeadReviewRestored, HeadReviewBudget
<1>4. CASE live = {} /\ Ordinary(hist) \cap On(hist, h) = {}
  <2>1. Restart(hist, RecoverHeadAdvance(hist, h))
    BY RecoverHeadAdvanceRestart
  <2>2. S = {}
    BY <1>4 DEF OfKind, On, Ordinary, Read, Inert
  <2> QED BY <1>4, <2>1, <2>2 DEF Resume, HeadReviewRestored
<1>5. QED
  BY <1>2, <1>3, <1>4

-----------------------------------------------------------------------------
(* The inductive invariant *)

RecordWithinBudget(r) ==
  /\ \A b \in r.budget \cup {c.budget : c \in r.ck} : SoundBudget(b)
  /\ r.kind \in {"review", "dispatch", "coder"} => r.round <= MaxRounds + 2

GoodRecords ==
  {r \in Records : (r.kind = "dispatch" => r.round >= 1) /\ RecordWithinBudget(r)}

WorldOK ==
  /\ head \in Heads
  /\ ci \in [Heads -> {"pending", "passing", "failing", "plumbing"}]
  /\ clash \subseteq Heads
  /\ reqs \in 0 .. MaxReqs
  /\ merged \subseteq Heads
  /\ pushes \in Nat

LogOK == log \in Seq(GoodRecords)

(* A coder works only while a further round is allowed: its dispatch and   *)
(* its follow-up are recorded in that round.                               *)
RunOK ==
  /\ runs \in Nat
  /\ pc \in PCs
  /\ seen \in Heads \cup {NoHead}
  /\ pc # "off" => seen \in Heads
  /\ known \in 0 .. MaxReqs
  /\ run \in RunStates
  /\ SoundBudget(run.budget)
  /\ pc \notin {"off", "handoff", "round"} => run.round <= run.budget.allowed
  /\ pc \in {"dispatch", "coding", "coded"} => run.round + 1 <= run.budget.allowed

IInv == WorldOK /\ LogOK /\ RunOK

-----------------------------------------------------------------------------
(* Lemmas *)

(* A sound budget allows at most the two extra rounds.                     *)
LEMMA SoundBound ==
  ASSUME NEW b \in Budgets, SoundBudget(b)
  PROVE  b.allowed <= MaxRounds + 2
  BY MaxRoundsAssumption DEF SoundBudget, Extensions, Budgets

(* A run starts with a sound budget.                                       *)
LEMMA FullBudgetSound == FullBudget \in Budgets /\ SoundBudget(FullBudget)
  BY MaxRoundsAssumption DEF FullBudget, Budgets, SoundBudget, Extensions

(* The state of a fresh round has its type.                                *)
LEMMA FreshRound == NotResumed \in Resumptions /\ NoTurns \in RoundStates
<1>1. NoTally \in Tallies
  BY EmptyLedgerType
<1>2. QED
  BY <1>1 DEF NotResumed, Resumptions, NoTurns, RoundStates, MaxAttempts

(* So has a run that has not started, and its budget is sound.             *)
LEMMA IdleOK == Idle \in RunStates /\ SoundBudget(Idle.budget)
<1>1. Idle.budget = FullBudget
  BY DEF Idle
<1>2. NoTally \in Tallies /\ EmptyLedger \in Ledgers /\ FullBudget \in Budgets
  BY EmptyLedgerType, FullBudgetSound
<1>3. WatchBudget \in 0 .. WatchBudget
  BY BoundsAssumption
<1>4. Idle \in RunStates
  BY <1>2, <1>3, FreshRound DEF Idle, RunStates
<1>5. QED
  BY <1>1, <1>4, FullBudgetSound

(* A plain record is a record with the given kind and round, and without   *)
(* budgets.                                                                *)
LEMMA RecordType ==
  ASSUME NEW kind \in Kinds, NEW h \in Heads, NEW n \in Nat, NEW L \in Ledgers
  PROVE  /\ Record(kind, h, n, L) \in Records
         /\ Record(kind, h, n, L).kind = kind
         /\ Record(kind, h, n, L).round = n
         /\ Record(kind, h, n, L).budget = {}
         /\ Record(kind, h, n, L).ck = {}
<1>1. NoTally \in Tallies /\ 0 \in 0 .. MaxReqs /\ 0 \in 0 .. MaxAttempts
  BY EmptyLedgerType, MaxReqsAssumption DEF MaxAttempts
<1>2. QED
  BY <1>1 DEF Record, Records

(* Posting a good record keeps the log good.                               *)
LEMMA PostGood ==
  ASSUME LogOK, NEW r \in GoodRecords, Post(r)
  PROVE  LogOK'
  BY DEF LogOK, Post

(* A good log is well-formed, so that ResumeRestart applies to it.         *)
LEMMA WellFormedLog ==
  ASSUME LogOK
  PROVE  WellFormed(log) /\ log \in Seq(Records)
<1>1. \A i \in DOMAIN log : log[i] \in GoodRecords
  BY DEF LogOK
<1>2. log \in Seq(Records)
  BY DEF LogOK, GoodRecords
<1>3. QED
  BY <1>1, <1>2 DEF WellFormed, GoodRecords

(* A checkpoint built from a sound budget carries a sound budget.          *)
LEMMA CheckpointOK ==
  ASSUME NEW L \in Ledgers, NEW life \in Lifecycles, NEW b \in Budgets, SoundBudget(b),
         NEW k \in -1 .. MaxReqs, NEW A \in SUBSET Reviewers
  PROVE  /\ Checkpoint(L, life, b, k, A) \in SUBSET Checkpoints
         /\ \A c \in Checkpoint(L, life, b, k, A) : SoundBudget(c.budget)
<1>1. L.ci.failed \in Heads \cup {NoHead} /\ L.ci.cand \in Heads \cup {NoHead}
  BY DEF Ledgers, CiItems
<1>2. "repair" \in Lifecycles
  BY DEF Lifecycles
<1>3. QED
  BY <1>1, <1>2 DEF Checkpoint, Checkpoints

(* Posting it, when there is one, keeps the log good.                      *)
LEMMA PostCheckpointOK ==
  ASSUME LogOK, NEW h \in Heads, NEW n \in Nat, NEW L \in Ledgers,
         NEW cks \in SUBSET Checkpoints, \A c \in cks : SoundBudget(c.budget),
         PostCheckpoint(h, n, L, cks)
  PROVE  LogOK'
<1>1. CASE cks = {}
  BY <1>1 DEF PostCheckpoint, LogOK
<1>2. CASE cks # {}
  <2> DEFINE R == Record("checkpoint", h, n, L)
             Q == [R EXCEPT !.ck = cks]
  <2>1. R \in Records /\ R.kind = "checkpoint" /\ R.budget = {}
    <3>1. "checkpoint" \in Kinds
      BY DEF Kinds
    <3> QED BY <3>1, RecordType
  <2>2. Post(Q)
    BY <1>2 DEF PostCheckpoint
  <2> HIDE DEF R
  <2>3. Q \in Records /\ Q.ck = cks /\ Q.budget = {} /\ Q.kind = "checkpoint"
    BY <2>1 DEF Records
  <2> HIDE DEF Q
  <2>4. Q \in GoodRecords
    BY <2>3 DEF GoodRecords, RecordWithinBudget
  <2> QED BY <2>2, <2>4, PostGood
<1>3. QED
  BY <1>1, <1>2

(* The next round keeps the budget.                                        *)
LEMMA NextRoundType ==
  ASSUME NEW r \in RunStates
  PROVE  NextRound(r) \in RunStates /\ NextRound(r).budget = r.budget
<1> DEFINE n == r.round + 1
<1>1. n \in Nat
  BY DEF RunStates
<1>2. NextRound(r) = [r EXCEPT !.round = n, !.res = NotResumed, !.now = NoTurns]
  BY DEF NextRound
<1> HIDE DEF n
<1>3. QED
  BY <1>1, <1>2, FreshRound DEF RunStates

(* A run may stop in any state.                                            *)
LEMMA HaltOK ==
  ASSUME WorldOK, RunOK, Halt
  PROVE  WorldOK' /\ RunOK'
<1>1. WorldOK'
  BY DEF WorldOK, Halt, github
<1>2. RunOK'
  BY IdleOK, MaxReqsAssumption DEF RunOK, Halt, PCs
<1>3. QED
  BY <1>1, <1>2

(* The invariant holds initially.                                          *)
LEMMA InitOK == Init => IInv
<1> SUFFICES ASSUME Init PROVE IInv
  OBVIOUS
<1>1. WorldOK
  BY FirstHeadAssumption, MaxReqsAssumption DEF Init, WorldOK
<1>2. LogOK
  BY DEF Init, LogOK
<1>3. RunOK
  BY IdleOK, MaxReqsAssumption DEF Init, RunOK, PCs
<1>4. QED
  BY <1>1, <1>2, <1>3 DEF IInv

-----------------------------------------------------------------------------
(* Frames: how a step may change the run *)

(* A step that leaves the pull request alone keeps its part of the         *)
(* invariant.                                                              *)
LEMMA WorldSame ==
  ASSUME WorldOK, UNCHANGED github
  PROVE  WorldOK'
  BY DEF WorldOK, github

(* A step that posts nothing keeps the log good.                           *)
LEMMA LogSame ==
  ASSUME LogOK, UNCHANGED log
  PROVE  LogOK'
  BY DEF LogOK

(* A step of somebody else keeps the run.                                  *)
LEMMA RunSame ==
  ASSUME RunOK, UNCHANGED <<runs, pc, seen, known, run>>
  PROVE  RunOK'
  BY DEF RunOK

(* A step inside a round may replace the budget by a larger sound one.     *)
LEMMA RoundGoesOn ==
  ASSUME RunOK, UNCHANGED <<runs, seen, known>>,
         pc \notin {"off", "handoff", "round"},
         pc' \in PCs \ {"off", "dispatch", "coding", "coded"},
         run' \in RunStates, run'.round = run.round, SoundBudget(run'.budget),
         run'.budget.allowed >= run.budget.allowed
  PROVE  RunOK'
<1>1. run.round \in Nat /\ run.budget.allowed \in Nat /\ run'.budget.allowed \in Nat
  BY DEF RunOK, RunStates, Budgets
<1>2. run'.round <= run'.budget.allowed
  BY <1>1 DEF RunOK
<1>3. QED
  BY <1>2 DEF RunOK

(* A new round needs a sound budget, but is compared with it only at its   *)
(* start.                                                                  *)
LEMMA RoundOpens ==
  ASSUME WorldOK, RunOK, UNCHANGED runs, pc' = "round", seen' = head, known' = reqs,
         run' \in RunStates, SoundBudget(run'.budget)
  PROVE  RunOK'
  BY DEF WorldOK, RunOK, PCs

-----------------------------------------------------------------------------
(* The rest of the world *)

(* A push keeps the types of the pull request.                             *)
LEMMA PushOK ==
  ASSUME WorldOK, NEW h \in Heads, Push(h)
  PROVE  WorldOK'
  BY DEF WorldOK, Push

(* Stopping keeps the invariant, and so does a crash.                      *)
LEMMA StopOK ==
  ASSUME IInv, Stop
  PROVE  IInv'
  BY HaltOK, LogSame DEF IInv, Stop

(* Whatever the others do keeps the invariant.                             *)
LEMMA EnvironmentOK ==
  ASSUME IInv, Environment
  PROVE  IInv'
<1>1. CASE HumanPush
  BY <1>1, PushOK, LogSame, RunSame DEF IInv, HumanPush
<1>2. CASE PostRequirement
  <2>1. WorldOK'
    BY <1>2, MaxReqsAssumption DEF IInv, WorldOK, PostRequirement
  <2> QED BY <1>2, <2>1, LogSame, RunSame DEF IInv, PostRequirement
<1>3. CASE CiReports
  <2>1. WorldOK'
    BY <1>3, CiResultsAssumption DEF IInv, WorldOK, CiReports
  <2> QED BY <1>3, <2>1, LogSame, RunSame DEF IInv, CiReports
<1>6. CASE RerunFailed
  <2>1. WorldOK'
    BY <1>6 DEF IInv, WorldOK, RerunFailed
  <2> QED BY <1>6, <2>1, LogSame, RunSame DEF IInv, RerunFailed
<1>4. CASE BaseMoves
  <2>1. WorldOK'
    BY <1>4, ConflictingAssumption DEF IInv, WorldOK, BaseMoves
  <2> QED BY <1>4, <2>1, LogSame, RunSame DEF IInv, BaseMoves
<1>5. CASE Crash
  BY <1>5, StopOK DEF Crash
<1>7. QED
  BY <1>1, <1>2, <1>3, <1>4, <1>5, <1>6 DEF Environment

-----------------------------------------------------------------------------
(* Start *)

(* The votes reused from a resumed round are a tally.                      *)
LEMMA StillCurrentType ==
  ASSUME LogOK, NEW S \in SUBSET DOMAIN log, NEW k
  PROVE  StillCurrent(S, k) \in Tallies
<1>1. {i \in S : log[i].saw = k} \in SUBSET DOMAIN log
  OBVIOUS
<1>2. QED
  BY <1>1, WellFormedLog, TallyType DEF StillCurrent

(* What a restart carries has been posted, and what is posted is sound.    *)
LEMMA CarriedSound ==
  ASSUME LogOK, NEW R \in ResumeStates(log), CarriedFrom(log, R)
  PROVE  /\ \A c \in R.ck : c.budget \in Budgets /\ SoundBudget(c.budget)
         /\ \A b \in R.budget : b \in Budgets /\ SoundBudget(b)
<1>1. \A i \in DOMAIN log : log[i] \in GoodRecords
  BY DEF LogOK
<1>2. \A i \in DOMAIN log : /\ log[i].ck \in SUBSET Checkpoints
                            /\ \A c \in log[i].ck : SoundBudget(c.budget)
                            /\ \A b \in log[i].budget : SoundBudget(b)
  BY <1>1, Zenon DEF GoodRecords, RecordWithinBudget, Records
<1>3. R.ck \in SUBSET Checkpoints /\ R.budget \in SUBSET Budgets
  BY DEF ResumeStates
<1>4. \A c \in R.ck : SoundBudget(c.budget)
  <2>1. R.ck = {} \/ \E i \in DOMAIN log : R.ck = log[i].ck
    BY DEF CarriedFrom
  <2>2. CASE \E i \in DOMAIN log : R.ck = log[i].ck
    <3>1. PICK i \in DOMAIN log : R.ck = log[i].ck
      BY <2>2
    <3> QED BY <1>2, <3>1
  <2> QED BY <2>1, <2>2
<1>5. \A b \in R.budget : SoundBudget(b)
  <2>1. CASE \E i \in DOMAIN log : R.budget = log[i].budget
    <3>1. PICK i \in DOMAIN log : R.budget = log[i].budget
      BY <2>1
    <3> QED BY <1>2, <3>1
  <2>2. CASE \E i \in DOMAIN log : R.budget = {c.budget : c \in log[i].ck}
    <3>1. PICK i \in DOMAIN log : R.budget = {c.budget : c \in log[i].ck}
      BY <2>2
    <3> QED BY <1>2, <3>1
  <2>3. CASE R.budget = {}
    BY <2>3
  <2> QED BY <2>1, <2>2, <2>3 DEF CarriedFrom
<1>6. \A c \in Checkpoints : c.budget \in Budgets
  BY DEF Checkpoints
<1>7. QED
  BY <1>3, <1>4, <1>5, <1>6

(* A run that starts from the log has the types of a run, and a sound      *)
(* budget: its own or a posted one.                                        *)
LEMMA StartOK ==
  ASSUME IInv, Start
  PROVE  IInv'
<1> DEFINE R == Resume(log, head)
           carried == {c.budget : c \in R.ck} \cup (IF R.ck = {} THEN R.budget ELSE {})
           valid == \A b \in carried : BudgetInBounds(b)
           B == IF carried # {} /\ valid THEN CHOOSE b \in carried : TRUE ELSE FullBudget
           C == IF valid THEN R.ck ELSE {}
           sw == Selective /\ (~valid \/ R.external)
           fb == Staged /\ ~valid
           fo == StartupLatched(log) \/ (Policy = "selective-intermediate" /\ ~valid)
           D == StillCurrent(R.reviews, reqs)
           res == [on |-> R.how = "resumed", advance |-> R.advance, attempt |-> R.attempt,
                   done |-> D, closed |-> R.closed, reconciled |-> R.reconciled]
<1>1. WorldOK /\ LogOK /\ RunOK
  BY DEF IInv
<1>2. Restart(log, R)
  BY <1>1, WellFormedLog, ResumeRestart
<1>3. R \in ResumeStates(log) /\ CarriedFrom(log, R)
  BY <1>2 DEF Restart
<1>4. \A b \in carried : b \in Budgets /\ SoundBudget(b)
  BY <1>1, <1>3, CarriedSound
<1>5. run' = [Idle EXCEPT !.round = R.round, !.led = R.led, !.budget = B, !.ck = C, !.sweep = sw,
                !.fallback = fb, !.force = fo, !.res = res]
  BY Zenon DEF Start, StartFrom
<1>6. pc' \in {"handoff", "round"} /\ seen' = head /\ known' = reqs /\ runs' = runs + 1
      /\ UNCHANGED <<github, log>>
  BY Zenon DEF Start, StartFrom
<1> HIDE DEF R
<1>7. /\ R.round \in Nat /\ R.led \in Ledgers /\ R.ck \in SUBSET Checkpoints
      /\ R.advance \in BOOLEAN /\ R.attempt \in 0 .. MaxAttempts - 1
      /\ R.closed \in SUBSET Records /\ R.reconciled \in BOOLEAN /\ R.reviews \in SUBSET DOMAIN log
  BY <1>3 DEF ResumeStates
<1>8. B \in Budgets /\ SoundBudget(B)
  <2>1. CASE carried # {} /\ valid
    <3>1. B \in carried
      BY <2>1
    <3> QED BY <3>1, <1>4
  <2>2. CASE ~(carried # {} /\ valid)
    BY <2>2, FullBudgetSound
  <2> QED BY <2>1, <2>2
<1>9. D \in Tallies
  BY <1>1, <1>7, StillCurrentType
<1>10. C \in SUBSET Checkpoints
  BY <1>7
<1>11. sw \in BOOLEAN /\ fb \in BOOLEAN /\ fo \in BOOLEAN
  OBVIOUS
<1> HIDE DEF B, C, D, sw, fb, fo
<1>12. res \in Resumptions
  BY <1>7, <1>9 DEF Resumptions
<1> HIDE DEF res
<1>13. run' = [round |-> R.round, budget |-> B, led |-> R.led, ck |-> C, sweep |-> sw,
               fallback |-> fb, force |-> fo, res |-> res, now |-> NoTurns,
               polls |-> WatchBudget, rerun |-> {}, same |-> NoHead, count |-> 0,
               conflictFrom |-> NoHead]
  BY <1>5, Zenon DEF Idle
<1>14. run' \in RunStates /\ run'.budget = B
  BY <1>7, <1>8, <1>10, <1>11, <1>12, <1>13, FreshRound, BoundsAssumption DEF RunStates
<1>15. RunOK'
  BY <1>1, <1>6, <1>8, <1>14 DEF RunOK, WorldOK, PCs
<1>16. WorldOK' /\ LogOK'
  BY <1>1, <1>6, WorldSame, LogSame
<1>17. QED
  BY <1>15, <1>16 DEF IInv

-----------------------------------------------------------------------------
(* The start of a round *)

(* The types of the parts of a run.                                        *)
LEMMA RunTypes ==
  ASSUME RunOK
  PROVE  /\ run.round \in Nat /\ run.budget \in Budgets /\ run.led \in Ledgers
         /\ run.ck \in SUBSET Checkpoints /\ run.sweep \in BOOLEAN /\ run.fallback \in BOOLEAN
         /\ run.force \in BOOLEAN /\ run.res \in Resumptions /\ run.now \in RoundStates
  BY DEF RunOK, RunStates

(* Recording a recovered head as an ordinary review round keeps the        *)
(* invariant.                                                              *)
LEMMA PostHeadReviewOK ==
  ASSUME IInv, PostHeadReview
  PROVE  IInv'
<1> DEFINE R == Record("headreview", seen, run.round, run.led)
           b == {run.budget}
           Q == [R EXCEPT !.budget = b]
<1>1. WorldOK /\ LogOK /\ RunOK
  BY DEF IInv
<1>2. seen \in Heads /\ b \in SUBSET Budgets
  BY <1>1, RunTypes DEF RunOK, PostHeadReview
<1>3. R \in Records /\ R.kind = "headreview" /\ R.ck = {}
  <2>1. "headreview" \in Kinds
    BY DEF Kinds
  <2> QED BY <1>1, <1>2, <2>1, RecordType, RunTypes
<1>4. Post(Q)
  BY DEF PostHeadReview
<1>5. \A x \in b : SoundBudget(x)
  BY <1>1 DEF RunOK
<1> HIDE DEF R, b
<1>6. Q \in Records /\ Q.kind = "headreview" /\ Q.ck = {} /\ Q.budget = b
  BY <1>2, <1>3 DEF Records
<1> HIDE DEF Q
<1>7. Q \in GoodRecords
  BY <1>5, <1>6 DEF GoodRecords, RecordWithinBudget
<1>8. LogOK'
  BY <1>1, <1>4, <1>7, PostGood
<1>9. WorldOK' /\ RunOK'
  BY <1>1, WorldSame DEF RunOK, PostHeadReview, PCs
<1>10. QED
  BY <1>8, <1>9 DEF IInv

(* What GitHub may answer about the merge conflict.                        *)
LEMMA ProbeType == Probe \subseteq {"conflicted", "mergeable", "unknown"}
  BY DEF Probe

(* The values a round start derives have their types.                      *)
LEMMA PlanOK ==
  ASSUME WorldOK, LogOK, RunOK, seen \in Heads, NEW probe \in Probe, NEW narrow \in BOOLEAN
  PROVE  /\ Plan(probe, narrow).led \in Ledgers
         /\ Plan(probe, narrow).appr \in SUBSET Reviewers
         /\ Plan(probe, narrow).cks \in SUBSET run.ck
         /\ Plan(probe, narrow).ext \in BOOLEAN
         /\ Plan(probe, narrow).skip \in BOOLEAN
         /\ Plan(probe, narrow).fallback \in BOOLEAN
         /\ Plan(probe, narrow).latch \in BOOLEAN
         /\ Plan(probe, narrow).turns \in SUBSET Reviewers
         /\ Plan(probe, narrow).stale \in BOOLEAN
<1> DEFINE A == AdvanceForHead(run.led, seen)
           L == ReconcileConflict(A, probe, head, seen)
           P == Plan(probe, narrow)
<1>1. L \in Ledgers
  <2>1. A \in Ledgers
    BY RunTypes, AdvanceType
  <2> HIDE DEF A
  <2>2. probe \in {"conflicted", "mergeable", "unknown"} /\ head \in Heads
    BY ProbeType DEF WorldOK
  <2> QED BY <2>1, <2>2, ConflictType
<1>2. Approvals(log, seen, known) \in SUBSET Reviewers
  BY DEF Approvals
<1>3. P.led = L /\ P.appr = Approvals(log, seen, known)
  BY DEF Plan
<1>4. P.cks \in SUBSET run.ck /\ P.ext \in BOOLEAN /\ P.stale \in BOOLEAN
  BY RunTypes DEF Plan, SkipForRecovery, CheckpointStale, Resumptions
<1>5. P.skip \in BOOLEAN /\ P.turns \in SUBSET Reviewers
  BY RunTypes DEF Plan, SkipForRecovery, HasConflict, Resumptions
<1>6. P.fallback \in BOOLEAN
  BY RunTypes DEF Plan, Staged, CheckpointStale
<1>7. P.latch \in BOOLEAN
  BY RunTypes DEF Plan, Staged
<1>8. QED
  BY <1>1, <1>2, <1>3, <1>4, <1>5, <1>6, <1>7

(* A round can only be rolled over from a reconciliation of its own.       *)
LEMMA RollOverOK ==
  ASSUME WorldOK, LogOK, RunOK, seen \in Heads, NEW probe \in Probe, NEW narrow \in BOOLEAN,
         Plan(probe, narrow).shut, RollOver(Plan(probe, narrow))
  PROVE  WorldOK' /\ LogOK' /\ RunOK'
<1> DEFINE P == Plan(probe, narrow)
           c == CHOOSE x \in run.res.closed : TRUE
           L == Settle(Selective, c.led, c.tally)
           sw == run.sweep \/ (Selective /\ P.stale)
           fo == Selective /\ P.latch
           fb == P.fallback
           ck == P.cks
           R == [run EXCEPT !.led = L, !.ck = ck, !.sweep = sw, !.fallback = fb, !.force = fo]
<1>1. run' = NextRound(R) /\ pc' = "round" /\ seen' = head /\ known' = reqs
      /\ UNCHANGED <<github, log, runs>>
  BY DEF RollOver
<1>2. run.res.closed # {} /\ run.res.closed \in SUBSET Records
  BY RunTypes DEF Plan, Resumptions
<1>3. c \in Records
  BY <1>2
<1>4. L \in Ledgers
  <2>1. c.led \in Ledgers /\ c.tally \in Tallies
    BY <1>3 DEF Records
  <2>2. Selective \in BOOLEAN
    BY DEF Selective
  <2> HIDE DEF c
  <2> QED BY <2>1, <2>2, SettleType
<1>5. ck \in SUBSET Checkpoints /\ fb \in BOOLEAN /\ sw \in BOOLEAN /\ fo \in BOOLEAN
  BY PlanOK, RunTypes
<1> HIDE DEF P, c, L, sw, fo, fb, ck
<1>6. R \in RunStates /\ R.budget = run.budget
  <2>1. run \in RunStates
    BY DEF RunOK
  <2> DEFINE R1 == [run EXCEPT !.led = L, !.ck = ck]
  <2>2. R1 \in RunStates /\ R1.budget = run.budget
    BY <2>1, <1>4, <1>5 DEF RunStates
  <2>3. R = [R1 EXCEPT !.sweep = sw, !.fallback = fb, !.force = fo]
    BY DEF R1
  <2> HIDE DEF R1
  <2> QED BY <2>2, <2>3, <1>5 DEF RunStates
<1> HIDE DEF R
<1>7. run' \in RunStates /\ run'.budget = run.budget
  BY <1>1, <1>6, NextRoundType
<1>8. SoundBudget(run'.budget)
  BY <1>7 DEF RunOK
<1>9. RunOK'
  BY <1>1, <1>7, <1>8, RoundOpens
<1>10. QED
  BY <1>1, <1>9, WorldSame, LogSame

(* Launching the reviewers keeps the invariant; the guard of the round     *)
(* start puts the round within the budget.                                 *)
LEMMA LaunchOK ==
  ASSUME WorldOK, LogOK, RunOK, seen \in Heads, NEW probe \in Probe, NEW narrow \in BOOLEAN,
         run.round <= run.budget.allowed, Launch(Plan(probe, narrow))
  PROVE  WorldOK' /\ LogOK' /\ RunOK'
<1> DEFINE P == Plan(probe, narrow)
           L == P.led
           ck == P.cks
           fb == P.skip /\ P.fallback
           fo == Selective /\ P.latch
           todo == IF P.skip THEN {} ELSE P.turns
           tally == IF P.skip THEN NoTally ELSE run.res.done
           N == [NoTurns EXCEPT !.ext = P.ext, !.skip = P.skip, !.appr = P.appr, !.todo = todo,
                   !.tally = tally]
           R == Record("prelaunch", seen, run.round, L)
           op == P.D.phase = "secondary-audit"
           la == P.latch
           Q == [R EXCEPT !.opens = op, !.force = la]
           E == [run EXCEPT !.led = L, !.ck = ck, !.sweep = FALSE, !.fallback = fb, !.force = fo,
                   !.now = N]
<1>1. pc' = "review" /\ UNCHANGED <<github, runs, seen, known>> /\ run' = E
  BY DEF Launch
<1>2. (UNCHANGED log) \/ Post(Q)
  BY DEF Launch
<1>3. /\ L \in Ledgers /\ ck \in SUBSET Checkpoints /\ fb \in BOOLEAN /\ fo \in BOOLEAN
      /\ la \in BOOLEAN /\ op \in BOOLEAN
  BY PlanOK, RunTypes
<1>4. N \in RoundStates
  <2> DEFINE a == P.ext
             b == P.skip
             e == P.appr
  <2>1. a \in BOOLEAN /\ b \in BOOLEAN /\ e \in SUBSET Reviewers
    BY PlanOK
  <2>2. todo \in SUBSET Reviewers /\ tally \in Tallies
    BY PlanOK, RunTypes, EmptyLedgerType DEF Resumptions
  <2> DEFINE N1 == [NoTurns EXCEPT !.ext = a, !.skip = b, !.appr = e]
  <2> HIDE DEF a, b, e, todo, tally
  <2>3. N1 \in RoundStates
    BY <2>1, FreshRound DEF RoundStates
  <2>4. N = [N1 EXCEPT !.todo = todo, !.tally = tally]
    BY Zenon DEF N1, a, b, e
  <2> HIDE DEF N1, N
  <2> QED BY <2>2, <2>3, <2>4 DEF RoundStates
<1>5. R \in Records /\ R.kind = "prelaunch" /\ R.ck = {} /\ R.budget = {}
  <2>1. "prelaunch" \in Kinds
    BY DEF Kinds
  <2> QED BY <1>3, <2>1, RecordType, RunTypes
<1> HIDE DEF P, L, ck, fb, fo, N, R, op, la
<1>6. run' \in RunStates /\ run'.budget = run.budget /\ run'.round = run.round
  <2>1. run \in RunStates
    BY DEF RunOK
  <2> DEFINE R1 == [run EXCEPT !.led = L, !.ck = ck, !.sweep = FALSE]
  <2>2. R1 \in RunStates /\ R1.budget = run.budget /\ R1.round = run.round
    BY <2>1, <1>3 DEF RunStates
  <2>3. E = [R1 EXCEPT !.fallback = fb, !.force = fo, !.now = N]
    BY DEF R1
  <2> HIDE DEF R1
  <2>4. E \in RunStates /\ E.budget = run.budget /\ E.round = run.round
    BY <2>2, <2>3, <1>3, <1>4 DEF RunStates
  <2> HIDE DEF E
  <2> QED BY <2>4, <1>1
<1> HIDE DEF E
<1>7. RunOK'
  BY <1>1, <1>6 DEF RunOK, PCs
<1>8. Q \in GoodRecords
  <2>1. Q \in Records /\ Q.kind = "prelaunch" /\ Q.ck = {} /\ Q.budget = {}
    BY <1>3, <1>5 DEF Records
  <2> HIDE DEF Q
  <2> QED BY <2>1 DEF GoodRecords, RecordWithinBudget
<1>9. LogOK'
  BY <1>2, <1>8, PostGood, LogSame
<1>10. QED
  BY <1>1, <1>7, <1>9, WorldSame

(* A round start stops, rolls over a reconciled round, or launches; one    *)
(* that needs turns is launched only when it is not reconciled already.    *)
LaunchIsDue(P) == P.D.phase # "pre-panel-stop" /\ ~(P.shut /\ P.turns # {})

LEMMA BeginRoundCases ==
  ASSUME BeginRound
  PROVE  \E probe \in Probe, narrow \in BOOLEAN :
           \/ Stop
           \/ Plan(probe, narrow).shut /\ RollOver(Plan(probe, narrow))
           \/ Launch(Plan(probe, narrow)) /\ LaunchIsDue(Plan(probe, narrow))
<1> DEFINE L(probe) == ReconcileConflict(AdvanceForHead(run.led, seen), probe, head, seen)
           ext(probe) == SkipForRecovery(IF CheckpointStale(L(probe), Approvals(log, seen, known))
                                         THEN {} ELSE run.ck)
<1>1. \E probe \in Probe : \E narrow \in Classifications(L(probe), ext(probe)) :
        OpenRound(Plan(probe, narrow))
  BY Zenon DEF BeginRound
<1> HIDE DEF L, ext
<1>2. PICK probe \in Probe : \E narrow \in Classifications(L(probe), ext(probe)) :
        OpenRound(Plan(probe, narrow))
  BY <1>1
<1>3. PICK narrow \in Classifications(L(probe), ext(probe)) : OpenRound(Plan(probe, narrow))
  BY <1>2
<1>4. narrow \in BOOLEAN
  BY DEF Classifications
<1> DEFINE P == Plan(probe, narrow)
<1> HIDE DEF P
<1>5. OpenRound(P)
  BY <1>3 DEF P
<1>6. Stop \/ (P.shut /\ RollOver(P)) \/ (Launch(P) /\ LaunchIsDue(P))
  BY <1>5 DEF OpenRound, LaunchIsDue
<1>7. \/ Stop
      \/ Plan(probe, narrow).shut /\ RollOver(Plan(probe, narrow))
      \/ Launch(Plan(probe, narrow)) /\ LaunchIsDue(Plan(probe, narrow))
  BY <1>6 DEF P
<1>8. QED
  BY <1>4, <1>7, Zenon

(* The start of a round keeps the invariant.                               *)
LEMMA BeginRoundOK ==
  ASSUME IInv, BeginRound
  PROVE  IInv'
<1>1. WorldOK /\ LogOK /\ RunOK
  BY DEF IInv
<1>2. pc = "round" /\ run.round <= run.budget.allowed /\ seen \in Heads
  BY <1>1 DEF BeginRound, RunOK
<1>3. PICK probe \in Probe, narrow \in BOOLEAN :
        \/ Stop
        \/ Plan(probe, narrow).shut /\ RollOver(Plan(probe, narrow))
        \/ Launch(Plan(probe, narrow))
  BY BeginRoundCases
<1>4. CASE Stop
  BY <1>4, StopOK
<1>5. CASE Plan(probe, narrow).shut /\ RollOver(Plan(probe, narrow))
  BY <1>1, <1>2, <1>5, RollOverOK DEF IInv
<1>6. CASE Launch(Plan(probe, narrow))
  BY <1>1, <1>2, <1>6, LaunchOK DEF IInv
<1>7. QED
  BY <1>3, <1>4, <1>5, <1>6

-----------------------------------------------------------------------------
(* Reviews, reconciliation and the gate *)

(* A round in which turns are started is one of the allowed rounds.        *)
LEMMA RoundBound ==
  ASSUME RunOK, pc \notin {"off", "handoff", "round"}
  PROVE  run.round <= MaxRounds + 2
<1>1. run.round <= run.budget.allowed /\ run.budget \in Budgets /\ SoundBudget(run.budget)
  BY RunTypes DEF RunOK
<1>2. run.budget.allowed <= MaxRounds + 2 /\ run.budget.allowed \in Nat /\ run.round \in Nat
  BY <1>1, SoundBound, RunTypes DEF Budgets
<1>3. QED
  BY <1>1, <1>2, MaxRoundsAssumption

(* A review keeps the invariant: it is recorded in an allowed round.       *)
LEMMA ReviewTurnOK ==
  ASSUME IInv, NEW r \in Reviewers, ReviewTurn(r)
  PROVE  IInv'
<1>1. WorldOK /\ LogOK /\ RunOK
  BY DEF IInv
<1>2. PICK B \in SUBSET (Open(run.led) \cup {r}) :
        /\ Post([Record("review", seen, run.round, run.led) EXCEPT
                   !.tally = [NoTally EXCEPT ![r] = Vote(B)], !.saw = known, !.force = run.force])
        /\ run' = [run EXCEPT !.now.todo = @ \ {r}, !.now.tally[r] = Vote(B)]
  BY DEF ReviewTurn
<1>3. pc = "review" /\ seen \in Heads /\ UNCHANGED <<github, runs, pc, seen, known>>
  BY <1>1 DEF ReviewTurn, RunOK
<1> DEFINE v == Vote(B)
           one == [NoTally EXCEPT ![r] = v]
           R == Record("review", seen, run.round, run.led)
           f == run.force
           Q == [R EXCEPT !.tally = one, !.saw = known, !.force = f]
           todo == run.now.todo \ {r}
           tally == [run.now.tally EXCEPT ![r] = v]
           N == [run.now EXCEPT !.todo = todo, !.tally = tally]
<1>4. v \in Votes
  BY DEF Vote, Votes, Open
<1>5. one \in Tallies /\ tally \in Tallies /\ todo \in SUBSET Reviewers
  <2>1. NoTally \in Tallies /\ run.now.tally \in Tallies /\ run.now.todo \in SUBSET Reviewers
    BY <1>1, EmptyLedgerType, RunTypes DEF RoundStates
  <2> HIDE DEF v
  <2> QED BY <1>4, <2>1 DEF Tallies
<1>6. R \in Records /\ R.kind = "review" /\ R.ck = {} /\ R.budget = {} /\ R.round = run.round
  <2>1. "review" \in Kinds
    BY DEF Kinds
  <2> QED BY <1>1, <1>3, <2>1, RecordType, RunTypes
<1>7. known \in 0 .. MaxReqs /\ f \in BOOLEAN
  BY <1>1, RunTypes DEF RunOK
<1>8. Post(Q)
  BY <1>2
<1>9. run' = [run EXCEPT !.now = N]
  <2>1. run \in RunStates
    BY <1>1 DEF RunOK
  <2> HIDE DEF v
  <2>2. run' = [run EXCEPT !.now.todo = run.now.todo \ {r}, !.now.tally[r] = v]
    BY <1>2 DEF v
  <2> QED BY <2>1, <2>2 DEF RunStates, RoundStates
<1> HIDE DEF v, one, R, f, todo, tally
<1>10. N \in RoundStates
  BY <1>1, <1>5, RunTypes DEF RoundStates
<1> HIDE DEF N
<1>11. run' \in RunStates /\ run'.round = run.round /\ run'.budget = run.budget
  BY <1>1, <1>9, <1>10 DEF RunOK, RunStates
<1>12. Q \in Records /\ Q.kind = "review" /\ Q.ck = {} /\ Q.budget = {} /\ Q.round = run.round
  BY <1>5, <1>6, <1>7 DEF Records
<1> HIDE DEF Q
<1>13. Q \in GoodRecords
  <2>1. run.round <= MaxRounds + 2
    BY <1>1, <1>3, RoundBound
  <2> QED BY <1>12, <2>1 DEF GoodRecords, RecordWithinBudget
<1>14. LogOK'
  BY <1>1, <1>8, <1>13, PostGood
<1>15. RunOK'
  BY <1>1, <1>3, <1>11 DEF RunOK
<1>16. QED
  BY <1>1, <1>3, <1>14, <1>15, WorldSame DEF IInv

(* So does a reviewer that fails.                                          *)
LEMMA ReviewTurnFailsOK ==
  ASSUME IInv, NEW r \in Reviewers, ReviewTurnFails(r)
  PROVE  IInv'
<1> DEFINE todo == run.now.todo \ {r}
           N == [run.now EXCEPT !.todo = todo, !.failed = TRUE]
<1>1. WorldOK /\ LogOK /\ RunOK
  BY DEF IInv
<1>2. pc = "review" /\ UNCHANGED <<github, log, runs, pc, seen, known>>
  BY DEF ReviewTurnFails
<1>3. run' = [run EXCEPT !.now = N]
  BY <1>1 DEF ReviewTurnFails, RunOK, RunStates, RoundStates
<1>4. todo \in SUBSET Reviewers
  BY <1>1, RunTypes DEF RoundStates
<1> HIDE DEF todo
<1>5. N \in RoundStates
  BY <1>1, <1>4, RunTypes DEF RoundStates
<1> HIDE DEF N
<1>6. run' \in RunStates /\ run'.round = run.round /\ run'.budget = run.budget
  BY <1>1, <1>3, <1>5 DEF RunOK, RunStates
<1>7. RunOK'
  BY <1>1, <1>2, <1>6 DEF RunOK
<1>8. QED
  BY <1>1, <1>2, <1>7, WorldSame, LogSame DEF IInv

(* So does the record that closes a round.                                 *)
LEMMA ReconcileOK ==
  ASSUME IInv, Reconcile
  PROVE  IInv'
<1> DEFINE R == Record("reconciliation", seen, run.round, run.led)
           t == run.now.tally
           f == run.force
           Q == [R EXCEPT !.tally = t, !.force = f]
<1>1. WorldOK /\ LogOK /\ RunOK
  BY DEF IInv
<1>2. pc = "review" /\ pc' = "settle" /\ UNCHANGED <<github, runs, seen, known, run>>
  BY DEF Reconcile
<1>3. (UNCHANGED log) \/ Post(Q)
  BY DEF Reconcile
<1>4. R \in Records /\ R.kind = "reconciliation" /\ R.ck = {} /\ R.budget = {}
  <2>1. "reconciliation" \in Kinds /\ seen \in Heads
    BY <1>1, <1>2 DEF Kinds, RunOK
  <2> QED BY <1>1, <2>1, RecordType, RunTypes
<1>5. t \in Tallies /\ f \in BOOLEAN
  BY <1>1, RunTypes DEF RoundStates
<1> HIDE DEF R, t, f
<1>6. Q \in Records /\ Q.kind = "reconciliation" /\ Q.ck = {} /\ Q.budget = {}
  BY <1>4, <1>5 DEF Records
<1> HIDE DEF Q
<1>7. Q \in GoodRecords
  BY <1>6 DEF GoodRecords, RecordWithinBudget
<1>8. LogOK'
  BY <1>1, <1>3, <1>7, PostGood, LogSame
<1>9. RunOK'
  BY <1>1, <1>2 DEF RunOK, PCs
<1>10. QED
  BY <1>1, <1>2, <1>8, <1>9, WorldSame DEF IInv

(* A step inside a round that only replaces the ledger.                    *)
LEMMA LedgerStepOK ==
  ASSUME IInv, NEW L \in Ledgers, run' = [run EXCEPT !.led = L],
         pc \notin {"off", "handoff", "round"},
         pc' \in PCs \ {"off", "dispatch", "coding", "coded"},
         UNCHANGED <<github, log, runs, seen, known>>
  PROVE  IInv'
<1>1. WorldOK /\ LogOK /\ RunOK
  BY DEF IInv
<1>2. run' \in RunStates /\ run'.round = run.round /\ run'.budget = run.budget
  BY <1>1 DEF RunOK, RunStates
<1>3. run'.budget.allowed >= run.budget.allowed /\ SoundBudget(run'.budget)
  BY <1>1, <1>2, RunTypes DEF Budgets, RunOK
<1>4. RunOK'
  BY <1>1, <1>2, <1>3, RoundGoesOn
<1>5. QED
  BY <1>1, <1>4, WorldSame, LogSame DEF IInv

(* Settling the votes keeps the invariant.                                 *)
LEMMA SettleRoundOK ==
  ASSUME IInv, SettleRound
  PROVE  IInv'
<1> DEFINE L == Settle(Selective, run.led, run.now.tally)
<1>1. L \in Ledgers
  BY RunTypes, SettleType DEF IInv, RoundStates, Selective
<1>2. pc = "settle" /\ pc' \in {"blocked", "gate"} /\ UNCHANGED <<github, log, runs, seen, known>>
      /\ run' = [run EXCEPT !.led = L]
  BY DEF SettleRound
<1> HIDE DEF L
<1>3. QED
  BY <1>1, <1>2, LedgerStepOK DEF PCs

(* Passing the exact-head gate keeps it.                                   *)
LEMMA GatePassOK ==
  ASSUME IInv, GatePass
  PROVE  IInv'
<1> DEFINE L == IF CiIsCandidate(run.led, seen) THEN SetLife(run.led, "ready") ELSE run.led
<1>1. L \in Ledgers
  BY RunTypes, CiOpsType DEF IInv, Lifecycles, SetLife, Ledgers, CiItems, HasCi
<1>2. pc = "gate" /\ pc' = "probe" /\ UNCHANGED <<github, log, runs, seen, known>>
      /\ run' = [run EXCEPT !.led = L]
  BY DEF GatePass
<1> HIDE DEF L
<1>3. QED
  BY <1>1, <1>2, LedgerStepOK DEF PCs

(* The snapshot of conflict and checks keeps it.                           *)
LEMMA SnapshotOK ==
  ASSUME IInv, Snapshot
  PROVE  IInv'
<1>1. PICK probe \in Probe :
        LET L == ReconcileConflict(run.led, probe, head, seen)
            failed == ~HasConflict(L) /\ ci[seen] = "failing"
        IN  /\ run' = [run EXCEPT !.led = IF failed THEN UpsertCi(L, seen) ELSE L]
            /\ pc' = IF HasConflict(L) \/ failed THEN "blocked" ELSE "enter"
  BY DEF Snapshot
<1> DEFINE L == ReconcileConflict(run.led, probe, head, seen)
           failed == ~HasConflict(L) /\ ci[seen] = "failing"
           K == IF failed THEN UpsertCi(L, seen) ELSE L
<1>2. pc = "probe" /\ UNCHANGED <<github, log, runs, seen, known>> /\ seen \in Heads
  BY DEF Snapshot, IInv, RunOK
<1>3. L \in Ledgers
  <2>1. probe \in {"conflicted", "mergeable", "unknown"} /\ head \in Heads
    BY ProbeType DEF IInv, WorldOK
  <2> QED BY <1>2, <2>1, ConflictType, RunTypes DEF IInv
<1>4. UpsertCi(L, seen) \in Ledgers
  BY <1>2, <1>3, CiOpsType DEF Lifecycles
<1>5. run' = [run EXCEPT !.led = K] /\ pc' \in {"blocked", "enter"}
  BY <1>1
<1>6. K \in Ledgers
  BY <1>3, <1>4
<1> HIDE DEF K
<1>7. QED
  BY <1>2, <1>5, <1>6, LedgerStepOK DEF PCs

(* Moving the review to the live head keeps it.                            *)
LEMMA RestartOnLiveHeadOK ==
  ASSUME IInv, RestartOnLiveHead
  PROVE  IInv'
<1> DEFINE L == AdvanceForHead(run.led, head)
           cks == Checkpoint(L, "awaiting", run.budget, -1, {})
           R == [run EXCEPT !.led = L, !.ck = cks, !.sweep = FALSE]
<1>1. WorldOK /\ LogOK /\ RunOK /\ head \in Heads /\ run.round + 1 \in Nat
  BY RunTypes DEF IInv, WorldOK
<1>2. L \in Ledgers
  BY <1>1, AdvanceType, RunTypes
<1>3. /\ PostCheckpoint(head, run.round + 1, L, cks)
      /\ run' = NextRound(R) /\ pc' = "round" /\ seen' = head /\ known' = reqs
      /\ UNCHANGED <<github, runs>>
  BY DEF RestartOnLiveHead
<1> HIDE DEF L
<1>4. cks \in SUBSET Checkpoints /\ \A c \in cks : SoundBudget(c.budget)
  <2>1. "awaiting" \in Lifecycles /\ -1 \in -1 .. MaxReqs /\ {} \in SUBSET Reviewers
    BY MaxReqsAssumption DEF Lifecycles
  <2>2. run.budget \in Budgets /\ SoundBudget(run.budget)
    BY <1>1, RunTypes DEF RunOK
  <2> QED BY <1>2, <2>1, <2>2, CheckpointOK
<1> HIDE DEF cks
<1>5. LogOK'
  BY <1>1, <1>2, <1>3, <1>4, PostCheckpointOK
<1>6. R \in RunStates /\ R.budget = run.budget
  BY <1>1, <1>2, <1>4 DEF RunOK, RunStates
<1> HIDE DEF R
<1>7. run' \in RunStates /\ run'.budget = run.budget
  BY <1>3, <1>6, NextRoundType
<1>8. RunOK'
  BY <1>1, <1>3, <1>7, RoundOpens DEF RunOK
<1>9. QED
  BY <1>1, <1>3, <1>5, <1>8, WorldSame DEF IInv

(* Asking for a sweep in the next round keeps it.                          *)
LEMMA SweepNextRoundOK ==
  ASSUME IInv, SweepNextRound
  PROVE  IInv'
<1> DEFINE R == [run EXCEPT !.sweep = TRUE]
<1>1. WorldOK /\ LogOK /\ RunOK
  BY DEF IInv
<1>2. run' = NextRound(R) /\ pc' = "round" /\ seen' = head /\ known' = reqs
      /\ UNCHANGED <<github, log, runs>>
  BY DEF SweepNextRound
<1>3. R \in RunStates /\ R.budget = run.budget
  BY <1>1 DEF RunOK, RunStates
<1> HIDE DEF R
<1>4. run' \in RunStates /\ run'.budget = run.budget
  BY <1>2, <1>3, NextRoundType
<1>5. RunOK'
  BY <1>1, <1>2, <1>4, RoundOpens DEF RunOK
<1>6. QED
  BY <1>1, <1>2, <1>5, WorldSame, LogSame DEF IInv

-----------------------------------------------------------------------------
(* The CI watch and the merge *)

(* The qualifying approvals are of reviewers.                              *)
LEMMA QualifyingNamesType == RunOK => QualifyingNames \in SUBSET Reviewers
  BY RunTypes DEF QualifyingNames, RoundStates

(* Entering the watch with its checkpoint keeps the invariant.             *)
LEMMA EnterWatchOK ==
  ASSUME IInv, EnterWatch
  PROVE  IInv'
<1> DEFINE L == SetLife(run.led, "qualifying")
           cks == Checkpoint(L, "qualifying", run.budget, known, QualifyingNames)
<1>1. WorldOK /\ LogOK /\ RunOK
  BY DEF IInv
<1>2. /\ pc = "enter" /\ pc' = "watch" /\ UNCHANGED <<github, runs, seen, known>>
      /\ PostCheckpoint(seen, run.round, L, cks)
      /\ run' = [run EXCEPT !.led = L, !.ck = cks]
  BY DEF EnterWatch
<1>3. seen \in Heads /\ run.round \in Nat
  BY <1>1, <1>2, RunTypes DEF RunOK
<1>4. "qualifying" \in Lifecycles
  BY DEF Lifecycles
<1>5. L \in Ledgers
  BY <1>1, <1>3, <1>4, CiOpsType, RunTypes
<1> HIDE DEF L
<1>6. cks \in SUBSET Checkpoints /\ \A c \in cks : SoundBudget(c.budget)
  <2>1. known \in -1 .. MaxReqs /\ SoundBudget(run.budget) /\ run.budget \in Budgets
    BY <1>1, RunTypes, MaxReqsAssumption DEF RunOK
  <2> QED BY <1>1, <1>4, <1>5, <2>1, QualifyingNamesType, CheckpointOK
<1> HIDE DEF cks
<1>7. LogOK'
  BY <1>1, <1>2, <1>3, <1>5, <1>6, PostCheckpointOK
<1>8. run' \in RunStates /\ run'.round = run.round /\ run'.budget = run.budget
  BY <1>1, <1>2, <1>5, <1>6 DEF RunOK, RunStates
<1>9. RunOK'
  BY <1>1, <1>2, <1>8 DEF RunOK, PCs
<1>10. QED
  BY <1>1, <1>2, <1>7, <1>9, WorldSame DEF IInv

(* A poll changes nothing but the watch budget.                            *)
LEMMA PolledType ==
  ASSUME RunOK, run.polls > 0
  PROVE  /\ Polled \in RunStates
         /\ Polled.round = run.round /\ Polled.budget = run.budget /\ Polled.led = run.led
         /\ Polled.rerun = run.rerun
<1> DEFINE n == run.polls - 1
<1>1. n \in 0 .. WatchBudget
  BY BoundsAssumption DEF RunOK, RunStates
<1>2. run \in RunStates /\ Polled = [run EXCEPT !.polls = n]
  BY DEF RunOK, Polled
<1> HIDE DEF n
<1>3. QED
  BY <1>1, <1>2 DEF RunStates

(* Taking an extension that was not taken yet keeps a budget sound.        *)
LEMMA ExtensionSound ==
  ASSUME NEW b \in Budgets, SoundBudget(b)
  PROVE  /\ ~b.failExt =>
               /\ [b EXCEPT !.allowed = @ + 1, !.failExt = TRUE] \in Budgets
               /\ SoundBudget([b EXCEPT !.allowed = @ + 1, !.failExt = TRUE])
               /\ [b EXCEPT !.allowed = @ + 1, !.failExt = TRUE].allowed >= b.allowed
         /\ ~b.headExt =>
               /\ [b EXCEPT !.allowed = @ + 1, !.headExt = TRUE] \in Budgets
               /\ SoundBudget([b EXCEPT !.allowed = @ + 1, !.headExt = TRUE])
<1> DEFINE n == b.allowed + 1
<1>1. n \in Nat /\ n >= b.allowed /\ n = MaxRounds + Extensions(b) + 1
      /\ MaxRounds \in Nat /\ Extensions(b) \in Nat
  BY MaxRoundsAssumption DEF Budgets, SoundBudget, Extensions
<1> HIDE DEF n
<1>2. ASSUME ~b.failExt
      PROVE  /\ [b EXCEPT !.allowed = n, !.failExt = TRUE] \in Budgets
             /\ [b EXCEPT !.allowed = n, !.failExt = TRUE].allowed = n
             /\ Extensions([b EXCEPT !.allowed = n, !.failExt = TRUE]) = Extensions(b) + 1
  <2> DEFINE e == [b EXCEPT !.allowed = n, !.failExt = TRUE]
  <2>1. e \in Budgets /\ e.allowed = n /\ e.failExt = TRUE /\ e.headExt = b.headExt
    BY <1>1 DEF Budgets
  <2> HIDE DEF e
  <2>2. Extensions(e) = Extensions(b) + 1
    BY <1>2, <2>1 DEF Extensions
  <2> QED BY <2>1, <2>2 DEF e
<1>3. ASSUME ~b.headExt
      PROVE  /\ [b EXCEPT !.allowed = n, !.headExt = TRUE] \in Budgets
             /\ [b EXCEPT !.allowed = n, !.headExt = TRUE].allowed = n
             /\ Extensions([b EXCEPT !.allowed = n, !.headExt = TRUE]) = Extensions(b) + 1
  <2> DEFINE e == [b EXCEPT !.allowed = n, !.headExt = TRUE]
  <2>1. e \in Budgets /\ e.allowed = n /\ e.headExt = TRUE /\ e.failExt = b.failExt
    BY <1>1 DEF Budgets
  <2> HIDE DEF e
  <2>2. Extensions(e) = Extensions(b) + 1
    BY <1>3, <2>1 DEF Extensions
  <2> QED BY <2>1, <2>2 DEF e
<1>4. QED
  BY <1>1, <1>2, <1>3 DEF SoundBudget, n

(* A conflict met by the watch keeps the invariant.                        *)
LEMMA WatchConflictOK ==
  ASSUME IInv, WatchConflict
  PROVE  IInv'
<1> DEFINE L == [run.led EXCEPT !.conf = seen]
<1>1. WorldOK /\ LogOK /\ RunOK
  BY DEF IInv
<1>2. pc = "watch" /\ pc' = "blocked" /\ UNCHANGED <<github, log, runs, seen, known>>
      /\ run.polls > 0 /\ run' = [Polled EXCEPT !.led.conf = seen]
  BY DEF WatchConflict, Polling
<1>3. seen \in Heads
  BY <1>1, <1>2 DEF RunOK
<1>4. L \in Ledgers
  BY <1>1, <1>3, RunTypes DEF Ledgers
<1>5. Polled \in RunStates /\ Polled.round = run.round /\ Polled.budget = run.budget
      /\ Polled.led = run.led
  BY <1>1, <1>2, PolledType
<1>6. run' = [Polled EXCEPT !.led = L]
  BY <1>2, <1>5 DEF RunStates
<1> HIDE DEF L
<1>7. run' \in RunStates /\ run'.round = run.round /\ run'.budget = run.budget
  BY <1>4, <1>5, <1>6 DEF RunStates
<1>8. RunOK'
  BY <1>1, <1>2, <1>7 DEF RunOK, PCs
<1>9. QED
  BY <1>1, <1>2, <1>8, WorldSame, LogSame DEF IInv

(* A failing check keeps it, also when it earns the extra round.           *)
LEMMA WatchFailedOK ==
  ASSUME IInv, WatchFailed
  PROVE  IInv'
<1> DEFINE extend == run.round = run.budget.allowed /\ ~run.budget.failExt
           b == IF extend THEN [run.budget EXCEPT !.allowed = @ + 1, !.failExt = TRUE] ELSE run.budget
           L == UpsertCi(run.led, seen)
<1>1. WorldOK /\ LogOK /\ RunOK
  BY DEF IInv
<1>2. pc = "watch" /\ pc' = "blocked" /\ UNCHANGED <<github, log, runs, seen, known>>
      /\ run.polls > 0 /\ run' = [Polled EXCEPT !.led = L, !.budget = b]
  BY DEF WatchFailed, Polling
<1>3. L \in Ledgers
  <2>1. seen \in Heads /\ "repair" \in Lifecycles
    BY <1>1, <1>2 DEF RunOK, Lifecycles
  <2> QED BY <1>1, <2>1, RunTypes, CiOpsType
<1>4. b \in Budgets /\ SoundBudget(b) /\ b.allowed >= run.budget.allowed
  <2>1. run.budget \in Budgets /\ SoundBudget(run.budget)
    BY <1>1, RunTypes DEF RunOK
  <2>2. CASE extend
    BY <2>1, <2>2, ExtensionSound
  <2>3. CASE ~extend
    BY <2>1, <2>3 DEF Budgets
  <2> QED BY <2>2, <2>3
<1> HIDE DEF L, b
<1>5. Polled \in RunStates /\ Polled.round = run.round
  BY <1>1, <1>2, PolledType
<1>6. run' \in RunStates /\ run'.round = run.round /\ run'.budget = b
  BY <1>2, <1>3, <1>4, <1>5 DEF RunStates
<1>7. RunOK'
  BY <1>1, <1>2, <1>4, <1>6, RoundGoesOn DEF PCs
<1>8. QED
  BY <1>1, <1>2, <1>7, WorldSame, LogSame DEF IInv

(* The polls that leave the round as it is.                                *)
LEMMA WatchPollOK ==
  ASSUME IInv, WatchPending \/ WatchPassed
  PROVE  IInv'
<1>1. WorldOK /\ LogOK /\ RunOK
  BY DEF IInv
<1>2. pc = "watch" /\ pc' \in {"watch", "passed"} /\ run.polls > 0
      /\ UNCHANGED <<github, log, runs, seen, known>> /\ run' = Polled
  BY DEF WatchPending, WatchPassed, Polling
<1>3. run' \in RunStates /\ run'.round = run.round /\ run'.budget = run.budget
  BY <1>1, <1>2, PolledType
<1>4. RunOK'
  BY <1>1, <1>2, <1>3 DEF RunOK, PCs
<1>5. QED
  BY <1>1, <1>2, <1>4, WorldSame, LogSame DEF IInv

(* Rerunning failed plumbing keeps it.                                     *)
LEMMA WatchRerunOK ==
  ASSUME IInv, WatchRerun
  PROVE  IInv'
<1> DEFINE S == run.rerun \cup {seen}
<1>1. WorldOK /\ LogOK /\ RunOK
  BY DEF IInv
<1>2. pc = "watch" /\ UNCHANGED <<pc, log, runs, seen, known>> /\ run.polls > 0
  BY DEF WatchRerun, Polling
<1>3. seen \in Heads
  BY <1>1, <1>2 DEF RunOK
<1>4. Polled \in RunStates /\ Polled.round = run.round /\ Polled.budget = run.budget
      /\ Polled.rerun = run.rerun
  BY <1>1, <1>2, PolledType
<1>5. run' = [Polled EXCEPT !.rerun = S] /\ S \in SUBSET Heads
  BY <1>3, <1>4 DEF WatchRerun, RunStates
<1> HIDE DEF S
<1>6. run' \in RunStates /\ run'.round = run.round /\ run'.budget = run.budget
  BY <1>4, <1>5 DEF RunStates
<1>7. RunOK'
  BY <1>1, <1>2, <1>6 DEF RunOK
<1>8. WorldOK'
  BY <1>1 DEF WorldOK, WatchRerun
<1>9. QED
  BY <1>1, <1>2, <1>7, <1>8, LogSame DEF IInv

(* A head that moves under the watch keeps it, also when it earns the      *)
(* extra round.                                                            *)
LEMMA WatchHeadChangedOK ==
  ASSUME IInv, WatchHeadChanged
  PROVE  IInv'
<1> DEFINE extend == run.round = run.budget.allowed /\ ~run.budget.headExt
           b == IF extend THEN [run.budget EXCEPT !.allowed = @ + 1, !.headExt = TRUE] ELSE run.budget
           L == AdvanceForHead(run.led, head)
           cks == Checkpoint(L, "awaiting", b, -1, {})
           R == [Polled EXCEPT !.led = L, !.ck = cks, !.budget = b]
<1>1. WorldOK /\ LogOK /\ RunOK /\ head \in Heads /\ run.round + 1 \in Nat
  BY RunTypes DEF IInv, WorldOK
<1>2. /\ PostCheckpoint(head, run.round + 1, L, cks)
      /\ run' = NextRound(R) /\ pc' = "round" /\ seen' = head /\ known' = reqs
      /\ UNCHANGED <<github, runs>> /\ run.polls > 0
  BY DEF WatchHeadChanged, Polling
<1>3. L \in Ledgers
  BY <1>1, AdvanceType, RunTypes
<1>4. b \in Budgets /\ SoundBudget(b)
  <2>1. run.budget \in Budgets /\ SoundBudget(run.budget)
    BY <1>1, RunTypes DEF RunOK
  <2> QED BY <2>1, ExtensionSound
<1> HIDE DEF L, b
<1>5. cks \in SUBSET Checkpoints /\ \A c \in cks : SoundBudget(c.budget)
  <2>1. "awaiting" \in Lifecycles /\ -1 \in -1 .. MaxReqs /\ {} \in SUBSET Reviewers
    BY MaxReqsAssumption DEF Lifecycles
  <2> QED BY <1>3, <1>4, <2>1, CheckpointOK
<1> HIDE DEF cks
<1>6. LogOK'
  BY <1>1, <1>2, <1>3, <1>5, PostCheckpointOK
<1>7. Polled \in RunStates
  BY <1>1, <1>2, PolledType
<1>8. R \in RunStates /\ R.budget = b
  BY <1>3, <1>4, <1>5, <1>7 DEF RunStates
<1> HIDE DEF R
<1>9. run' \in RunStates /\ run'.budget = b
  BY <1>2, <1>8, NextRoundType
<1>10. RunOK'
  BY <1>1, <1>2, <1>4, <1>9, RoundOpens
<1>11. QED
  BY <1>1, <1>2, <1>6, <1>10, WorldSame DEF IInv

(* Discharging the CI obligation keeps the invariant.                      *)
LEMMA FinalizeOK ==
  ASSUME IInv, Finalize
  PROVE  IInv'
<1> DEFINE L == ClearCi(run.led)
<1>1. pc = "passed" /\ pc' = "merge" /\ UNCHANGED <<github, log, runs, seen, known>>
      /\ run' = [run EXCEPT !.led = L]
  BY DEF Finalize
<1>2. L \in Ledgers
  BY RunTypes DEF IInv, ClearCi, NoCi, Ledgers, CiItems, Lifecycles
<1> HIDE DEF L
<1>3. QED
  BY <1>1, <1>2, LedgerStepOK DEF PCs

(* The merge keeps the invariant.                                          *)
LEMMA MergeOK ==
  ASSUME IInv, Merge
  PROVE  IInv'
<1>1. WorldOK' /\ LogOK'
  BY DEF IInv, WorldOK, LogOK, Merge
<1>2. RunOK'
  BY IdleOK, MaxReqsAssumption DEF IInv, RunOK, Merge, PCs
<1>3. QED
  BY <1>1, <1>2 DEF IInv

-----------------------------------------------------------------------------
(* The coder turn *)

(* The coder is only reached with a further round to review its work.      *)
LEMMA PersistRepairOK ==
  ASSUME IInv, PersistRepair
  PROVE  IInv'
<1> DEFINE life == run.led.ci.life
           cks == Checkpoint(run.led, life, run.budget, known, QualifyingNames)
           from == IF HasConflict(run.led) THEN seen ELSE NoHead
<1>1. WorldOK /\ LogOK /\ RunOK
  BY DEF IInv
<1>2. /\ pc = "blocked" /\ pc' = "dispatch" /\ run.round # run.budget.allowed
      /\ UNCHANGED <<github, runs, seen, known>>
      /\ PostCheckpoint(seen, run.round + 1, run.led, cks)
      /\ run' = [run EXCEPT !.ck = cks, !.conflictFrom = from]
  BY DEF PersistRepair
<1>3. /\ seen \in Heads /\ run.round + 1 \in Nat /\ life \in Lifecycles /\ run.led \in Ledgers
      /\ known \in -1 .. MaxReqs /\ run.budget \in Budgets /\ SoundBudget(run.budget)
      /\ from \in Heads \cup {NoHead}
  BY <1>1, <1>2, RunTypes, MaxReqsAssumption DEF RunOK, Ledgers, CiItems
<1> HIDE DEF life, from
<1>4. cks \in SUBSET Checkpoints /\ \A c \in cks : SoundBudget(c.budget)
  BY <1>1, <1>3, QualifyingNamesType, CheckpointOK
<1> HIDE DEF cks
<1>5. LogOK'
  BY <1>1, <1>2, <1>3, <1>4, PostCheckpointOK
<1>6. run' \in RunStates /\ run'.round = run.round /\ run'.budget = run.budget
  BY <1>1, <1>2, <1>3, <1>4 DEF RunOK, RunStates
<1>7. run.round + 1 <= run.budget.allowed
  <2>1. run.round <= run.budget.allowed /\ run.round \in Nat /\ run.budget.allowed \in Nat
    BY <1>1, <1>2, RunTypes DEF RunOK, Budgets
  <2> QED BY <1>2, <2>1
<1>8. RunOK'
  BY <1>1, <1>2, <1>6, <1>7 DEF RunOK, PCs
<1>9. QED
  BY <1>1, <1>2, <1>5, <1>8, WorldSame DEF IInv

(* The round a coder turn opens is one of the allowed rounds.              *)
LEMMA NextRoundBound ==
  ASSUME RunOK, pc \in {"dispatch", "coding", "coded"}
  PROVE  run.round + 1 \in Nat /\ run.round + 1 >= 1 /\ run.round + 1 <= MaxRounds + 2
<1>1. run.round + 1 <= run.budget.allowed /\ run.budget \in Budgets /\ SoundBudget(run.budget)
  BY RunTypes DEF RunOK
<1>2. run.budget.allowed <= MaxRounds + 2 /\ run.budget.allowed \in Nat /\ run.round \in Nat
  BY <1>1, SoundBound, RunTypes DEF Budgets
<1>3. QED
  BY <1>1, <1>2, MaxRoundsAssumption

(* Dispatching the coder keeps the invariant: the dispatch announces an    *)
(* allowed round and counts an allowed attempt.                            *)
LEMMA DispatchOK ==
  ASSUME IInv, Dispatch
  PROVE  IInv'
<1> DEFINE n == run.res.attempt + 1
           k == run.round + 1
           b == {run.budget}
           R == Record("dispatch", seen, k, run.led)
           Q == [R EXCEPT !.attempt = n, !.budget = b]
           N == [run.now EXCEPT !.dispatched = n]
<1>1. WorldOK /\ LogOK /\ RunOK
  BY DEF IInv
<1>2. /\ pc = "dispatch" /\ pc' = "coding" /\ UNCHANGED <<github, runs, seen, known>>
      /\ Post(Q) /\ run' = [run EXCEPT !.now.dispatched = n]
  BY DEF Dispatch
<1>3. n \in 0 .. MaxAttempts
  BY <1>1, RunTypes DEF Resumptions, MaxAttempts
<1>4. k \in Nat /\ k >= 1 /\ k <= MaxRounds + 2
  BY <1>1, <1>2, NextRoundBound
<1>5. b \in SUBSET Budgets /\ \A x \in b : SoundBudget(x)
  BY <1>1, RunTypes DEF RunOK
<1>6. R \in Records /\ R.kind = "dispatch" /\ R.ck = {} /\ R.round = k
  <2>1. "dispatch" \in Kinds /\ seen \in Heads
    BY <1>1, <1>2 DEF Kinds, RunOK
  <2> QED BY <1>1, <1>4, <2>1, RecordType, RunTypes
<1> HIDE DEF n, k, b, R
<1>7. Q \in Records /\ Q.kind = "dispatch" /\ Q.ck = {} /\ Q.round = k /\ Q.budget = b
  BY <1>3, <1>5, <1>6 DEF Records
<1> HIDE DEF Q
<1>8. Q \in GoodRecords
  BY <1>4, <1>5, <1>7 DEF GoodRecords, RecordWithinBudget
<1>9. LogOK'
  BY <1>1, <1>2, <1>8, PostGood
<1>10. run' = [run EXCEPT !.now = N]
  BY <1>1, <1>2 DEF RunOK, RunStates, RoundStates
<1>11. N \in RoundStates
  BY <1>1, <1>3, RunTypes DEF RoundStates
<1> HIDE DEF N
<1>12. run' \in RunStates /\ run'.round = run.round /\ run'.budget = run.budget
  BY <1>1, <1>10, <1>11 DEF RunOK, RunStates
<1>13. RunOK'
  BY <1>1, <1>2, <1>12 DEF RunOK, PCs
<1>14. QED
  BY <1>1, <1>2, <1>9, <1>13, WorldSame DEF IInv

(* The turn itself, with a push or without, keeps it.                      *)
LEMMA CoderTurnOK ==
  ASSUME IInv, CoderPush \/ CoderKeepsHead
  PROVE  IInv'
<1>1. WorldOK /\ LogOK /\ RunOK
  BY DEF IInv
<1>2. pc = "coding" /\ pc' = "coded" /\ UNCHANGED <<log, runs, seen, known, run>>
  BY DEF CoderPush, CoderKeepsHead
<1>3. WorldOK'
  BY <1>1, PushOK, WorldSame DEF CoderPush, CoderKeepsHead
<1>4. RunOK'
  BY <1>1, <1>2 DEF RunOK, PCs
<1>5. QED
  BY <1>1, <1>2, <1>3, <1>4, LogSame DEF IInv

(* An accepted turn keeps it: it is recorded in the round that it opens.   *)
LEMMA CoderAcceptedOK ==
  ASSUME IInv, CoderAccepted
  PROVE  IInv'
<1> DEFINE L == AdvanceForHead(run.led, head)
           life == L.ci.life
           cks == Checkpoint(L, life, run.budget, known, {})
           count == IF head # seen THEN 0 ELSE IF run.same = seen THEN run.count + 1 ELSE 1
           k == run.round + 1
           prev == IF Selective THEN seen ELSE NoHead
           f == run.force
           x == Selective /\ run.now.ext
           sw == run.sweep \/ x
           same == IF count = 0 THEN NoHead ELSE seen
           R == Record("coder", head, k, L)
           Q == [R EXCEPT !.ck = cks, !.prev = prev, !.force = f, !.external = x]
           E == [run EXCEPT !.led = L, !.ck = cks, !.sweep = sw, !.same = same, !.count = count]
<1>1. WorldOK /\ LogOK /\ RunOK
  BY DEF IInv
<1>2. pc = "coded" /\ UNCHANGED <<github, runs>> /\ Post(Q)
  BY DEF CoderAccepted
<1>3. \/ pc' = "off" /\ seen' = NoHead /\ known' = 0 /\ run' = Idle
      \/ pc' = "round" /\ seen' = head /\ known' = reqs /\ run' = NextRound(E)
  BY DEF CoderAccepted
<1>4. head \in Heads /\ seen \in Heads /\ run \in RunStates
  BY <1>1, <1>2 DEF WorldOK, RunOK
<1>5. L \in Ledgers /\ life \in Lifecycles
  <2>1. L \in Ledgers
    BY <1>1, <1>4, RunTypes, AdvanceType
  <2> HIDE DEF L
  <2> QED BY <2>1 DEF Ledgers, CiItems
<1> HIDE DEF L
<1> HIDE DEF life
<1>6. k \in Nat /\ k <= MaxRounds + 2
  BY <1>1, <1>2, NextRoundBound
<1>7. cks \in SUBSET Checkpoints /\ \A c \in cks : SoundBudget(c.budget)
  <2>1. known \in -1 .. MaxReqs /\ run.budget \in Budgets /\ SoundBudget(run.budget)
        /\ {} \in SUBSET Reviewers
    BY <1>1, RunTypes, MaxReqsAssumption DEF RunOK
  <2> QED BY <1>5, <2>1, CheckpointOK
<1>8. /\ prev \in Heads \cup {NoHead} /\ f \in BOOLEAN /\ x \in BOOLEAN /\ sw \in BOOLEAN
      /\ same \in Heads \cup {NoHead} /\ count \in Nat
  BY <1>1, <1>4, RunTypes DEF RunStates
<1>9. R \in Records /\ R.kind = "coder" /\ R.budget = {} /\ R.round = k
  <2>1. "coder" \in Kinds
    BY DEF Kinds
  <2> QED BY <1>4, <1>5, <1>6, <2>1, RecordType
<1> HIDE DEF cks, k, prev, f, x, sw, same, count, R
<1>10. Q \in Records /\ Q.kind = "coder" /\ Q.budget = {} /\ Q.round = k /\ Q.ck = cks
  <2> DEFINE R1 == [R EXCEPT !.ck = cks, !.prev = prev]
  <2>1. R1 \in Records /\ R1.kind = "coder" /\ R1.budget = {} /\ R1.round = k /\ R1.ck = cks
    BY <1>7, <1>8, <1>9 DEF Records
  <2>2. Q = [R1 EXCEPT !.force = f, !.external = x]
    BY DEF R1
  <2> HIDE DEF R1
  <2> QED BY <2>1, <2>2, <1>8 DEF Records
<1> HIDE DEF Q
<1>11. Q \in GoodRecords
  BY <1>6, <1>7, <1>10 DEF GoodRecords, RecordWithinBudget
<1>12. LogOK'
  BY <1>1, <1>2, <1>11, PostGood
<1>13. E \in RunStates /\ E.budget = run.budget
  <2> DEFINE R1 == [run EXCEPT !.led = L, !.ck = cks, !.sweep = sw]
  <2>1. R1 \in RunStates /\ R1.budget = run.budget
    BY <1>4, <1>5, <1>7, <1>8 DEF RunStates
  <2>2. E = [R1 EXCEPT !.same = same, !.count = count]
    BY DEF R1
  <2> HIDE DEF R1
  <2> QED BY <2>1, <2>2, <1>8 DEF RunStates
<1> HIDE DEF E
<1>14. CASE pc' = "off" /\ seen' = NoHead /\ known' = 0 /\ run' = Idle
  <2>1. RunOK'
    BY <1>1, <1>2, <1>14, IdleOK, MaxReqsAssumption DEF RunOK, PCs
  <2> QED BY <1>1, <1>2, <1>12, <2>1, WorldSame DEF IInv
<1>15. CASE pc' = "round" /\ seen' = head /\ known' = reqs /\ run' = NextRound(E)
  <2>1. run' \in RunStates /\ run'.budget = run.budget
    BY <1>13, <1>15, NextRoundType
  <2>2. RunOK'
    BY <1>1, <1>2, <1>15, <2>1, RoundOpens DEF RunOK
  <2> QED BY <1>1, <1>2, <1>12, <2>2, WorldSame DEF IInv
<1>16. QED
  BY <1>3, <1>14, <1>15

(* A rejected turn keeps it.                                               *)
LEMMA CoderRejectedOK ==
  ASSUME IInv, CoderRejected
  PROVE  IInv'
<1> DEFINE n == run.now.dispatched
           b == {run.budget}
           R == Record("rejected", head, run.round, run.led)
           Q == [R EXCEPT !.attempt = n, !.budget = b]
<1>1. WorldOK /\ LogOK /\ RunOK
  BY DEF IInv
<1>2. ((UNCHANGED log) \/ Post(Q)) /\ Halt
  BY DEF CoderRejected
<1>3. n \in 0 .. MaxAttempts
  BY <1>1, RunTypes DEF RoundStates
<1>4. b \in SUBSET Budgets /\ \A x \in b : SoundBudget(x)
  BY <1>1, RunTypes DEF RunOK
<1>5. R \in Records /\ R.kind = "rejected" /\ R.ck = {}
  <2>1. "rejected" \in Kinds /\ head \in Heads
    BY <1>1 DEF Kinds, WorldOK
  <2> QED BY <1>1, <2>1, RecordType, RunTypes
<1> HIDE DEF n, b, R
<1>6. Q \in Records /\ Q.kind = "rejected" /\ Q.ck = {} /\ Q.budget = b
  BY <1>3, <1>4, <1>5 DEF Records
<1> HIDE DEF Q
<1>7. Q \in GoodRecords
  BY <1>4, <1>6 DEF GoodRecords, RecordWithinBudget
<1>8. LogOK'
  BY <1>1, <1>2, <1>7, PostGood, LogSame
<1>9. QED
  BY <1>1, <1>2, <1>8, HaltOK DEF IInv

-----------------------------------------------------------------------------
(* The theorems *)

(* Every step keeps the invariant.                                         *)
LEMMA StepOK ==
  ASSUME IInv, [Next]_vars
  PROVE  IInv'
<1>1. CASE Environment
  BY <1>1, EnvironmentOK
<1>2. CASE Start
  BY <1>2, StartOK
<1>3. CASE StartRefused
  <2>1. WorldOK /\ LogOK /\ RunOK
    BY DEF IInv
  <2>2. RunOK'
    BY <2>1, <1>3 DEF RunOK, StartRefused
  <2> QED BY <1>3, <2>1, <2>2, WorldSame, LogSame DEF IInv, StartRefused
<1>4. CASE \/ RoundLimit \/ StopIncomplete \/ GateStop \/ WatchTimeout \/ WatchInfraStop
           \/ MergeRefused \/ BlockedStop
  BY <1>4, StopOK DEF RoundLimit, StopIncomplete, GateStop, WatchTimeout, WatchInfraStop,
    MergeRefused, BlockedStop
<1>5. CASE PostHeadReview \/ BeginRound
  BY <1>5, PostHeadReviewOK, BeginRoundOK
<1>6. CASE \E r \in Reviewers : ReviewTurn(r) \/ ReviewTurnFails(r)
  BY <1>6, ReviewTurnOK, ReviewTurnFailsOK
<1>7. CASE Reconcile \/ SettleRound \/ GatePass \/ Snapshot
  BY <1>7, ReconcileOK, SettleRoundOK, GatePassOK, SnapshotOK
<1>8. CASE GateRestart \/ GateSweep \/ PassedRestart \/ PassedSweep
  BY <1>8, RestartOnLiveHeadOK, SweepNextRoundOK
    DEF GateRestart, GateSweep, PassedRestart, PassedSweep
<1>9. CASE EnterWatch \/ WatchPending \/ WatchPassed \/ WatchConflict \/ WatchFailed
  BY <1>9, EnterWatchOK, WatchPollOK, WatchConflictOK, WatchFailedOK
<1>10. CASE WatchRerun \/ WatchHeadChanged \/ Finalize \/ Merge
  BY <1>10, WatchRerunOK, WatchHeadChangedOK, FinalizeOK, MergeOK
<1>11. CASE PersistRepair \/ Dispatch \/ CoderPush \/ CoderKeepsHead
  BY <1>11, PersistRepairOK, DispatchOK, CoderTurnOK
<1>12. CASE CoderAccepted \/ CoderRejected
  BY <1>12, CoderAcceptedOK, CoderRejectedOK
<1>13. CASE UNCHANGED vars
  BY <1>13, WorldSame, LogSame, RunSame DEF IInv, vars
<1>14. QED
  BY <1>1, <1>2, <1>3, <1>4, <1>5, <1>6, <1>7, <1>8, <1>9, <1>10, <1>11, <1>12, <1>13, Zenon
    DEF Next, Step

(* The inductive invariant: types, the round within the budget, and a log  *)
(* all of whose records are typed and carry sound budgets.                 *)
THEOREM Invariance == SafetySpec => []IInv
<1>1. Init => IInv
  BY InitOK
<1>2. IInv /\ [Next]_vars => IInv'
  BY StepOK
<1>3. QED
  BY <1>1, <1>2, PTL DEF SafetySpec

(* Type correctness of the loop and of everything it ever posts.           *)
THEOREM Typing == SafetySpec => []TypeOK
<1>1. IInv => TypeOK
  BY WellFormedLog DEF IInv, WorldOK, RunOK, TypeOK
<1>2. QED
  BY <1>1, Invariance, PTL

(* The round limit moves only by the two one-shot extensions, across any   *)
(* number of crashes and restarts, and no reviewer or coder turn is        *)
(* started beyond it (RecoveryRoundBudget of                               *)
(* qualification_checkpoint.py).                                           *)
THEOREM BudgetSafety == SafetySpec => []RoundsWithinBudget
<1>1. IInv => RoundsWithinBudget
  <2> SUFFICES ASSUME IInv PROVE RoundsWithinBudget
    OBVIOUS
  <2>1. \A i \in DOMAIN log : log[i] \in GoodRecords
    BY DEF IInv, LogOK
  <2>2. \A i \in DOMAIN log : RecordWithinBudget(log[i])
    BY <2>1 DEF GoodRecords
  <2> QED BY <2>2, Zenon DEF IInv, RunOK, RoundsWithinBudget, RecordWithinBudget
<1>2. QED
  BY <1>1, Invariance, PTL

-----------------------------------------------------------------------------
(* The CI obligation                                                       *)

Requalifying == {"gate", "probe", "enter", "watch", "passed"}

(* From the settlement to the merge.                                       *)
BoundToSeen == pc \in Requalifying /\ HasCi(run.led) => CiIsCandidate(run.led, seen)
GreenAtMerge == pc \in {"passed", "merge"} => ci[seen] = "passing"
MergedGreen == \A h \in merged : ci[h] = "passing"

CiInv == BoundToSeen /\ GreenAtMerge /\ MergedGreen

-----------------------------------------------------------------------------
(* Lemmas *)

(* The obligation's binding does not depend on its progress.               *)
LEMMA LifeKeepsBinding ==
  ASSUME NEW L \in Ledgers, NEW h \in Heads, NEW life \in {"ready", "qualifying"},
         HasCi(L) => CiIsCandidate(L, h)
  PROVE  HasCi(SetLife(L, life)) => CiIsCandidate(SetLife(L, life), h)
<1>1. CASE HasCi(L)
  <2>1. CiIsCandidate(L, h) /\ SetLife(L, life) = [L EXCEPT !.ci.life = life]
    BY <1>1 DEF SetLife
  <2>2. [L EXCEPT !.ci.life = life].ci = [L.ci EXCEPT !.life = life]
    BY DEF Ledgers, CiItems
  <2>3. /\ [L.ci EXCEPT !.life = life].life = life
        /\ [L.ci EXCEPT !.life = life].cand = L.ci.cand
        /\ [L.ci EXCEPT !.life = life].failed = L.ci.failed
    BY DEF Ledgers, CiItems
  <2> QED BY <2>1, <2>2, <2>3 DEF CiIsCandidate
<1>2. CASE ~HasCi(L)
  <2>1. SetLife(L, life) = [L EXCEPT !.ci.life = "none"]
    BY <1>2 DEF SetLife
  <2>2. [L EXCEPT !.ci.life = "none"].ci.life = "none"
    BY DEF Ledgers, CiItems
  <2> QED BY <2>1, <2>2 DEF HasCi
<1>3. QED
  BY <1>1, <1>2

(* What a step may do to the requalification: begin or go on with it, or   *)
(* leave it.  Only a merge merges, and only three steps change a board.    *)
LEMMA StepCases ==
  ASSUME [Next]_vars
  PROVE  /\ \/ pc' \notin Requalifying \cup {"merge"}
            \/ UNCHANGED <<pc, seen, run>>
            \/ SettleRound \/ GatePass \/ Snapshot \/ EnterWatch
            \/ WatchPending \/ WatchPassed \/ WatchRerun \/ Finalize
         /\ Merge \/ UNCHANGED merged
         /\ CiReports \/ RerunFailed \/ WatchRerun \/ UNCHANGED ci
<1>1. CASE Environment
  BY <1>1 DEF Environment, HumanPush, Push, PostRequirement, CiReports, RerunFailed, BaseMoves,
    Crash, Stop, Halt, github, Requalifying
<1>2. CASE BeginRound
  <2>1. PICK probe \in Probe, narrow \in BOOLEAN :
          \/ Stop
          \/ Plan(probe, narrow).shut /\ RollOver(Plan(probe, narrow))
          \/ Launch(Plan(probe, narrow))
    BY <1>2, BeginRoundCases
  <2>2. pc' \in {"off", "round", "review"} /\ UNCHANGED github
    BY <2>1 DEF Stop, Halt, RollOver, Launch
  <2> QED BY <2>2 DEF github, Requalifying
<1>3. CASE \/ RoundLimit \/ StopIncomplete \/ GateStop \/ WatchTimeout \/ WatchInfraStop
           \/ MergeRefused \/ BlockedStop \/ CoderRejected
  <2>1. Halt
    BY <1>3 DEF RoundLimit, StopIncomplete, GateStop, WatchTimeout, WatchInfraStop, MergeRefused,
      BlockedStop, CoderRejected, Stop
  <2> QED BY <2>1 DEF Halt, github, Requalifying
<1>4. CASE GateRestart \/ GateSweep \/ PassedRestart \/ PassedSweep \/ WatchHeadChanged
  <2>1. pc' = "round" /\ UNCHANGED github
    BY <1>4 DEF GateRestart, GateSweep, PassedRestart, PassedSweep, WatchHeadChanged,
      RestartOnLiveHead, SweepNextRound
  <2> QED BY <2>1 DEF github, Requalifying
<1>5. CASE \/ Start \/ StartRefused \/ PostHeadReview \/ Reconcile
           \/ \E r \in Reviewers : ReviewTurn(r) \/ ReviewTurnFails(r)
  <2>1. (pc' \in {"handoff", "round", "review", "settle"} \/ UNCHANGED <<pc, seen, run>>)
        /\ UNCHANGED github
    BY <1>5, Zenon DEF Start, StartFrom, StartRefused, PostHeadReview, Reconcile, ReviewTurn, ReviewTurnFails
  <2> QED BY <2>1 DEF github, Requalifying
<1>6. CASE \/ WatchConflict \/ WatchFailed \/ PersistRepair \/ Dispatch \/ CoderPush
           \/ CoderKeepsHead \/ CoderAccepted \/ Merge
  <2>1. pc' \in {"blocked", "dispatch", "coding", "coded", "round", "off"}
    BY <1>6, Zenon DEF WatchConflict, WatchFailed, PersistRepair, Dispatch, CoderPush,
      CoderKeepsHead, CoderAccepted, Merge
  <2>2. UNCHANGED ci /\ (Merge \/ UNCHANGED merged)
    BY <1>6, Zenon DEF WatchConflict, WatchFailed, PersistRepair, Dispatch, CoderPush, Push,
      CoderKeepsHead, CoderAccepted, Merge, github
  <2> QED BY <2>1, <2>2 DEF Requalifying
<1>7. CASE \/ SettleRound \/ GatePass \/ Snapshot \/ EnterWatch \/ WatchPending
           \/ WatchPassed \/ WatchRerun \/ Finalize
  <2>1. UNCHANGED merged /\ (WatchRerun \/ UNCHANGED ci)
    BY <1>7, Zenon DEF SettleRound, GatePass, Snapshot, EnterWatch, WatchPending, WatchPassed,
      WatchRerun, Finalize, github
  <2> QED BY <1>7, <2>1
<1>8. CASE UNCHANGED vars
  BY <1>8 DEF vars, github
<1>9. QED
  BY <1>1, <1>2, <1>3, <1>4, <1>5, <1>6, <1>7, <1>8, Zenon DEF Next, Step

(* A board that has passed is never taken back.                            *)
LEMMA PassedStays ==
  ASSUME IInv, [Next]_vars, NEW h \in Heads, ci[h] = "passing"
  PROVE  ci'[h] = "passing"
<1>1. ci \in [Heads -> {"pending", "passing", "failing", "plumbing"}]
  BY DEF IInv, WorldOK
<1>2. CASE CiReports
  BY <1>1, <1>2 DEF CiReports
<1>3. CASE RerunFailed
  BY <1>1, <1>3 DEF RerunFailed
<1>4. CASE WatchRerun
  BY <1>1, <1>4 DEF WatchRerun
<1>5. CASE UNCHANGED ci
  BY <1>5
<1>6. QED
  BY <1>2, <1>3, <1>4, <1>5, StepCases

-----------------------------------------------------------------------------
(* The invariant *)

(* Every step keeps the obligation bound to the head under work.           *)
LEMMA BindingKept ==
  ASSUME IInv, CiInv, [Next]_vars
  PROVE  BoundToSeen'
<1>1. run.led \in Ledgers /\ run \in RunStates
  BY RunTypes DEF IInv, RunOK
<1>2. CASE pc' \notin Requalifying \cup {"merge"}
  BY <1>2 DEF BoundToSeen
<1>3. CASE UNCHANGED <<pc, seen, run>>
  BY <1>3 DEF CiInv, BoundToSeen
<1>4. CASE SettleRound
  <2> DEFINE L == Settle(Selective, run.led, run.now.tally)
  <2>1. pc' = (IF CoderBlocked(L, seen) THEN "blocked" ELSE "gate") /\ seen' = seen
        /\ run' = [run EXCEPT !.led = L]
    BY <1>4 DEF SettleRound
  <2> HIDE DEF L
  <2>2. run'.led = L
    BY <1>1, <2>1 DEF RunStates
  <2>3. CoderBlocked(L, seen) => BoundToSeen'
    BY <2>1 DEF BoundToSeen, Requalifying
  <2>4. ~CoderBlocked(L, seen) => (HasCi(L) => CiIsCandidate(L, seen))
    BY DEF CoderBlocked
  <2> QED BY <2>1, <2>2, <2>3, <2>4 DEF BoundToSeen
<1>5. CASE GatePass
  <2> DEFINE L == IF CiIsCandidate(run.led, seen) THEN SetLife(run.led, "ready") ELSE run.led
  <2>1. pc = "gate" /\ seen' = seen /\ run' = [run EXCEPT !.led = L] /\ seen \in Heads
    BY <1>5 DEF GatePass, IInv, RunOK
  <2>2. HasCi(run.led) => CiIsCandidate(run.led, seen)
    BY <2>1 DEF CiInv, BoundToSeen, Requalifying
  <2>3. HasCi(L) => CiIsCandidate(L, seen)
    BY <1>1, <2>1, <2>2, LifeKeepsBinding
  <2> HIDE DEF L
  <2>4. run'.led = L
    BY <1>1, <2>1 DEF RunStates
  <2> QED BY <2>1, <2>3, <2>4 DEF BoundToSeen
<1>6. CASE Snapshot
  <2>1. PICK probe \in Probe :
          LET L == ReconcileConflict(run.led, probe, head, seen)
              failed == ~HasConflict(L) /\ ci[seen] = "failing"
          IN  /\ run' = [run EXCEPT !.led = IF failed THEN UpsertCi(L, seen) ELSE L]
              /\ pc' = IF HasConflict(L) \/ failed THEN "blocked" ELSE "enter"
    BY <1>6 DEF Snapshot
  <2> DEFINE L == ReconcileConflict(run.led, probe, head, seen)
             failed == ~HasConflict(L) /\ ci[seen] = "failing"
  <2>2. pc = "probe" /\ seen' = seen
    BY <1>6 DEF Snapshot
  <2>3. HasCi(run.led) => CiIsCandidate(run.led, seen)
    BY <2>2 DEF CiInv, BoundToSeen, Requalifying
  <2>4. L.ci = run.led.ci
    BY <1>1 DEF ReconcileConflict, Ledgers
  <2>5. HasCi(L) => CiIsCandidate(L, seen)
    BY <2>3, <2>4 DEF HasCi, CiIsCandidate
  <2>6. (pc' = "blocked") \/ (pc' = "enter" /\ run' = [run EXCEPT !.led = L])
    BY <2>1
  <2> HIDE DEF L
  <2>7. CASE pc' = "blocked"
    BY <2>7 DEF BoundToSeen, Requalifying
  <2>8. CASE run' = [run EXCEPT !.led = L]
    <3>1. run'.led = L
      BY <1>1, <2>8 DEF RunStates
    <3> QED BY <2>2, <2>5, <3>1 DEF BoundToSeen
  <2> QED BY <2>6, <2>7, <2>8
<1>7. CASE EnterWatch
  <2> DEFINE L == SetLife(run.led, "qualifying")
             cks == Checkpoint(L, "qualifying", run.budget, known, QualifyingNames)
  <2>1. pc = "enter" /\ seen' = seen /\ run' = [run EXCEPT !.led = L, !.ck = cks] /\ seen \in Heads
    BY <1>7 DEF EnterWatch, IInv, RunOK
  <2>2. HasCi(run.led) => CiIsCandidate(run.led, seen)
    BY <2>1 DEF CiInv, BoundToSeen, Requalifying
  <2>3. HasCi(L) => CiIsCandidate(L, seen)
    BY <1>1, <2>1, <2>2, LifeKeepsBinding
  <2> HIDE DEF L, cks
  <2>4. run'.led = L
    BY <1>1, <2>1 DEF RunStates
  <2> QED BY <2>1, <2>3, <2>4 DEF BoundToSeen
<1>8. CASE WatchPending \/ WatchPassed \/ WatchRerun
  <2>1. pc = "watch" /\ seen' = seen /\ run.polls > 0
        /\ (run' = Polled \/ run' = [Polled EXCEPT !.rerun = run.rerun \cup {seen}])
    <3>1. CASE WatchRerun
      BY <3>1, PolledType DEF WatchRerun, Polling, IInv
    <3> QED BY <1>8, <3>1 DEF WatchPending, WatchPassed, Polling
  <2>2. Polled \in RunStates /\ Polled.led = run.led
    BY <2>1, PolledType DEF IInv
  <2>3. run'.led = run.led
    BY <2>1, <2>2 DEF RunStates
  <2> QED BY <2>1, <2>3 DEF CiInv, BoundToSeen, Requalifying
<1>9. CASE Finalize
  BY <1>9 DEF Finalize, BoundToSeen, Requalifying
<1>10. QED
  BY <1>2, <1>3, <1>4, <1>5, <1>6, <1>7, <1>8, <1>9, StepCases

(* Every step keeps the checks of a head about to be merged passed.        *)
LEMMA GreenKept ==
  ASSUME IInv, CiInv, [Next]_vars
  PROVE  GreenAtMerge'
<1>1. CASE pc' \notin {"passed", "merge"}
  BY <1>1 DEF GreenAtMerge
<1>2. CASE UNCHANGED <<pc, seen, run>> /\ pc' \in {"passed", "merge"}
  <2>1. seen \in Heads /\ ci[seen] = "passing"
    BY <1>2 DEF IInv, RunOK, CiInv, GreenAtMerge
  <2> QED BY <1>2, <2>1, PassedStays DEF GreenAtMerge
<1>3. CASE WatchPassed
  BY <1>3 DEF WatchPassed, GreenAtMerge, github
<1>4. CASE Finalize
  BY <1>4 DEF Finalize, GreenAtMerge, github, CiInv
<1>5. CASE SettleRound \/ GatePass \/ Snapshot \/ EnterWatch \/ WatchPending \/ WatchRerun
  <2>1. pc' \notin {"passed", "merge"}
    BY <1>5 DEF SettleRound, GatePass, Snapshot, EnterWatch, WatchPending, WatchRerun, Polling
  <2> QED BY <2>1 DEF GreenAtMerge
<1>6. QED
  BY <1>1, <1>2, <1>3, <1>4, <1>5, StepCases DEF Requalifying

(* Every step keeps the checks of the merged head passed.                  *)
LEMMA MergedGreenKept ==
  ASSUME IInv, CiInv, [Next]_vars
  PROVE  MergedGreen'
<1>1. merged \subseteq Heads
  BY DEF IInv, WorldOK
<1>2. CASE UNCHANGED merged
  BY <1>1, <1>2, PassedStays DEF CiInv, MergedGreen
<1>3. CASE Merge
  BY <1>3 DEF Merge, CiInv, GreenAtMerge, MergedGreen
<1>4. QED
  BY <1>2, <1>3, StepCases

(* The loop qualifies only a repaired head, and merges only a head whose   *)
(* own checks have passed (unresolved_items.py:                            *)
(* _advance_machine_obligations_for_head; the pre-coder partition).        *)
THEOREM Requalification == SafetySpec => []OnlyARepairRequalifies
<1>1. Init => CiInv
  BY DEF Init, CiInv, BoundToSeen, GreenAtMerge, MergedGreen, Requalifying
<1>2. IInv /\ CiInv /\ [Next]_vars => CiInv'
  BY BindingKept, GreenKept, MergedGreenKept DEF CiInv
<1>3. CiInv => OnlyARepairRequalifies
  BY DEF CiInv, BoundToSeen, MergedGreen, OnlyARepairRequalifies, CiIsCandidate, Requalifying
<1>4. QED
  BY <1>1, <1>2, <1>3, Invariance, PTL DEF SafetySpec

-----------------------------------------------------------------------------
(* What the records say of an approval *)

(* A vote of a reviewer is recorded on head h when a review of exactly     *)
(* that head carries it and surfaced the first k signed requirements.      *)
RecordedOn(lg, r, v, h, k) ==
  \E i \in DOMAIN lg :
    /\ lg[i].kind = "review" /\ lg[i].head = h /\ lg[i].saw = k
    /\ lg[i].tally[r] = v

(* The signed requirements of a review were known when it was posted, and  *)
(* later reviews surface no fewer of them.                                 *)
SurfacedInOrder ==
  /\ known <= reqs
  /\ \A i \in DOMAIN log : log[i].saw <= reqs
  /\ pc # "off" => \A i \in DOMAIN log : log[i].saw <= known
  /\ \A i, j \in DOMAIN log :
       i < j /\ log[i].kind = "review" /\ log[j].kind = "review" => log[i].saw <= log[j].saw

(* A vote that a run reuses or counts, and an approval that spares a       *)
(* reviewer its turn, is recorded on the head of the round.                *)
VotesAreRecorded ==
  /\ pc # "off" =>
       \A r \in Reviewers : run.res.done[r].voted =>
         RecordedOn(log, r, run.res.done[r], seen, known)
  /\ pc \notin {"off", "handoff", "round"} =>
       /\ \A r \in Reviewers : run.now.tally[r].voted =>
            RecordedOn(log, r, run.now.tally[r], seen, known)
       /\ \A r \in run.now.appr : RecordedOn(log, r, Vote({}), seen, known)

(* Past the gate every reviewer qualifies the head.                        *)
GateHolds ==
  Selective /\ pc \in {"probe", "enter", "watch", "passed", "merge"} =>
    QualifyingNames = Reviewers

(* A merged head has a recorded approval of every reviewer.                *)
ApprovedByAll ==
  Selective => \A h \in merged : \E k \in 0 .. MaxReqs : \A r \in Reviewers :
    RecordedOn(log, r, Vote({}), h, k)

(* A secondary is asked only after an opening of the panel was posted.     *)
PanelIsOpen ==
  Staged /\ pc = "review" /\ run.now.todo \cap Secondaries # {} => PostedOpenings(log) # {}

Backed == IInv /\ SurfacedInOrder /\ VotesAreRecorded /\ GateHolds /\ ApprovedByAll

-----------------------------------------------------------------------------
(* How a step may change the records *)

(* The log stays, or one record that is no review is posted.               *)
NoReview ==
  log' = log \/ \E x : log' = Append(log, x) /\ x.kind # "review" /\ x.saw = 0

(* A record as Record builds it surfaces nothing by itself.                *)
LEMMA PlainRecord ==
  ASSUME NEW kind, NEW h, NEW n, NEW L
  PROVE  Record(kind, h, n, L).kind = kind /\ Record(kind, h, n, L).saw = 0
         /\ Record(kind, h, n, L).head = h
  BY DEF Record

(* What is on record stays there.                                          *)
LEMMA StaysRecorded ==
  ASSUME LogOK, NEW r, NEW v, NEW h, NEW k, RecordedOn(log, r, v, h, k),
         log' = log \/ \E x : log' = Append(log, x)
  PROVE  RecordedOn(log', r, v, h, k)
<1>1. PICK i \in DOMAIN log : /\ log[i].kind = "review" /\ log[i].head = h /\ log[i].saw = k
                              /\ log[i].tally[r] = v
  BY DEF RecordedOn
<1>2. log \in Seq(GoodRecords)
  BY DEF LogOK
<1>3. i \in DOMAIN log' /\ log'[i] = log[i]
  BY <1>1, <1>2
<1> QED BY <1>1, <1>3 DEF RecordedOn

(* A record that is no review disturbs no order of the reviews.            *)
LEMMA StaysInOrder ==
  ASSUME LogOK, SurfacedInOrder, NoReview, known \in Nat, reqs \in Nat, reqs' \in Nat, known' \in Nat,
         reqs' >= reqs, known' <= reqs',
         pc' # "off" => known' = reqs' \/ (pc # "off" /\ known' = known)
  PROVE  SurfacedInOrder'
<1>1. log \in Seq(GoodRecords)
  BY DEF LogOK
<1>2. \A i \in DOMAIN log : log[i].saw \in Nat
  BY <1>1 DEF GoodRecords, Records
<1>3. \A i \in DOMAIN log : log[i].saw <= reqs /\ log[i].saw <= reqs'
  BY <1>2 DEF SurfacedInOrder
<1>4. CASE log' = log
  BY <1>3, <1>4 DEF SurfacedInOrder
<1>5. CASE \E x : log' = Append(log, x) /\ x.kind # "review" /\ x.saw = 0
  <2>1. PICK x : log' = Append(log, x) /\ x.kind # "review" /\ x.saw = 0
    BY <1>5
  <2>2. \A i \in DOMAIN log' : (i \in DOMAIN log /\ log'[i] = log[i]) \/ log'[i] = x
    BY <1>1, <2>1
  <2>3. \A i \in DOMAIN log' : log'[i].saw <= reqs'
    BY <1>3, <2>1, <2>2
  <2>4. pc' # "off" => \A i \in DOMAIN log' : log'[i].saw <= known'
    BY <1>3, <2>1, <2>2, <2>3 DEF SurfacedInOrder
  <2>5. \A i, j \in DOMAIN log' :
          i < j /\ log'[i].kind = "review" /\ log'[j].kind = "review" => log'[i].saw <= log'[j].saw
    BY <2>1, <2>2 DEF SurfacedInOrder
  <2> QED BY <2>3, <2>4, <2>5 DEF SurfacedInOrder
<1> QED BY <1>4, <1>5 DEF NoReview

(* Merged heads stay approved.                                             *)
LEMMA StaysApproved ==
  ASSUME LogOK, ApprovedByAll, UNCHANGED merged, log' = log \/ \E x : log' = Append(log, x)
  PROVE  ApprovedByAll'
  BY StaysRecorded DEF ApprovedByAll, Selective

(* Nobody has voted in a round that has just been opened.                  *)
LEMMA NobodyVoted == \A r \in Reviewers : ~NoTally[r].voted
  BY DEF NoTally, NoVote

(* A run that ends, whatever it posts last.                                *)
LEMMA EndsOK ==
  ASSUME Backed, IInv', pc' = "off", known' = 0, UNCHANGED <<reqs, merged>>, NoReview
  PROVE  Backed'
<1>1. LogOK /\ SurfacedInOrder /\ ApprovedByAll /\ known \in Nat /\ reqs \in Nat
  BY DEF Backed, IInv, RunOK, WorldOK
<1>2. SurfacedInOrder'
  BY <1>1, StaysInOrder
<1>3. ApprovedByAll'
  BY <1>1, StaysApproved DEF NoReview
<1> QED BY <1>2, <1>3 DEF Backed, VotesAreRecorded, GateHolds

(* A new round starts without votes.                                       *)
LEMMA OpensOK ==
  ASSUME Backed, IInv', pc' = "round", known' = reqs, UNCHANGED <<reqs, merged>>, NoReview,
         run'.res = NotResumed
  PROVE  Backed'
<1>1. LogOK /\ SurfacedInOrder /\ ApprovedByAll /\ known \in Nat /\ reqs \in Nat
  BY DEF Backed, IInv, RunOK, WorldOK
<1>2. SurfacedInOrder'
  BY <1>1, StaysInOrder
<1>3. ApprovedByAll'
  BY <1>1, StaysApproved DEF NoReview
<1>4. VotesAreRecorded'
  BY NobodyVoted DEF VotesAreRecorded, NotResumed
<1> QED BY <1>2, <1>3, <1>4 DEF Backed, GateHolds

(* Past the gate.                                                          *)
Late == {"probe", "enter", "watch", "passed", "merge"}

(* A step inside a round that neither votes nor spares.                    *)
LEMMA GoesOnOK ==
  ASSUME Backed, IInv', pc # "off", pc' # "off", pc \in {"handoff", "round"} => pc' \in {"handoff", "round"},
         UNCHANGED <<reqs, merged, seen, known>>, NoReview,
         run'.res = run.res, run'.now.tally = run.now.tally, run'.now.appr = run.now.appr,
         Selective /\ pc' \in Late => pc \in Late \/ QualifyingNames = Reviewers
  PROVE  Backed'
<1>1. LogOK /\ SurfacedInOrder /\ ApprovedByAll /\ known \in Nat /\ reqs \in Nat /\ known <= reqs
      /\ VotesAreRecorded /\ GateHolds
  BY DEF Backed, IInv, RunOK, WorldOK, SurfacedInOrder
<1>2. SurfacedInOrder'
  BY <1>1, StaysInOrder
<1>3. ApprovedByAll'
  BY <1>1, StaysApproved DEF NoReview
<1>4. VotesAreRecorded'
  <2>1. \A r, v : RecordedOn(log, r, v, seen, known) => RecordedOn(log', r, v, seen', known')
    BY <1>1, StaysRecorded DEF NoReview
  <2>2. \A r \in Reviewers : run'.res.done[r].voted =>
          RecordedOn(log', r, run'.res.done[r], seen', known')
    BY <1>1, <2>1 DEF VotesAreRecorded
  <2>3. pc' \notin {"off", "handoff", "round"} =>
          \A r \in Reviewers : run'.now.tally[r].voted =>
            RecordedOn(log', r, run'.now.tally[r], seen', known')
    BY <1>1, <2>1 DEF VotesAreRecorded
  <2>4. pc' \notin {"off", "handoff", "round"} =>
          \A r \in run'.now.appr : RecordedOn(log', r, Vote({}), seen', known')
    BY <1>1, <2>1 DEF VotesAreRecorded
  <2> QED BY <2>2, <2>3, <2>4 DEF VotesAreRecorded
<1>5. GateHolds'
  BY <1>1 DEF GateHolds, QualifyingNames, Late, Selective
<1> QED BY <1>2, <1>3, <1>4, <1>5 DEF Backed

-----------------------------------------------------------------------------
(* The steps of the others, and the ends of a run *)

(* What is posted beside the reviews.                                      *)
LEMMA CheckpointPosts ==
  ASSUME NEW h, NEW n, NEW L, NEW cks, PostCheckpoint(h, n, L, cks)
  PROVE  NoReview
<1> DEFINE Q == [Record("checkpoint", h, n, L) EXCEPT !.ck = cks]
<1>1. Q.kind = "checkpoint" /\ Q.saw = 0
  BY DEF Record
<1>2. log' = log \/ log' = Append(log, Q)
  BY DEF PostCheckpoint, Post
<1> HIDE DEF Q
<1> QED BY <1>1, <1>2 DEF NoReview

(* No step but a reviewer's turn posts a review.                           *)
LEMMA OnlyTurnsPostReviews ==
  ASSUME IInv, [Next]_vars, ~ \E r \in Reviewers : ReviewTurn(r)
  PROVE  NoReview
<1>1. CASE PostHeadReview
  <2> DEFINE Q == [Record("headreview", seen, run.round, run.led) EXCEPT !.budget = {run.budget}]
  <2>1. Q.kind = "headreview" /\ Q.saw = 0
    BY DEF Record
  <2>2. log' = Append(log, Q)
    BY <1>1 DEF PostHeadReview, Post
  <2> HIDE DEF Q
  <2> QED BY <2>1, <2>2 DEF NoReview
<1>2. CASE BeginRound
  <2>1. PICK probe \in Probe, narrow \in BOOLEAN :
          \/ Stop
          \/ Plan(probe, narrow).shut /\ RollOver(Plan(probe, narrow))
          \/ Launch(Plan(probe, narrow)) /\ LaunchIsDue(Plan(probe, narrow))
    BY <1>2, BeginRoundCases
  <2> DEFINE P == Plan(probe, narrow)
             R == Record("prelaunch", seen, run.round, P.led)
             op == P.D.phase = "secondary-audit"
             la == P.latch
             Q == [R EXCEPT !.opens = op, !.force = la]
  <2>2. log' = log \/ log' = Append(log, Q)
    BY <2>1 DEF Stop, RollOver, Launch, Post
  <2>3. R.kind = "prelaunch" /\ R.saw = 0 /\ Q.kind = R.kind /\ Q.saw = R.saw
    BY DEF Record
  <2> HIDE DEF Q, R
  <2> QED BY <2>2, <2>3 DEF NoReview
<1>3. CASE Reconcile
  <2> DEFINE t == run.now.tally
             f == run.force
             Q == [Record("reconciliation", seen, run.round, run.led) EXCEPT
                     !.tally = t, !.force = f]
  <2>1. Q.kind = "reconciliation" /\ Q.saw = 0
    BY DEF Record
  <2>2. log' = log \/ log' = Append(log, Q)
    BY <1>3 DEF Reconcile, Post
  <2> HIDE DEF Q
  <2> QED BY <2>1, <2>2 DEF NoReview
<1>4. CASE EnterWatch \/ PersistRepair
  BY <1>4, CheckpointPosts DEF EnterWatch, PersistRepair
<1>5. CASE GateRestart \/ PassedRestart \/ WatchHeadChanged
  BY <1>5, CheckpointPosts DEF GateRestart, PassedRestart, RestartOnLiveHead, WatchHeadChanged
<1>6. CASE Dispatch
  <2> DEFINE n == run.res.attempt + 1
             Q == [Record("dispatch", seen, run.round + 1, run.led) EXCEPT
                     !.attempt = n, !.budget = {run.budget}]
  <2>1. Q.kind = "dispatch" /\ Q.saw = 0
    BY DEF Record
  <2>2. log' = Append(log, Q)
    BY <1>6 DEF Dispatch, Post
  <2> HIDE DEF Q
  <2> QED BY <2>1, <2>2 DEF NoReview
<1>7. CASE CoderAccepted
  <2> DEFINE L == AdvanceForHead(run.led, head)
             cks == Checkpoint(L, L.ci.life, run.budget, known, {})
             p == IF Selective THEN seen ELSE NoHead
             e == Selective /\ run.now.ext
             f == run.force
             Q == [Record("coder", head, run.round + 1, L) EXCEPT
                     !.ck = cks, !.prev = p, !.force = f, !.external = e]
  <2>1. Q.kind = "coder" /\ Q.saw = 0
    BY DEF Record
  <2>2. log' = Append(log, Q)
    BY <1>7 DEF CoderAccepted, Post
  <2> HIDE DEF Q
  <2> QED BY <2>1, <2>2 DEF NoReview
<1>8. CASE CoderRejected
  <2> DEFINE n == run.now.dispatched
             Q == [Record("rejected", head, run.round, run.led) EXCEPT
                     !.attempt = n, !.budget = {run.budget}]
  <2>1. Q.kind = "rejected" /\ Q.saw = 0
    BY DEF Record
  <2>2. log' = log \/ log' = Append(log, Q)
    BY <1>8 DEF CoderRejected, Post
  <2> HIDE DEF Q
  <2> QED BY <2>1, <2>2 DEF NoReview
<1>9. CASE Environment \/ Start \/ StartRefused \/ UNCHANGED vars
  BY <1>9 DEF Environment, HumanPush, Push, PostRequirement, CiReports, RerunFailed, BaseMoves, Crash,
              Stop, Start, StartFrom, StartRefused, vars, NoReview
<1>10. CASE \/ RoundLimit \/ StopIncomplete \/ GateStop \/ WatchTimeout \/ WatchInfraStop
            \/ MergeRefused \/ BlockedStop \/ GateSweep \/ PassedSweep \/ Merge
  BY <1>10 DEF RoundLimit, StopIncomplete, GateStop, WatchTimeout, WatchInfraStop, MergeRefused,
               BlockedStop, Stop, GateSweep, PassedSweep, SweepNextRound, Merge, NoReview
<1>11. CASE \/ SettleRound \/ GatePass \/ Snapshot \/ WatchPending \/ WatchPassed \/ WatchConflict
            \/ WatchFailed \/ WatchRerun \/ Finalize \/ CoderPush \/ CoderKeepsHead
            \/ \E r \in Reviewers : ReviewTurnFails(r)
  BY <1>11 DEF SettleRound, GatePass, Snapshot, WatchPending, WatchPassed, WatchConflict, WatchFailed,
               WatchRerun, Finalize, CoderPush, CoderKeepsHead, ReviewTurnFails, NoReview
<1> QED BY <1>1, <1>2, <1>3, <1>4, <1>5, <1>6, <1>7, <1>8, <1>9, <1>10, <1>11, Zenon DEF Next, Step

(* The others do not touch the records, nor the run unless it crashes.     *)
LEMMA OthersKeepBacking ==
  ASSUME Backed, IInv', NoReview, Environment
  PROVE  Backed'
<1>1. CASE Crash
  BY <1>1, EndsOK DEF Crash, Stop, Halt, github
<1>2. CASE ~Crash
  <2>1. UNCHANGED <<log, pc, seen, known, run, merged>> /\ reqs' \in Nat /\ reqs \in Nat /\ reqs' >= reqs
    BY <1>2 DEF Environment, HumanPush, Push, PostRequirement, CiReports, RerunFailed, BaseMoves,
                Backed, IInv, WorldOK
  <2>2. LogOK /\ SurfacedInOrder /\ known \in Nat
    BY DEF Backed, IInv, RunOK
  <2>3. SurfacedInOrder'
    <3>1. \A i \in DOMAIN log : log[i].saw \in Nat
      BY <2>2 DEF LogOK, GoodRecords, Records
    <3> QED BY <2>1, <2>2, <3>1 DEF SurfacedInOrder
  <2> QED BY <2>1, <2>3 DEF Backed, VotesAreRecorded, GateHolds, ApprovedByAll, QualifyingNames,
                            Selective
<1> QED BY <1>1, <1>2

(* A run that stops posts no review.                                       *)
LEMMA StopsKeepBacking ==
  ASSUME Backed, IInv', NoReview,
         \/ RoundLimit \/ StopIncomplete \/ GateStop \/ WatchTimeout \/ WatchInfraStop
         \/ MergeRefused \/ BlockedStop \/ Stop
  PROVE  Backed'
<1>1. Stop
  BY DEF RoundLimit, StopIncomplete, GateStop, WatchTimeout, WatchInfraStop, MergeRefused, BlockedStop
<1> QED BY <1>1, EndsOK DEF Stop, Halt, github

(* A rejected coder turn is the end of the run.                            *)
LEMMA CoderRejectedBacking ==
  ASSUME Backed, IInv', NoReview, CoderRejected
  PROVE  Backed'
  BY EndsOK DEF CoderRejected, Halt, github

-----------------------------------------------------------------------------
(* New rounds *)

(* Moving on to another head, or to a sweep, opens a round without votes.  *)
LEMMA RestartsKeepBacking ==
  ASSUME Backed, IInv', NoReview, RestartOnLiveHead \/ SweepNextRound
  PROVE  Backed'
<1>1. run \in RunStates
  BY DEF Backed, IInv, RunOK
<1>2. CASE RestartOnLiveHead
  <2> DEFINE L == AdvanceForHead(run.led, head)
             cks == Checkpoint(L, "awaiting", run.budget, -1, {})
             R == [run EXCEPT !.led = L, !.ck = cks, !.sweep = FALSE]
  <2>1. /\ run' = NextRound(R) /\ pc' = "round" /\ known' = reqs /\ UNCHANGED github
    BY <1>2 DEF RestartOnLiveHead
  <2> HIDE DEF L, cks
  <2>2. NextRound(R).res = NotResumed
    BY <1>1 DEF NextRound, RunStates
  <2> QED BY <2>1, <2>2, OpensOK DEF github
<1>3. CASE SweepNextRound
  <2>1. run'.res = NotResumed
    BY <1>1, <1>3 DEF SweepNextRound, NextRound, RunStates
  <2> QED BY <1>3, <2>1, OpensOK DEF SweepNextRound, github
<1> QED BY <1>2, <1>3

(* So does a head that moved under the watch.                              *)
LEMMA WatchHeadChangedBacking ==
  ASSUME Backed, IInv', NoReview, WatchHeadChanged
  PROVE  Backed'
<1> DEFINE extend == run.round = run.budget.allowed /\ ~run.budget.headExt
           b == IF extend THEN [run.budget EXCEPT !.allowed = @ + 1, !.headExt = TRUE] ELSE run.budget
           L == AdvanceForHead(run.led, head)
           cks == Checkpoint(L, "awaiting", b, -1, {})
           R == [Polled EXCEPT !.led = L, !.ck = cks, !.budget = b]
<1>1. run \in RunStates
  BY DEF Backed, IInv, RunOK
<1>2. /\ run' = NextRound(R) /\ pc' = "round" /\ known' = reqs /\ UNCHANGED github
  BY DEF WatchHeadChanged
<1> HIDE DEF b, L, cks
<1>3. NextRound(R).res = NotResumed
  BY <1>1 DEF NextRound, Polled, RunStates
<1> QED BY <1>2, <1>3, OpensOK DEF github

(* So does an accepted coder turn, or it ends the run.                     *)
LEMMA CoderAcceptedBacking ==
  ASSUME Backed, IInv', NoReview, CoderAccepted
  PROVE  Backed'
<1> DEFINE L == AdvanceForHead(run.led, head)
           cks == Checkpoint(L, L.ci.life, run.budget, known, {})
           count == IF head # seen THEN 0 ELSE IF run.same = seen THEN run.count + 1 ELSE 1
           s == run.sweep \/ (Selective /\ run.now.ext)
           m == IF count = 0 THEN NoHead ELSE seen
           R == [run EXCEPT !.led = L, !.ck = cks, !.sweep = s, !.same = m, !.count = count]
<1>1. run \in RunStates
  BY DEF Backed, IInv, RunOK
<1>2. UNCHANGED github
      /\ \/ pc' = "off" /\ known' = 0
         \/ run' = NextRound(R) /\ pc' = "round" /\ known' = reqs
  BY <1>1 DEF CoderAccepted
<1> HIDE DEF L, cks, count, s, m
<1>3. NextRound(R).res = NotResumed
  BY <1>1 DEF NextRound, RunStates
<1> QED BY <1>2, <1>3, OpensOK, EndsOK DEF github

(* Rolling over a reconciled round opens the next one.                     *)
LEMMA RollOverBacking ==
  ASSUME Backed, IInv', NoReview, NEW P, RollOver(P)
  PROVE  Backed'
<1> DEFINE c == CHOOSE x \in run.res.closed : TRUE
           L == Settle(Selective, c.led, c.tally)
           k == P.cks
           s == run.sweep \/ (Selective /\ P.stale)
           fb == P.fallback
           fo == Selective /\ P.latch
           R == [run EXCEPT !.led = L, !.ck = k, !.sweep = s, !.fallback = fb, !.force = fo]
<1>1. run \in RunStates
  BY DEF Backed, IInv, RunOK
<1>2. run' = NextRound(R) /\ pc' = "round" /\ known' = reqs /\ UNCHANGED github
  BY DEF RollOver
<1> HIDE DEF L, k, s, fb, fo
<1>3. NextRound(R).res = NotResumed
  BY <1>1 DEF NextRound, RunStates
<1> QED BY <1>2, <1>3, OpensOK DEF github

-----------------------------------------------------------------------------
(* Inside a round *)

(* The steps that settle, watch, fail and dispatch neither vote nor spare  *)
(* anybody.                                                                *)
LEMMA RoundStepsKeepBacking ==
  ASSUME Backed, IInv', NoReview,
         \/ SettleRound \/ GatePass \/ Snapshot \/ WatchPending \/ WatchPassed \/ WatchConflict
         \/ WatchFailed \/ WatchRerun \/ Finalize \/ CoderPush \/ CoderKeepsHead
         \/ \E r \in Reviewers : ReviewTurnFails(r)
  PROVE  Backed'
<1>1. run \in RunStates
  BY DEF Backed, IInv, RunOK
<1>2. run'.res = run.res /\ run'.now.tally = run.now.tally /\ run'.now.appr = run.now.appr
  <2>1. CASE SettleRound \/ GatePass \/ Finalize \/ CoderPush \/ CoderKeepsHead
    BY <1>1, <2>1 DEF SettleRound, GatePass, Finalize, CoderPush, CoderKeepsHead, RunStates
  <2>2. CASE Snapshot
    BY <1>1, <2>2 DEF Snapshot, RunStates
  <2>3. CASE WatchPending \/ WatchPassed \/ WatchConflict \/ WatchFailed \/ WatchRerun
    BY <1>1, <2>3 DEF WatchPending, WatchPassed, WatchConflict, WatchFailed, WatchRerun, Polled,
                      RunStates
  <2>4. CASE \E r \in Reviewers : ReviewTurnFails(r)
    <3>1. PICK r \in Reviewers : ReviewTurnFails(r)
      BY <2>4
    <3> DEFINE todo == run.now.todo \ {r}
               N == [run.now EXCEPT !.todo = todo, !.failed = TRUE]
    <3>2. run' = [run EXCEPT !.now = N]
      BY <1>1, <3>1 DEF ReviewTurnFails, RunStates, RoundStates
    <3> HIDE DEF todo
    <3>3. N.tally = run.now.tally /\ N.appr = run.now.appr
      BY <1>1 DEF RunStates, RoundStates
    <3> HIDE DEF N
    <3> QED BY <1>1, <3>2, <3>3 DEF RunStates
  <2> QED BY <2>1, <2>2, <2>3, <2>4
<1>3. UNCHANGED <<reqs, merged, seen, known>>
  BY DEF SettleRound, GatePass, Finalize, CoderPush, CoderKeepsHead, Push, Snapshot, WatchPending,
         WatchPassed, WatchConflict, WatchFailed, WatchRerun, ReviewTurnFails, github
<1>4. /\ pc \notin {"off", "handoff", "round"} /\ pc' # "off"
      /\ Selective /\ pc' \in Late => pc \in Late \/ QualifyingNames = Reviewers
  BY DEF SettleRound, GatePass, Finalize, CoderPush, CoderKeepsHead, Snapshot, WatchPending,
         WatchPassed, WatchConflict, WatchFailed, WatchRerun, ReviewTurnFails, Late, Polling
<1> QED BY <1>2, <1>3, <1>4, GoesOnOK

(* Neither do the steps that post a record beside the reviews.             *)
LEMMA PostingStepsKeepBacking ==
  ASSUME Backed, IInv', NoReview,
         PostHeadReview \/ Reconcile \/ EnterWatch \/ PersistRepair \/ Dispatch
  PROVE  Backed'
<1>1. run \in RunStates
  BY DEF Backed, IInv, RunOK
<1>2. run'.res = run.res /\ run'.now.tally = run.now.tally /\ run'.now.appr = run.now.appr
  <2>1. CASE PostHeadReview \/ Reconcile \/ EnterWatch
    BY <1>1, <2>1 DEF PostHeadReview, Reconcile, EnterWatch, RunStates
  <2>2. CASE PersistRepair
    BY <1>1, <2>2 DEF PersistRepair, RunStates
  <2>3. CASE Dispatch
    <3> DEFINE n == run.res.attempt + 1
               N == [run.now EXCEPT !.dispatched = n]
    <3>1. run' = [run EXCEPT !.now = N]
      BY <1>1, <2>3 DEF Dispatch, RunStates, RoundStates
    <3> HIDE DEF n
    <3>2. N.tally = run.now.tally /\ N.appr = run.now.appr
      BY <1>1 DEF RunStates, RoundStates
    <3> HIDE DEF N
    <3> QED BY <1>1, <3>1, <3>2 DEF RunStates
  <2> QED BY <2>1, <2>2, <2>3
<1>3. /\ UNCHANGED <<reqs, merged, seen, known>> /\ pc # "off" /\ pc' # "off"
      /\ pc \in {"handoff", "round"} => pc' \in {"handoff", "round"}
      /\ pc' \in Late => pc \in Late
  BY DEF PostHeadReview, Reconcile, EnterWatch, PersistRepair, Dispatch, Late, github
<1> QED BY <1>2, <1>3, GoesOnOK

-----------------------------------------------------------------------------
(* Where votes come from *)

(* A resumption as it is built reuses nothing yet.                         *)
LEMMA ResumedReviewless ==
  ASSUME NEW lg, NEW n \in Nat, NEW L \in Ledgers
  PROVE  Resumed(n, L) \in ResumeStates(lg) /\ Resumed(n, L).reviews = {}
  BY ResumedType DEF Resumed, Fresh

(* The reviews a restart reuses are reviews of the head it starts on.      *)
LEMMA ResumedReviews ==
  ASSUME NEW lg, WellFormed(lg), NEW h
  PROVE  \A i \in Resume(lg, h).reviews : i \in DOMAIN lg /\ lg[i].kind = "review" /\ lg[i].head = h
<1>1. Fresh.reviews = {} /\ Refused.reviews = {} /\ \A n, L : Resumed(n, L).reviews = {}
  BY DEF Fresh, Refused, Resumed
<1>2. ASSUME NEW i \in DOMAIN lg, NEW m PROVE ConsumeHandoff(lg, i, m).reviews = {}
  <2> DEFINE n == IF lg[i].kind = "dispatch" THEN lg[i].round - 1 ELSE lg[i].round
             L == lg[i].led
             b == lg[i].budget
             a == lg[i].attempt
  <2>0. a \in 0 .. MaxAttempts /\ n \in Nat /\ L \in Ledgers
    <3>1. lg[i] \in Records /\ (lg[i].kind = "dispatch" => lg[i].round >= 1)
      BY DEF WellFormed
    <3> QED BY <3>1 DEF Records
  <2>1. CASE lg[i].kind = "headreview"
    <3> DEFINE Q == [Resumed(n, L) EXCEPT !.budget = b, !.post = m]
    <3>1. ConsumeHandoff(lg, i, m) = Fresh \/ ConsumeHandoff(lg, i, m) = Q
      <4> HIDE DEF n, L, b
      <4> QED BY <2>1 DEF ConsumeHandoff, n, L, b
    <3> HIDE DEF n, L, b
    <3>2. Q.reviews = {}
      BY <2>0, ResumedReviewless DEF ResumeStates
    <3> QED BY <1>1, <3>1, <3>2
  <2>2. CASE lg[i].kind # "headreview" /\ a >= MaxAttempts
    <3>1. ConsumeHandoff(lg, i, m) = Refused
      BY <2>0, <2>2 DEF ConsumeHandoff, MaxAttempts
    <3> QED BY <1>1, <3>1
  <2>3. CASE lg[i].kind # "headreview" /\ a < MaxAttempts
    <3> DEFINE Q == [Resumed(n, L) EXCEPT !.budget = b, !.advance = TRUE, !.attempt = a]
    <3>1. ConsumeHandoff(lg, i, m) = Fresh \/ ConsumeHandoff(lg, i, m) = Q
      BY <2>0, <2>3 DEF ConsumeHandoff, MaxAttempts
    <3> HIDE DEF n, L, b, a
    <3>2. Q.reviews = {}
      BY <2>0, ResumedReviewless DEF ResumeStates
    <3> QED BY <1>1, <3>1, <3>2
  <2> QED BY <2>0, <2>1, <2>2, <2>3 DEF MaxAttempts
<1>3. \A g : RecoverRound(lg, g).reviews = {}
  BY <1>1 DEF RecoverRound, Fresh, Refused, Resumed
<1>4. RecoverHeadAdvance(lg, h).reviews = {}
  <2> DEFINE walk == DOMAIN lg \ On(lg, h)
             live == IF walk = {} THEN {} ELSE LiveHandoffs(lg, lg[Latest(walk)].head, TRUE)
  <2>1. CASE live # {}
    <3>1. live \in SUBSET DOMAIN lg
      BY DEF LiveHandoffs, OfKind, On
    <3>2. Latest(live) \in DOMAIN lg
      BY <2>1, <3>1, LatestRecord DEF WellFormed
    <3>3. ConsumeHandoff(lg, Latest(live), TRUE).reviews = {}
      BY <1>2, <3>2
    <3> HIDE DEF live
    <3> QED BY <2>1, <3>3, Zenon DEF RecoverHeadAdvance, live
  <2>2. CASE live = {}
    BY <1>1, <1>3, <2>2 DEF RecoverHeadAdvance
  <2> QED BY <2>1, <2>2
<1>5. ASSUME Ordinary(lg) \cap On(lg, h) # {}
      PROVE  \A i \in ResumeRound(lg, h).reviews :
               i \in DOMAIN lg /\ lg[i].kind = "review" /\ lg[i].head = h
  <2> DEFINE S == {i \in CurrentRound(lg, h) :
                     \A b \in OfKind(lg, On(lg, h), {"headreview"}) : b <= i}
             k == Anchor(lg, h)
             coders == OfKind(lg, S, {"coder"})
             closing == OfKind(lg, S, {"reconciliation"})
             started == OfKind(lg, S, {"coder", "review"}) # {}
                          \/ (lg[k].kind = "prelaunch" /\ lg[k].round > 1)
             C == HeadCheckpoints(lg, h)
             ck == HeadCheckpoint(lg, h)
             revs == OfKind(lg, S, {"review"})
             cl == IF closing = {} THEN {} ELSE {lg[Latest(closing)]}
             e == \E c \in coders : lg[c].external
             rec == Reconciles(lg, S)
             late == lg[Latest(C)].kind = "checkpoint"
             B == HeadReviewBudget(lg, h)
             n == lg[k].round
             L == lg[k].led
             m == lg[Latest(C)].round
             M == lg[Latest(C)].led
  <2>0. n \in Nat /\ L \in Ledgers
    <3>1. lg[k] \in Records
      BY <1>5, AnchorIn DEF WellFormed
    <3> QED BY <3>1 DEF Records
  <2>1. \A i \in revs : i \in DOMAIN lg /\ lg[i].kind = "review" /\ lg[i].head = h
    BY DEF CurrentRound, OfKind, On, Ordinary, Read
  <2>2. CASE started
    <3> DEFINE Q == [Resumed(n, L) EXCEPT !.ck = ck, !.budget = B, !.reviews = revs, !.closed = cl,
                                          !.reconciled = rec, !.external = e]
    <3>1. Q = ResumeRound(lg, h)
      <4> HIDE DEF k, ck, B
      <4> QED BY <2>2 DEF ResumeRound, k, ck, B
    <3> HIDE DEF S, k, ck, revs, cl, rec, e, n, L, B
    <3>2. Q.reviews = revs
      BY <2>0, ResumedReviewless DEF ResumeStates
    <3> HIDE DEF Q
    <3> QED BY <2>1, <3>1, <3>2
  <2>3. CASE ~started /\ C = {}
    <3>1. ResumeRound(lg, h) = Fresh
      BY <2>3 DEF ResumeRound
    <3> QED BY <1>1, <3>1
  <2>4. CASE ~started /\ C # {}
    <3> DEFINE Q == [Resumed(m, M) EXCEPT !.ck = ck, !.budget = B, !.reconciled = late]
    <3>0. lg[Latest(C)] \in Records
      BY <2>4, HeadCheckpointIn, LatestRecord DEF WellFormed
    <3>3. m \in Nat /\ M \in Ledgers
      BY <3>0 DEF Records
    <3>1. Q = ResumeRound(lg, h)
      BY <2>4 DEF ResumeRound
    <3> HIDE DEF C, ck, late, m, M, B
    <3>2. Q.reviews = {}
      BY <3>3, ResumedReviewless DEF ResumeStates
    <3> HIDE DEF Q
    <3> QED BY <3>1, <3>2
  <2> QED BY <2>2, <2>3, <2>4
<1>6. CASE LiveHandoffs(lg, h, FALSE) # {}
  <2>1. LiveHandoffs(lg, h, FALSE) \in SUBSET DOMAIN lg
    BY DEF LiveHandoffs, OfKind, On
  <2>2. Latest(LiveHandoffs(lg, h, FALSE)) \in DOMAIN lg
    BY <1>6, <2>1, LatestRecord DEF WellFormed
  <2>3. ConsumeHandoff(lg, Latest(LiveHandoffs(lg, h, FALSE)), FALSE).reviews = {}
    BY <1>2, <2>2
  <2> QED BY <1>6, <2>3 DEF Resume
<1> QED BY <1>4, <1>5, <1>6 DEF Resume

(* A vote of a tally was cast in one of its reviews.                       *)
LEMMA TallyRecorded ==
  ASSUME NEW lg \in Seq(Records), NEW S \in SUBSET DOMAIN lg, NEW r \in Reviewers,
         TallyOf(lg, S)[r].voted
  PROVE  \E i \in S : lg[i].kind = "review" /\ lg[i].tally[r] = TallyOf(lg, S)[r]
<1> DEFINE mine == {i \in S : lg[i].kind = "review" /\ lg[i].tally[r].voted}
<1>1. TallyOf(lg, S)[r] = IF mine = {} THEN NoVote ELSE lg[Latest(mine)].tally[r]
  BY DEF TallyOf
<1>2. mine # {} /\ mine \in SUBSET DOMAIN lg
  <2>1. mine \in SUBSET DOMAIN lg
    OBVIOUS
  <2> HIDE DEF mine
  <2> QED BY <1>1, <2>1 DEF NoVote
<1>3. Latest(mine) \in mine
  BY <1>2, LatestRecord
<1> QED BY <1>1, <1>2, <1>3

(* A run that starts reuses only votes on the head it starts on, of        *)
(* reviews that surfaced the requirements known now.                       *)
LEMMA StartKeepsBacking ==
  ASSUME Backed, IInv', Start
  PROVE  Backed'
<1> DEFINE R == Resume(log, head)
           carried == {c.budget : c \in R.ck} \cup (IF R.ck = {} THEN R.budget ELSE {})
           valid == \A b \in carried : BudgetInBounds(b)
           B == IF carried # {} /\ valid THEN CHOOSE b \in carried : TRUE ELSE FullBudget
           C == IF valid THEN R.ck ELSE {}
           sw == Selective /\ (~valid \/ R.external)
           fb == Staged /\ ~valid
           fo == StartupLatched(log) \/ (Policy = "selective-intermediate" /\ ~valid)
           D == StillCurrent(R.reviews, reqs)
           res == [on |-> R.how = "resumed", advance |-> R.advance, attempt |-> R.attempt,
                   done |-> D, closed |-> R.closed, reconciled |-> R.reconciled]
           U == {i \in R.reviews : log[i].saw = reqs}
<1>1. LogOK /\ SurfacedInOrder /\ ApprovedByAll /\ known \in Nat /\ reqs \in Nat
  BY DEF Backed, IInv, RunOK, WorldOK
<1>2. run' = [Idle EXCEPT !.round = R.round, !.led = R.led, !.budget = B, !.ck = C, !.sweep = sw,
                !.fallback = fb, !.force = fo, !.res = res]
  BY Zenon DEF Start, StartFrom
<1>3. /\ pc' \in {"handoff", "round"} /\ seen' = head /\ known' = reqs
      /\ UNCHANGED <<reqs, merged, log>>
  BY DEF Start, StartFrom, github
<1>4. \A i \in R.reviews : i \in DOMAIN log /\ log[i].kind = "review" /\ log[i].head = head
  BY <1>1, WellFormedLog, ResumedReviews
<1>5. log \in Seq(Records) /\ U \in SUBSET DOMAIN log /\ D = TallyOf(log, U)
  BY <1>1, <1>4, WellFormedLog DEF StillCurrent, WellFormed
<1>6. \A r \in Reviewers : D[r].voted => RecordedOn(log, r, D[r], head, reqs)
  <2> TAKE r \in Reviewers
  <2> HAVE D[r].voted
  <2> HIDE DEF D, R
  <2>1. PICK i \in U : log[i].kind = "review" /\ log[i].tally[r] = D[r]
    BY <1>5, TallyRecorded
  <2>2. i \in DOMAIN log /\ log[i].head = head /\ log[i].saw = reqs
    BY <1>4, <2>1
  <2> QED BY <2>1, <2>2 DEF RecordedOn
<1> HIDE DEF R, B, C, D, sw, fb, fo, U
<1>7. run'.res.done = D
  <2> HIDE DEF res
  <2>1. run' = [round |-> R.round, budget |-> B, led |-> R.led, ck |-> C, sweep |-> sw,
                fallback |-> fb, force |-> fo, res |-> res, now |-> NoTurns,
                polls |-> WatchBudget, rerun |-> {}, same |-> NoHead, count |-> 0,
                conflictFrom |-> NoHead]
    BY <1>2, Zenon DEF Idle
  <2>2. run'.res = res
    BY <2>1
  <2> QED BY <2>2 DEF res
<1>8. VotesAreRecorded'
  BY <1>3, <1>6, <1>7 DEF VotesAreRecorded
<1>9. SurfacedInOrder'
  BY <1>1, <1>3, StaysInOrder DEF NoReview
<1>10. ApprovedByAll'
  BY <1>1, <1>3, StaysApproved
<1> QED BY <1>3, <1>8, <1>9, <1>10 DEF Backed, GateHolds

(* An approval that spares a reviewer its turn is on record for the head   *)
(* of the round, with all the requirements known in the round.             *)
LEMMA ApprovalsRecorded ==
  ASSUME LogOK, SurfacedInOrder, pc # "off", known \in Nat, NEW r \in Approvals(log, seen, known)
  PROVE  RecordedOn(log, r, Vote({}), seen, known)
<1> DEFINE mine == {i \in ReviewsOf(log, r, seen) : Qualified(log, r, i)}
           i == Latest(mine)
<1>1. r \in Reviewers /\ mine # {} /\ log[i].tally[r].blocks = {} /\ log[i].saw >= known
  BY DEF Approvals, Approves
<1>2. mine \in SUBSET DOMAIN log
  BY DEF ReviewsOf, On
<1>3. log \in Seq(Records)
  BY WellFormedLog DEF WellFormed
<1>4. i \in mine /\ log[i] \in Records /\ i \in DOMAIN log
  BY <1>1, <1>2, <1>3, LatestRecord
<1>5. log[i].head = seen /\ log[i].kind = "review" /\ log[i].tally[r].voted
  BY <1>4 DEF ReviewsOf, On
<1> HIDE DEF i, mine
<1>6. log[i].tally[r] = Vote({})
  <2>1. log[i].tally[r] \in Votes
    BY <1>1, <1>4 DEF Records, Tallies
  <2> QED BY <1>1, <1>5, <2>1 DEF Votes, Vote
<1>7. log[i].saw = known
  <2>1. log[i].saw \in Nat
    BY <1>4 DEF Records
  <2>2. log[i].saw <= known
    BY <1>4 DEF SurfacedInOrder
  <2> QED BY <1>1, <2>1, <2>2
<1> QED BY <1>4, <1>5, <1>6, <1>7 DEF RecordedOn

(* A round is launched with the votes it reuses and the approvals on       *)
(* record.                                                                 *)
LEMMA LaunchKeepsBacking ==
  ASSUME Backed, IInv', NoReview, pc = "round", NEW probe \in Probe, NEW narrow \in BOOLEAN,
         Launch(Plan(probe, narrow))
  PROVE  Backed'
<1> DEFINE P == Plan(probe, narrow)
           L == P.led
           ck == P.cks
           fb == P.skip /\ P.fallback
           fo == Selective /\ P.latch
           ap == P.appr
           todo == IF P.skip THEN {} ELSE P.turns
           tally == IF P.skip THEN NoTally ELSE run.res.done
           ex == P.ext
           sk == P.skip
           N == [NoTurns EXCEPT !.ext = ex, !.skip = sk, !.appr = ap, !.todo = todo,
                   !.tally = tally]
           E == [run EXCEPT !.led = L, !.ck = ck, !.sweep = FALSE, !.fallback = fb, !.force = fo,
                   !.now = N]
<1>1. /\ LogOK /\ SurfacedInOrder /\ ApprovedByAll /\ VotesAreRecorded
      /\ known \in Nat /\ reqs \in Nat /\ known <= reqs /\ run \in RunStates
  BY DEF Backed, IInv, RunOK, WorldOK, SurfacedInOrder
<1>2. pc' = "review" /\ UNCHANGED <<reqs, merged, seen, known>> /\ run' = E
  BY DEF Launch, github
<1>3. ap = Approvals(log, seen, known)
  BY DEF Plan
<1>4. tally = NoTally \/ tally = run.res.done
  OBVIOUS
<1> HIDE DEF P, L, ck, fb, fo, ap, todo, tally, ex, sk
<1>5. N.tally = tally /\ N.appr = ap
  BY DEF NoTurns
<1> HIDE DEF N
<1>6. E.now = N /\ E.res = run.res
  BY <1>1 DEF RunStates
<1> HIDE DEF E
<1>7. SurfacedInOrder'
  BY <1>1, <1>2, StaysInOrder
<1>8. ApprovedByAll'
  BY <1>1, <1>2, StaysApproved DEF NoReview
<1>9. VotesAreRecorded'
  <2>1. \A r, v : RecordedOn(log, r, v, seen, known) => RecordedOn(log', r, v, seen', known')
    BY <1>1, <1>2, StaysRecorded DEF NoReview
  <2>2. \A r \in Reviewers : run.res.done[r].voted =>
          RecordedOn(log', r, run.res.done[r], seen', known')
    BY <1>1, <2>1 DEF VotesAreRecorded
  <2>3. \A r \in Reviewers : tally[r].voted => RecordedOn(log', r, tally[r], seen', known')
    BY <1>4, <2>2, NobodyVoted
  <2>4. \A r \in ap : RecordedOn(log', r, Vote({}), seen', known')
    BY <1>1, <1>3, <2>1, ApprovalsRecorded
  <2> QED BY <1>2, <1>5, <1>6, <2>2, <2>3, <2>4 DEF VotesAreRecorded
<1> QED BY <1>2, <1>7, <1>8, <1>9 DEF Backed, GateHolds

(* However a round starts, it starts with backed votes.                    *)
LEMMA BeginRoundKeepsBacking ==
  ASSUME Backed, IInv', NoReview, BeginRound
  PROVE  Backed'
<1>1. pc = "round"
  BY DEF BeginRound
<1>2. PICK probe \in Probe, narrow \in BOOLEAN :
        \/ Stop
        \/ Plan(probe, narrow).shut /\ RollOver(Plan(probe, narrow))
        \/ Launch(Plan(probe, narrow)) /\ LaunchIsDue(Plan(probe, narrow))
  BY BeginRoundCases
<1> QED BY <1>1, <1>2, StopsKeepBacking, RollOverBacking, LaunchKeepsBacking

(* A review backs the vote it casts.                                       *)
LEMMA ReviewTurnKeepsBacking ==
  ASSUME Backed, IInv', NEW r \in Reviewers, ReviewTurn(r)
  PROVE  Backed'
<1>1. /\ LogOK /\ SurfacedInOrder /\ ApprovedByAll /\ VotesAreRecorded
      /\ known \in Nat /\ reqs \in Nat /\ known <= reqs /\ run \in RunStates
  BY DEF Backed, IInv, RunOK, WorldOK, SurfacedInOrder
<1>2. PICK B \in SUBSET (Open(run.led) \cup {r}) :
        /\ Post([Record("review", seen, run.round, run.led) EXCEPT
                   !.tally = [NoTally EXCEPT ![r] = Vote(B)], !.saw = known, !.force = run.force])
        /\ run' = [run EXCEPT !.now.todo = @ \ {r}, !.now.tally[r] = Vote(B)]
  BY DEF ReviewTurn
<1>3. pc = "review" /\ UNCHANGED <<reqs, merged, pc, seen, known>>
  BY DEF ReviewTurn, github
<1> DEFINE v == Vote(B)
           one == [NoTally EXCEPT ![r] = v]
           R == Record("review", seen, run.round, run.led)
           f == run.force
           Q == [R EXCEPT !.tally = one, !.saw = known, !.force = f]
           todo == run.now.todo \ {r}
           tally == [run.now.tally EXCEPT ![r] = v]
           N == [run.now EXCEPT !.todo = todo, !.tally = tally]
<1>4. run' = [run EXCEPT !.now = N]
  <2> HIDE DEF v
  <2>2. run' = [run EXCEPT !.now.todo = run.now.todo \ {r}, !.now.tally[r] = v]
    BY <1>2 DEF v
  <2> QED BY <1>1, <2>2 DEF RunStates, RoundStates
<1>5. log' = Append(log, Q)
  BY <1>2 DEF Post
<1> HIDE DEF v
<1>6. one[r] = v
  BY DEF NoTally
<1>7. tally[r] = v /\ \A q \in Reviewers \ {r} : tally[q] = run.now.tally[q]
  BY <1>1 DEF RunStates, RoundStates, Tallies
<1>8. R.kind = "review" /\ R.head = seen
  BY DEF Record
<1>9. N.tally = tally /\ N.appr = run.now.appr
  <2> HIDE DEF tally, todo
  <2> QED BY <1>1 DEF RunStates, RoundStates
<1>10. Q.kind = "review" /\ Q.head = seen /\ Q.saw = known /\ Q.tally = one
  <2> HIDE DEF one, f
  <2> QED BY <1>8 DEF Record
<1> HIDE DEF one, R, Q, todo, tally, N
<1>11. run'.now = N /\ run'.res = run.res
  BY <1>1, <1>4 DEF RunStates
<1>12. log \in Seq(GoodRecords)
  BY <1>1 DEF LogOK
<1>13. /\ \A i \in DOMAIN log' : \/ (i \in DOMAIN log /\ log'[i] = log[i])
                              \/ (i = Len(log) + 1 /\ log'[i] = Q)
       /\ Len(log) + 1 \in DOMAIN log' /\ log'[Len(log) + 1] = Q
       /\ \A i \in DOMAIN log : i <= Len(log)
  <2>1. DOMAIN log = 1 .. Len(log) /\ Len(log) \in Nat
    BY <1>12
  <2>2. DOMAIN log' = 1 .. Len(log) + 1
    BY <1>5, <1>12, <2>1
  <2>3. \A i \in 1 .. Len(log) : log'[i] = log[i]
    BY <1>5, <1>12, <2>1
  <2>4. log'[Len(log) + 1] = Q
    BY <1>5, <1>12, <2>1
  <2>5. \A i \in 1 .. Len(log) + 1 : i \in 1 .. Len(log) \/ i = Len(log) + 1
    BY <2>1
  <2>6. Len(log) + 1 \in 1 .. Len(log) + 1 /\ \A i \in 1 .. Len(log) : i <= Len(log)
    BY <2>1
  <2>7. \A i \in DOMAIN log' : \/ (i \in DOMAIN log /\ log'[i] = log[i])
                             \/ (i = Len(log) + 1 /\ log'[i] = Q)
    <3> TAKE i \in DOMAIN log'
    <3>1. CASE i \in 1 .. Len(log)
      <4>1. i \in DOMAIN log /\ log'[i] = log[i]
        BY <2>1, <2>3, <3>1, Zenon
      <4> QED BY <4>1
    <3>2. CASE i = Len(log) + 1
      BY <2>4, <3>2
    <3> QED BY <2>2, <2>5, <3>1, <3>2
  <2>8. Len(log) + 1 \in DOMAIN log' /\ log'[Len(log) + 1] = Q
    BY <2>2, <2>4, <2>6
  <2>9. \A i \in DOMAIN log : i <= Len(log)
    BY <2>1, <2>6
  <2> QED BY <2>7, <2>8, <2>9
<1>14. SurfacedInOrder'
  <2>1. \A i \in DOMAIN log : log[i].saw \in Nat /\ log[i].saw <= known
    BY <1>1, <1>3, <1>12 DEF SurfacedInOrder, GoodRecords, Records
  <2>2. \A i \in DOMAIN log' : log'[i].saw <= known /\ log'[i].saw <= reqs
    BY <1>1, <1>10, <1>13, <2>1
  <2>3. ASSUME NEW i \in DOMAIN log', NEW j \in DOMAIN log', i < j, log'[i].kind = "review",
               log'[j].kind = "review"
        PROVE  log'[i].saw <= log'[j].saw
    <3>1. CASE j \in DOMAIN log /\ log'[j] = log[j]
      <4>1. i \in DOMAIN log /\ log'[i] = log[i]
        BY <1>12, <1>13, <2>3, <3>1
      <4> QED BY <1>1, <2>3, <3>1, <4>1 DEF SurfacedInOrder
    <3>2. CASE j = Len(log) + 1 /\ log'[j] = Q
      BY <1>10, <2>2, <3>2
    <3> QED BY <1>13, <3>1, <3>2
  <2> QED BY <1>1, <1>3, <2>2, <2>3 DEF SurfacedInOrder
<1>15. ApprovedByAll'
  BY <1>1, <1>3, <1>5, StaysApproved
<1>16. VotesAreRecorded'
  <2>1. \A q, w : RecordedOn(log, q, w, seen, known) => RecordedOn(log', q, w, seen', known')
    BY <1>1, <1>3, <1>5, StaysRecorded
  <2>2. \A q \in Reviewers : run'.res.done[q].voted =>
          RecordedOn(log', q, run'.res.done[q], seen', known')
    BY <1>1, <1>3, <1>11, <2>1 DEF VotesAreRecorded
  <2>3. RecordedOn(log', r, tally[r], seen', known')
    BY <1>3, <1>6, <1>7, <1>10, <1>13 DEF RecordedOn
  <2>4. \A q \in Reviewers : tally[q].voted => RecordedOn(log', q, tally[q], seen', known')
    BY <1>1, <1>3, <1>7, <2>1, <2>3 DEF VotesAreRecorded
  <2>5. \A q \in run.now.appr : RecordedOn(log', q, Vote({}), seen', known')
    BY <1>1, <1>3, <2>1 DEF VotesAreRecorded
  <2> QED BY <1>9, <1>11, <2>2, <2>4, <2>5 DEF VotesAreRecorded
<1> QED BY <1>3, <1>14, <1>15, <1>16 DEF Backed, GateHolds

(* What is merged is the head that every reviewer qualifies.               *)
LEMMA MergeKeepsBacking ==
  ASSUME Backed, IInv', Merge
  PROVE  Backed'
<1>1. /\ LogOK /\ SurfacedInOrder /\ VotesAreRecorded /\ GateHolds
      /\ known \in 0 .. MaxReqs /\ reqs \in Nat
  BY DEF Backed, IInv, RunOK, WorldOK
<1>2. /\ pc = "merge" /\ head = seen /\ merged' = {seen} /\ pc' = "off" /\ known' = 0
      /\ UNCHANGED <<reqs, log>>
  BY DEF Merge
<1>3. ASSUME Selective, NEW r \in Reviewers
      PROVE  RecordedOn(log, r, Vote({}), seen, known)
  <2>1. r \in run.now.appr \/ run.now.tally[r] = Vote({})
    BY <1>1, <1>2, <1>3 DEF GateHolds, QualifyingNames
  <2> QED BY <1>1, <1>2, <2>1 DEF VotesAreRecorded, Vote
<1>4. ApprovedByAll'
  BY <1>1, <1>2, <1>3 DEF ApprovedByAll, Selective
<1>5. SurfacedInOrder'
  BY <1>1, <1>2, StaysInOrder, MaxReqsAssumption DEF NoReview
<1> QED BY <1>2, <1>4, <1>5 DEF Backed, VotesAreRecorded, GateHolds

-----------------------------------------------------------------------------
(* The theorems *)

(* Before the first run there is nothing to back.                          *)
LEMMA BackedInit == Init => Backed
<1>1. Init => IInv
  BY InitOK
<1>2. Init => SurfacedInOrder /\ VotesAreRecorded /\ GateHolds /\ ApprovedByAll
  BY DEF Init, SurfacedInOrder, VotesAreRecorded, GateHolds, ApprovedByAll
<1> QED BY <1>1, <1>2 DEF Backed

(* Every step keeps every vote backed.                                     *)
LEMMA StepBacked ==
  ASSUME Backed, [Next]_vars
  PROVE  Backed'
<1>1. IInv /\ IInv'
  BY StepOK DEF Backed
<1>2. CASE \E r \in Reviewers : ReviewTurn(r)
  BY <1>1, <1>2, ReviewTurnKeepsBacking
<1>3. CASE ~ \E r \in Reviewers : ReviewTurn(r)
  <2>1. NoReview
    BY <1>1, <1>3, OnlyTurnsPostReviews
  <2>2. CASE Environment
    BY <1>1, <2>1, <2>2, OthersKeepBacking
  <2>3. CASE Start \/ BeginRound \/ Merge
    BY <1>1, <2>1, <2>3, StartKeepsBacking, BeginRoundKeepsBacking, MergeKeepsBacking
  <2>4. CASE StartRefused \/ UNCHANGED vars
    <3>1. UNCHANGED <<reqs, merged, log, pc, seen, known, run>>
      BY <2>4 DEF StartRefused, vars, github
    <3> QED BY <1>1, <3>1 DEF Backed, SurfacedInOrder, VotesAreRecorded, GateHolds, ApprovedByAll,
                              QualifyingNames, Selective
  <2>5. CASE \/ RoundLimit \/ StopIncomplete \/ GateStop \/ WatchTimeout \/ WatchInfraStop
             \/ MergeRefused \/ BlockedStop
    BY <1>1, <2>1, <2>5, StopsKeepBacking
  <2>6. CASE \/ SettleRound \/ GatePass \/ Snapshot \/ WatchPending \/ WatchPassed \/ WatchConflict
             \/ WatchFailed \/ WatchRerun \/ Finalize \/ CoderPush \/ CoderKeepsHead
             \/ \E r \in Reviewers : ReviewTurnFails(r)
    BY <1>1, <2>1, <2>6, RoundStepsKeepBacking
  <2>7. CASE PostHeadReview \/ Reconcile \/ EnterWatch \/ PersistRepair \/ Dispatch
    BY <1>1, <2>1, <2>7, PostingStepsKeepBacking
  <2>8. CASE GateRestart \/ GateSweep \/ PassedRestart \/ PassedSweep
    BY <1>1, <2>1, <2>8, RestartsKeepBacking DEF GateRestart, GateSweep, PassedRestart, PassedSweep
  <2>9. CASE WatchHeadChanged \/ CoderAccepted \/ CoderRejected
    BY <1>1, <2>1, <2>9, WatchHeadChangedBacking, CoderAcceptedBacking, CoderRejectedBacking
  <2> QED BY <1>3, <2>2, <2>3, <2>4, <2>5, <2>6, <2>7, <2>8, <2>9, Zenon DEF Next, Step
<1> QED BY <1>2, <1>3

(* Every vote and approval a run counts is on record for its exact head.   *)
THEOREM VotesBacked == SafetySpec => []Backed
  BY BackedInit, StepBacked, PTL DEF SafetySpec

(* Under the scheduled policies a merged commit was approved as exactly    *)
(* that commit by every reviewer, in reviews that surfaced the same signed *)
(* requirements: an approval of another head, one that a restarted run     *)
(* believes to have, or one that knew less than another, never counts      *)
(* (the exact-head gate of pr_loop.py, code_approval.py).                  *)
HeadWasApproved ==
  \A h \in merged : \E k \in 0 .. MaxReqs : \A r \in Reviewers :
    \E i \in DOMAIN log :
      /\ log[i].kind = "review" /\ log[i].head = h /\ log[i].saw = k
      /\ log[i].tally[r].voted /\ log[i].tally[r].blocks = {}

(* No run merges what was not approved as exactly this commit.             *)
THEOREM ExactHeadApproval ==
  ASSUME Selective
  PROVE  SafetySpec => []HeadWasApproved
<1>1. Backed => HeadWasApproved
  <2> SUFFICES ASSUME Backed, NEW h \in merged
               PROVE  \E k \in 0 .. MaxReqs : \A r \in Reviewers :
                        \E i \in DOMAIN log :
                          /\ log[i].kind = "review" /\ log[i].head = h /\ log[i].saw = k
                          /\ log[i].tally[r].voted /\ log[i].tally[r].blocks = {}
    BY DEF HeadWasApproved
  <2>1. PICK k \in 0 .. MaxReqs : \A r \in Reviewers : RecordedOn(log, r, Vote({}), h, k)
    BY DEF Backed, ApprovedByAll
  <2>2. ASSUME NEW r \in Reviewers
        PROVE  \E i \in DOMAIN log :
                 /\ log[i].kind = "review" /\ log[i].head = h /\ log[i].saw = k
                 /\ log[i].tally[r].voted /\ log[i].tally[r].blocks = {}
    BY <2>1 DEF RecordedOn, Vote
  <2> QED BY <2>2
<1> QED BY <1>1, VotesBacked, PTL

(* A run that commits itself to merging has surfaced, in the last review   *)
(* of each reviewer, every signed requirement posted until then.           *)
LEMMA CommitStep ==
  ASSUME Selective, Backed, [Next]_vars
  PROVE  [CommitIsSurfaced]_vars
<1> SUFFICES ASSUME pc = "passed", pc' = "merge", NEW r \in Reviewers,
                    ReviewsIn(r, On(log, seen)) # {}
             PROVE  LastReview(r, seen).saw = reqs
  BY DEF CommitIsSurfaced
<1>1. Finalize
  BY DEF Next, Environment, HumanPush, PostRequirement, CiReports, RerunFailed, BaseMoves, Crash, Stop,
         Halt, Step, Start, StartFrom, StartRefused, RoundLimit, PostHeadReview, BeginRound, ReviewTurn,
         ReviewTurnFails, Reconcile, StopIncomplete, SettleRound, GateRestart, GateSweep, GateStop,
         GatePass, Snapshot, EnterWatch, WatchTimeout, WatchPending, WatchPassed, WatchConflict,
         WatchFailed, WatchRerun, WatchInfraStop, WatchHeadChanged, PassedRestart, PassedSweep,
         RestartOnLiveHead, SweepNextRound, Merge, MergeRefused, BlockedStop, PersistRepair, Dispatch,
         CoderPush, CoderKeepsHead, CoderAccepted, CoderRejected, Polling, vars
<1>2. reqs = known
  BY <1>1 DEF Finalize
<1>3. RecordedOn(log, r, Vote({}), seen, known)
  <2>1. r \in run.now.appr \/ run.now.tally[r] = Vote({})
    BY DEF Backed, GateHolds, QualifyingNames
  <2> QED BY <2>1 DEF Backed, VotesAreRecorded, Vote
<1> DEFINE T == ReviewsIn(r, On(log, seen))
           last == Latest(T)
<1>4. log \in Seq(Records) /\ T \in SUBSET DOMAIN log /\ T # {}
  BY WellFormedLog DEF WellFormed, Backed, IInv, ReviewsIn, On
<1>5. last \in T /\ last \in DOMAIN log /\ \A j \in T : j <= last
  <2>1. DOMAIN log = 1 .. Len(log) /\ Len(log) \in Nat
    BY <1>4
  <2> HIDE DEF T
  <2> QED BY <1>4, <2>1, LatestIn
<1>6. log[last].kind = "review" /\ log[last].saw \in Nat
  <2>1. log[last] \in Records
    BY <1>4, <1>5
  <2> HIDE DEF last
  <2> QED BY <1>5, <2>1 DEF ReviewsIn, Records
<1>7. PICK i \in DOMAIN log : /\ log[i].kind = "review" /\ log[i].head = seen /\ log[i].saw = known
                              /\ log[i].tally[r] = Vote({})
  BY <1>3 DEF RecordedOn
<1>8. i \in T
  BY <1>7 DEF ReviewsIn, On, Vote
<1> HIDE DEF T, last
<1>9. i = last \/ i < last
  BY <1>4, <1>5, <1>7, <1>8
<1>10. known <= log[last].saw /\ log[last].saw <= known /\ known \in Nat
  BY <1>5, <1>6, <1>7, <1>9 DEF Backed, SurfacedInOrder, IInv, RunOK
<1> QED BY <1>2, <1>6, <1>10 DEF LastReview, last, T

(* So no signed requirement posted before the commitment is missed by a    *)
(* review that counts for it (the second requirement snapshot of           *)
(* pr_loop.py).                                                            *)
THEOREM CommitSurfaces ==
  ASSUME Selective
  PROVE  SafetySpec => CommitSurfacesRequirements
<1>1. Backed /\ [Next]_vars => [CommitIsSurfaced]_vars
  BY CommitStep
<1> QED BY <1>1, VotesBacked, PTL DEF SafetySpec, CommitSurfacesRequirements

-----------------------------------------------------------------------------
(* The staged policy *)

(* An opening of the panel stays one.                                      *)
LEMMA OpeningsStay ==
  ASSUME LogOK, log' = log \/ \E x : log' = Append(log, x)
  PROVE  PostedOpenings(log) \subseteq PostedOpenings(log')
<1> SUFFICES ASSUME NEW i \in PostedOpenings(log) PROVE i \in PostedOpenings(log')
  OBVIOUS
<1>1. i \in DOMAIN log /\ log[i].opens
  BY DEF PostedOpenings
<1>2. PICK j \in ReviewsOf(log, Primary, log[i].head) : j < i /\ log[j].tally[Primary].blocks = {}
  BY DEF PostedOpenings
<1>3. j \in DOMAIN log /\ log[j].head = log[i].head /\ log[j].kind = "review"
      /\ log[j].tally[Primary].voted
  BY DEF ReviewsOf, On
<1>4. log \in Seq(GoodRecords)
  BY DEF LogOK
<1>5. i \in DOMAIN log' /\ log'[i] = log[i] /\ j \in DOMAIN log' /\ log'[j] = log[j]
  BY <1>1, <1>3, <1>4
<1>6. j \in ReviewsOf(log', Primary, log'[i].head)
  BY <1>3, <1>5 DEF ReviewsOf, On
<1> QED BY <1>1, <1>2, <1>5, <1>6 DEF PostedOpenings

(* Where no review is posted the secondaries have waited as before.        *)
LEMMA StaysWaiting ==
  ASSUME LogOK, SecondariesWaitForPrimary, NoReview
  PROVE  SecondariesWaitForPrimary'
<1> SUFFICES ASSUME Staged, NEW r \in Secondaries, NEW i \in ReviewsIn(r, DOMAIN log)'
             PROVE  \E j \in PostedOpenings(log') : j < i
  BY DEF SecondariesWaitForPrimary, Staged, Secondaries
<1>1. log \in Seq(GoodRecords)
  BY DEF LogOK
<1>2. i \in DOMAIN log' /\ log'[i].kind = "review" /\ log'[i].tally[r].voted
  BY DEF ReviewsIn
<1>3. log' = log \/ \E x : log' = Append(log, x) /\ x.kind # "review"
  BY DEF NoReview
<1>4. i \in DOMAIN log /\ log'[i] = log[i]
  <2>1. CASE log' = log
    BY <1>2, <2>1
  <2>2. CASE \E x : log' = Append(log, x) /\ x.kind # "review"
    <3>1. PICK x : log' = Append(log, x) /\ x.kind # "review"
      BY <2>2
    <3>2. (i \in DOMAIN log /\ log'[i] = log[i]) \/ log'[i] = x
      BY <1>1, <1>2, <3>1
    <3> QED BY <1>2, <3>1, <3>2
  <2> QED BY <1>3, <2>1, <2>2
<1>5. i \in ReviewsIn(r, DOMAIN log)
  BY <1>2, <1>4 DEF ReviewsIn
<1>6. PICK j \in PostedOpenings(log) : j < i
  BY <1>5 DEF SecondariesWaitForPrimary
<1> QED BY <1>3, <1>6, OpeningsStay

(* A round that asks a secondary is launched on an opened panel, or opens  *)
(* it with its own prelaunch record.                                       *)
LEMMA LaunchOpensPanel ==
  ASSUME IInv, Staged, NEW probe \in Probe, NEW narrow \in BOOLEAN,
         Launch(Plan(probe, narrow)), LaunchIsDue(Plan(probe, narrow)),
         run'.now.todo \cap Secondaries # {}
  PROVE  PostedOpenings(log') # {}
<1> DEFINE P == Plan(probe, narrow)
           todo == IF P.skip THEN {} ELSE P.turns
           ex == P.ext
           sk == P.skip
           ap == P.appr
           tally == IF P.skip THEN NoTally ELSE run.res.done
           N == [NoTurns EXCEPT !.ext = ex, !.skip = sk, !.appr = ap, !.todo = todo,
                   !.tally = tally]
           R == Record("prelaunch", seen, run.round, P.led)
           op == P.D.phase = "secondary-audit"
           la == P.latch
           Q == [R EXCEPT !.opens = op, !.force = la]
<1>1. LogOK /\ run \in RunStates /\ log \in Seq(GoodRecords) /\ log \in Seq(Records)
  BY WellFormedLog DEF IInv, RunOK, LogOK, WellFormed
<1>2. run'.now.todo = todo
  <2> DEFINE L == P.led
             ck == P.cks
             fb == P.skip /\ P.fallback
             fo == Selective /\ P.latch
  <2>1. run' = [run EXCEPT !.led = L, !.ck = ck, !.sweep = FALSE, !.fallback = fb, !.force = fo,
                  !.now = N]
    BY DEF Launch
  <2> HIDE DEF P, todo, tally, ex, sk, ap, L, ck, fb, fo
  <2>2. N.todo = todo
    BY DEF NoTurns
  <2> HIDE DEF N
  <2>3. run'.now = N
    BY <1>1, <2>1 DEF RunStates
  <2> QED BY <2>2, <2>3
<1>3. ~P.skip /\ P.turns \cap Secondaries # {}
  BY <1>2
<1>4. CASE Opened(log)
  <2>1. log' = log \/ \E x : log' = Append(log, x)
    BY DEF Launch, Post
  <2> QED BY <1>1, <1>4, <2>1, OpeningsStay DEF Opened, Openings
<1>5. CASE ~Opened(log)
  <2>1. PICK s : P.D = SelectReviewers(s) /\ s.approvals = Approvals(log, seen, known)
                 /\ s.opened = Opened(log)
    <3> DEFINE L == ReconcileConflict(AdvanceForHead(run.led, seen), probe, head, seen)
               appr == Approvals(log, seen, known)
               stale == CheckpointStale(L, appr)
               cks == IF stale THEN {} ELSE run.ck
               ext == SkipForRecovery(cks)
               reasons == run.fallback \/ (Staged /\ (stale \/ MissingSchedulerMetadata \/ LedgerChanged(L)))
               latch == run.force
                 \/ (Policy = "selective-intermediate" /\ (stale \/ LedgerChanged(L)))
                 \/ (Staged /\ Opened(log) /\ (reasons \/ PanelLatched(log)))
               ow == Owners(L)
               ac == Active(L)
               fo == IF Staged THEN (IF Opened(log) THEN latch ELSE reasons)
                     ELSE latch \/ MissingSchedulerMetadata
               sw == run.sweep \/ stale \/ ext \/ (PreviousHead # NoHead /\ ~Active(L))
               s == [approvals |-> appr, owners |-> ow, active |-> ac, narrow |-> narrow,
                     opened |-> Opened(log), force |-> fo, sweep |-> sw]
    <3>1. P.D = SelectReviewers(s)
      BY DEF Plan
    <3> HIDE DEF P, ow, ac, fo, sw
    <3>2. s.approvals = appr /\ s.opened = Opened(log)
      OBVIOUS
    <3> HIDE DEF s
    <3> QED BY <3>1, <3>2
  <2>2. P.turns \subseteq P.D.selected
    BY DEF Plan, NeedsTurn
  <2>3. P.D = PrePanel(s)
    <3>1. Policy = "primary-then-panel" /\ ~s.opened
      BY <1>5, <2>1 DEF Staged
    <3> HIDE DEF P
    <3> QED BY <2>1, <3>1 DEF SelectReviewers
  <2>4. P.D.phase = "secondary-audit" /\ Primary \in s.approvals
    <3> HIDE DEF P
    <3> QED BY <1>3, <2>2, <2>3 DEF PrePanel, Decision, Secondaries
  <2>5. ~P.shut /\ P.D.selected # {} /\ Selective
    BY <1>3, <2>2 DEF LaunchIsDue, Staged, Selective
  <2>6. log' = Append(log, Q)
    BY <1>3, <2>5 DEF Launch, Post
  <2>7. R.head = seen /\ Q.head = R.head /\ Q.opens = op
    <3> HIDE DEF P
    <3>1. R.head = seen
      BY DEF Record
    <3> HIDE DEF op, la
    <3> QED BY <3>1 DEF Record
  <2>8. Approves(log, Primary, seen, known)
    BY <2>1, <2>4 DEF Approvals
  <2> HIDE DEF P, Q, R
  <2> DEFINE mine == {i \in ReviewsOf(log, Primary, seen) : Qualified(log, Primary, i)}
             j == Latest(mine)
             n == Len(log) + 1
  <2>9. mine # {} /\ log[j].tally[Primary].blocks = {}
    BY <2>8 DEF Approves
  <2>10. mine \in SUBSET DOMAIN log
    BY DEF ReviewsOf, On
  <2>11. j \in mine
    BY <1>1, <2>9, <2>10, LatestRecord
  <2>12. /\ j \in DOMAIN log /\ log[j].head = seen /\ log[j].kind = "review"
         /\ log[j].tally[Primary].voted
    BY <2>11 DEF ReviewsOf, On
  <2> HIDE DEF mine, j
  <2>13. /\ j \in DOMAIN log' /\ log'[j] = log[j] /\ n \in DOMAIN log' /\ log'[n] = Q /\ j < n
    <3>1. DOMAIN log = 1 .. Len(log) /\ Len(log) \in Nat
      BY <1>1
    <3>2. j \in 1 .. Len(log)
      BY <2>12, <3>1
    <3>3. j \in DOMAIN log' /\ log'[j] = log[j]
      BY <1>1, <2>6, <2>12
    <3>4. n \in DOMAIN log' /\ log'[n] = Q
      BY <1>1, <2>6
    <3> QED BY <3>1, <3>2, <3>3, <3>4
  <2> HIDE DEF n
  <2>14. j \in ReviewsOf(log', Primary, log'[n].head)
    BY <2>7, <2>12, <2>13 DEF ReviewsOf, On
  <2>15. n \in PostedOpenings(log')
    BY <2>4, <2>7, <2>9, <2>13, <2>14 DEF PostedOpenings
  <2> QED BY <2>15
<1> QED BY <1>4, <1>5

-----------------------------------------------------------------------------
(* No secondary before the panel *)

(* The invariant of the panel: a secondary that is due has an open panel.  *)
PanelInv == IInv /\ PanelIsOpen /\ SecondariesWaitForPrimary

(* Reviewers are asked where a round is launched, and nowhere else.        *)
LEMMA AskedAtLaunch ==
  ASSUME IInv, [Next]_vars, pc' = "review"
  PROVE  BeginRound \/ (pc = "review" /\ run'.now.todo \subseteq run.now.todo)
<1>1. run \in RunStates
  BY DEF IInv, RunOK
<1>2. CASE \E r \in Reviewers : ReviewTurn(r) \/ ReviewTurnFails(r)
  <2>1. PICK r \in Reviewers : ReviewTurn(r) \/ ReviewTurnFails(r)
    BY <1>2
  <2>2. CASE ReviewTurn(r)
    <3>1. PICK B \in SUBSET (Open(run.led) \cup {r}) :
            run' = [run EXCEPT !.now.todo = @ \ {r}, !.now.tally[r] = Vote(B)]
      BY <2>2 DEF ReviewTurn
    <3> DEFINE v == Vote(B)
               todo == run.now.todo \ {r}
               tally == [run.now.tally EXCEPT ![r] = v]
               N == [run.now EXCEPT !.todo = todo, !.tally = tally]
    <3>2. run' = [run EXCEPT !.now = N]
      <4> HIDE DEF v
      <4>1. run' = [run EXCEPT !.now.todo = run.now.todo \ {r}, !.now.tally[r] = v]
        BY <3>1 DEF v
      <4> QED BY <1>1, <4>1 DEF RunStates, RoundStates
    <3>3. N.todo = todo
      <4> HIDE DEF tally, todo
      <4> QED BY <1>1 DEF RunStates, RoundStates
    <3> HIDE DEF N
    <3>4. run'.now = N
      BY <1>1, <3>2 DEF RunStates
    <3> QED BY <2>2, <3>3, <3>4 DEF ReviewTurn
  <2>3. CASE ReviewTurnFails(r)
    <3> DEFINE todo == run.now.todo \ {r}
               N == [run.now EXCEPT !.todo = todo, !.failed = TRUE]
    <3>1. run' = [run EXCEPT !.now = N]
      BY <1>1, <2>3 DEF ReviewTurnFails, RunStates, RoundStates
    <3>2. N.todo = todo
      <4> HIDE DEF todo
      <4> QED BY <1>1 DEF RunStates, RoundStates
    <3> HIDE DEF N
    <3>3. run'.now = N
      BY <1>1, <3>1 DEF RunStates
    <3> QED BY <2>3, <3>2, <3>3 DEF ReviewTurnFails
  <2> QED BY <2>1, <2>2, <2>3
<1>3. CASE ~ \E r \in Reviewers : ReviewTurn(r) \/ ReviewTurnFails(r)
  BY <1>3 DEF Next, Environment, HumanPush, PostRequirement, CiReports, RerunFailed, BaseMoves, Crash,
       Stop, Halt, Step, Start, StartFrom, StartRefused, RoundLimit, PostHeadReview, Reconcile, StopIncomplete,
       SettleRound, GateRestart, GateSweep, GateStop, GatePass, Snapshot, EnterWatch, WatchTimeout,
       WatchPending, WatchPassed, WatchConflict, WatchFailed, WatchRerun, WatchInfraStop,
       WatchHeadChanged, PassedRestart, PassedSweep, RestartOnLiveHead, SweepNextRound, Finalize, Merge,
       MergeRefused, BlockedStop, PersistRepair, Dispatch, CoderPush, CoderKeepsHead, CoderAccepted,
       CoderRejected, Polling, vars
<1> QED BY <1>2, <1>3

(* A secondary that is asked reviews after the panel was opened.           *)
LEMMA TurnWaits ==
  ASSUME PanelInv, NEW q \in Reviewers, ReviewTurn(q)
  PROVE  SecondariesWaitForPrimary'
<1>1. LogOK /\ pc = "review" /\ q \in run.now.todo
  BY DEF PanelInv, IInv, ReviewTurn
<1>2. PICK B : Post([Record("review", seen, run.round, run.led) EXCEPT
                       !.tally = [NoTally EXCEPT ![q] = Vote(B)], !.saw = known, !.force = run.force])
  BY DEF ReviewTurn
<1> DEFINE one == [NoTally EXCEPT ![q] = Vote(B)]
           f == run.force
           Q == [Record("review", seen, run.round, run.led) EXCEPT !.tally = one, !.saw = known, !.force = f]
<1>3. log' = Append(log, Q)
  BY <1>2 DEF Post
<1>4. \A r \in Reviewers : one[r].voted => r = q
  BY DEF NoTally, NoVote
<1> HIDE DEF one, f
<1>5. Q.tally = one
  BY DEF Record
<1> HIDE DEF Q
<1> SUFFICES ASSUME Staged, NEW r \in Secondaries, NEW i \in ReviewsIn(r, DOMAIN log)'
             PROVE  \E j \in PostedOpenings(log') : j < i
  BY DEF SecondariesWaitForPrimary, Staged, Secondaries
<1>6. log \in Seq(GoodRecords)
  BY <1>1 DEF LogOK
<1>7. i \in DOMAIN log' /\ log'[i].kind = "review" /\ log'[i].tally[r].voted
  BY DEF ReviewsIn
<1>8. PostedOpenings(log) \subseteq PostedOpenings(log')
  BY <1>1, <1>3, OpeningsStay
<1>9. CASE i \in DOMAIN log
  <2>1. log'[i] = log[i]
    BY <1>3, <1>6, <1>9
  <2>2. i \in ReviewsIn(r, DOMAIN log)
    BY <1>7, <1>9, <2>1 DEF ReviewsIn
  <2> QED BY <1>8, <2>2 DEF PanelInv, SecondariesWaitForPrimary
<1>10. CASE i \notin DOMAIN log
  <2>1. DOMAIN log = 1 .. Len(log) /\ Len(log) \in Nat
    BY <1>6
  <2>2. i = Len(log) + 1 /\ log'[i] = Q
    BY <1>3, <1>6, <1>7, <1>10
  <2>3. r = q
    BY <1>4, <1>5, <1>7, <2>2 DEF Secondaries
  <2>4. PICK j \in PostedOpenings(log) : TRUE
    BY <1>1, <2>3 DEF PanelInv, PanelIsOpen
  <2>5. j \in 1 .. Len(log)
    BY <2>1 DEF PostedOpenings
  <2> QED BY <1>8, <2>1, <2>2, <2>4, <2>5
<1> QED BY <1>9, <1>10

(* Every step keeps the panel closed to the secondaries until it is opened. *)
LEMMA StepWaits ==
  ASSUME PanelInv, [Next]_vars
  PROVE  PanelInv'
<1>1. IInv /\ IInv' /\ LogOK
  BY StepOK DEF PanelInv, IInv
<1>2. SecondariesWaitForPrimary' /\ (log' = log \/ \E x : log' = Append(log, x))
  <2>1. CASE \E r \in Reviewers : ReviewTurn(r)
    BY <2>1, TurnWaits DEF ReviewTurn, Post
  <2>2. CASE ~ \E r \in Reviewers : ReviewTurn(r)
    <3>1. NoReview
      BY <1>1, <2>2, OnlyTurnsPostReviews
    <3> QED BY <1>1, <3>1, StaysWaiting DEF PanelInv, NoReview
  <2> QED BY <2>1, <2>2
<1>3. PanelIsOpen'
  <2> SUFFICES ASSUME Staged, pc' = "review", run'.now.todo \cap Secondaries # {}
               PROVE  PostedOpenings(log') # {}
    BY DEF PanelIsOpen, Staged, Secondaries
  <2>1. CASE BeginRound
    <3>1. PICK probe \in Probe, narrow \in BOOLEAN :
            \/ Stop
            \/ Plan(probe, narrow).shut /\ RollOver(Plan(probe, narrow))
            \/ Launch(Plan(probe, narrow)) /\ LaunchIsDue(Plan(probe, narrow))
      BY <2>1, BeginRoundCases
    <3>2. Launch(Plan(probe, narrow)) /\ LaunchIsDue(Plan(probe, narrow))
      BY <3>1 DEF Stop, Halt, RollOver
    <3> QED BY <1>1, <3>2, LaunchOpensPanel
  <2>2. CASE pc = "review" /\ run'.now.todo \subseteq run.now.todo
    <3>1. PostedOpenings(log) # {}
      BY <2>2 DEF PanelInv, PanelIsOpen
    <3> QED BY <1>1, <1>2, <3>1, OpeningsStay
  <2> QED BY <1>1, <2>1, <2>2, AskedAtLaunch
<1> QED BY <1>1, <1>2, <1>3 DEF PanelInv

(* Under the staged policy no review of a secondary is ever posted before  *)
(* the primary approved a head and the panel was opened on it, across      *)
(* crashes, restarts, stale checkpoints and forced full boards             *)
(* (panel_evidence.py, PrePanel).                                          *)
THEOREM PanelSafety == SafetySpec => []SecondariesWaitForPrimary
<1>1. Init => PanelInv
  <2>1. Init => IInv
    BY InitOK
  <2>2. Init => PanelIsOpen /\ SecondariesWaitForPrimary
    BY DEF Init, PanelIsOpen, SecondariesWaitForPrimary, ReviewsIn
  <2> QED BY <2>1, <2>2 DEF PanelInv
<1>2. PanelInv /\ [Next]_vars => PanelInv'
  BY StepWaits
<1>3. PanelInv => SecondariesWaitForPrimary
  BY DEF PanelInv
<1> QED BY <1>1, <1>2, <1>3, PTL DEF SafetySpec
=============================================================================
