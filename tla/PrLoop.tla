------------------------------- MODULE PrLoop -------------------------------
(***************************************************************************)
(* The pull-request review loop (pr_loop.py: run_pr_loop) with automatic   *)
(* merge and a foreground watch of the ordinary GitHub checks.             *)
(*                                                                         *)
(* One run at a time works on the pull request.  It resumes from the       *)
(* records of earlier runs, then repeats rounds: schedule reviewers,       *)
(* collect their reviews, settle the ledger, and either hand the open      *)
(* items to the coder or pass the exact-head gate, watch CI and merge.     *)
(* Every post is a step of its own, so that a run may die between any two  *)
(* of them.  Meanwhile anybody may push to the branch (also back to an     *)
(* older commit), the base may move, CI reports, and people post signed    *)
(* requirements.                                                           *)
(***************************************************************************)
EXTENDS RoundLog, FiniteSets

CONSTANTS
  FirstHead,    \* the head the pull request was opened with
  Parallel,     \* reviewers run in parallel
  CiResults,    \* what CI may answer: "passing", "failing", "plumbing"
  Conflicting,  \* the heads a moving base may make conflict
  Pushers,      \* who may push: "coder", "human"
  MaxPushes,    \* bound on pushes to the branch
  MaxRuns,      \* bound on runs of the loop
  WatchBudget,  \* polls of one run's shared CI watch budget
  Failures      \* reviewers whose turns may fail

ASSUME FirstHeadAssumption == FirstHead \in Heads
ASSUME ParallelAssumption == Parallel \in BOOLEAN
ASSUME CiResultsAssumption == CiResults \subseteq {"passing", "failing", "plumbing"}
ASSUME ConflictingAssumption == Conflicting \subseteq Heads
ASSUME BoundsAssumption == MaxPushes \in Nat /\ MaxRuns \in Nat /\ WatchBudget \in Nat
ASSUME FailuresAssumption == Failures \subseteq Reviewers

VARIABLES
  head,    \* live head of the pull request
  ci,      \* the check board of each head
  clash,   \* the heads that conflict with the live base
  reqs,    \* how many signed human requirements are posted
  merged,  \* the merged head, once there is one
  pushes,  \* how many pushes there have been (bounded by MaxPushes)
  log,     \* the posted round records
  runs,    \* how many runs have started (bounded by MaxRuns)
  pc,      \* where the current run is
  seen,    \* the head of the current round
  known,   \* the requirements the current round surfaces
  run      \* the other local variables of the run

github == <<head, ci, clash, reqs, merged, pushes>>
vars == <<github, log, runs, pc, seen, known, run>>

FullBudget == [allowed |-> MaxRounds, failExt |-> FALSE, headExt |-> FALSE]
BudgetInBounds(b) == MaxRounds <= b.allowed /\ b.allowed <= MaxRounds + 2

(* What the current round has of the resumed one (current_resume).         *)
NotResumed == [on |-> FALSE, advance |-> FALSE, attempt |-> 0, done |-> NoTally,
               closed |-> {}, reconciled |-> FALSE]

(* What has happened in the current round.                                 *)
NoTurns == [ext |-> FALSE, skip |-> FALSE, appr |-> {}, todo |-> {}, tally |-> NoTally,
            failed |-> FALSE, dispatched |-> 0]

(* The locals of a run.                                                    *)
Idle ==
  [round |-> 1, budget |-> FullBudget, led |-> EmptyLedger, ck |-> {}, sweep |-> FALSE,
   fallback |-> FALSE, force |-> FALSE, res |-> NotResumed, now |-> NoTurns,
   polls |-> WatchBudget, rerun |-> {}, same |-> NoHead, count |-> 0, conflictFrom |-> NoHead]

Init ==
  /\ head = FirstHead
  /\ ci = [h \in Heads |-> "pending"]
  /\ clash = {}
  /\ reqs = 0
  /\ merged = {}
  /\ pushes = 0
  /\ log = <<>>
  /\ runs = 0
  /\ pc = "off"
  /\ seen = NoHead
  /\ known = 0
  /\ run = Idle

-----------------------------------------------------------------------------
(* The rest of the world *)

Push(h) ==
  /\ pushes < MaxPushes /\ merged = {} /\ h # head
  /\ head' = h
  /\ pushes' = pushes + 1
  /\ UNCHANGED <<ci, clash, reqs, merged>>

HumanPush ==
  /\ "human" \in Pushers
  /\ \E h \in Heads : Push(h)
  /\ UNCHANGED <<log, runs, pc, seen, known, run>>

PostRequirement ==
  /\ reqs < MaxReqs /\ merged = {}
  /\ reqs' = reqs + 1
  /\ UNCHANGED <<head, ci, clash, merged, pushes, log, runs, pc, seen, known, run>>

CiReports ==
  /\ ci[head] = "pending"
  /\ \E result \in CiResults : ci' = [ci EXCEPT ![head] = result]
  /\ UNCHANGED <<head, clash, reqs, merged, pushes, log, runs, pc, seen, known, run>>

(* Somebody has the failed checks of the head rerun.                       *)
RerunFailed ==
  /\ ci[head] = "failing"
  /\ ci' = [ci EXCEPT ![head] = "pending"]
  /\ UNCHANGED <<head, clash, reqs, merged, pushes, log, runs, pc, seen, known, run>>

BaseMoves ==
  /\ head \in Conflicting \ clash
  /\ clash' = clash \cup {head}
  /\ UNCHANGED <<head, ci, reqs, merged, pushes, log, runs, pc, seen, known, run>>

(* GitHub's answer about the mergeability of the live head; it may be      *)
(* unknown while it recomputes after the base moved.                       *)
Probe ==
  {IF head \in clash THEN "conflicted" ELSE "mergeable"}
    \cup (IF clash = {} THEN {} ELSE {"unknown"})

-----------------------------------------------------------------------------
(* Start, stop, crash *)

Post(record) == log' = Append(log, record)

Halt ==
  /\ pc' = "off" /\ seen' = NoHead /\ known' = 0 /\ run' = Idle
  /\ UNCHANGED <<github, runs>>

Stop == Halt /\ UNCHANGED log

Crash == pc # "off" /\ Stop

(* Completed reviews of the resumed round are used again only if they      *)
(* surfaced the requirements known now.                                    *)
StillCurrent(S, k) == TallyOf(log, {i \in S : log[i].saw = k})

(* A run begins from what the records of the live head left to resume, R.  *)
StartFrom(R) ==
  LET carried == {c.budget : c \in R.ck} \cup (IF R.ck = {} THEN R.budget ELSE {})
      valid == \A b \in carried : BudgetInBounds(b)
  IN  /\ pc = "off" /\ merged = {} /\ runs < MaxRuns /\ R.how # "refused"
      /\ runs' = runs + 1
      /\ seen' = head
      /\ known' = reqs
      /\ pc' = IF R.post THEN "handoff" ELSE "round"
      /\ run' = [Idle EXCEPT
           !.round = R.round, !.led = R.led,
           !.budget = IF carried # {} /\ valid THEN CHOOSE b \in carried : TRUE ELSE FullBudget,
           !.ck = IF valid THEN R.ck ELSE {},
           !.sweep = Selective /\ (~valid \/ R.external),
           !.fallback = Staged /\ ~valid,
           !.force = StartupLatched(log) \/ (Policy = "selective-intermediate" /\ ~valid),
           !.res = [on |-> R.how = "resumed", advance |-> R.advance, attempt |-> R.attempt,
                    done |-> StillCurrent(R.reviews, reqs), closed |-> R.closed,
                    reconciled |-> R.reconciled]]
      /\ UNCHANGED <<github, log>>

Start == StartFrom(Resume(log, head))

(* The metadata-backed handoff cannot be recovered: the run refuses.       *)
StartRefused ==
  /\ pc = "off" /\ merged = {} /\ runs < MaxRuns /\ Resume(log, head).how = "refused"
  /\ runs' = runs + 1
  /\ UNCHANGED <<github, log, pc, seen, known, run>>

RoundLimit == pc \in {"handoff", "round"} /\ run.round > run.budget.allowed /\ Stop

PostHeadReview ==
  /\ pc = "handoff" /\ run.round <= run.budget.allowed
  /\ Post([Record("headreview", seen, run.round, run.led) EXCEPT !.budget = {run.budget}])
  /\ pc' = "round"
  /\ UNCHANGED <<github, runs, seen, known, run>>

-----------------------------------------------------------------------------
(* The start of a round: validate the checkpoint, bind the ledger to the   *)
(* head, probe the merge conflict, schedule the reviewers.                 *)

CheckpointHeadMatches(c) ==
  IF c.life = "repair" THEN c.failed = seen ELSE c.cand = seen /\ c.failed # seen

ReviewIdentityMatches(c, L, appr) ==
  c.life \in {"ready", "qualifying"} =>
    appr = Reviewers /\ c.appr = Reviewers /\ c.reqs = known /\ c.sched = L

CheckpointStale(L, appr) ==
  \E c \in run.ck :
    \/ ~HasCi(run.led) \/ ~CheckpointHeadMatches(c)
    \/ c.reqs \notin {-1, known}
    \/ ~ReviewIdentityMatches(c, L, appr)

SkipForRecovery(cks) ==
  run.res.on /\ (run.res.advance \/ \E c \in cks : c.life \in {"repair", "ready", "qualifying"})

(* The records of the head that a scheduling decision reads.               *)
HeadRecords == On(log, seen) \cap Read(log)

MissingSchedulerMetadata ==
  \/ Read(log) # {} /\ OfKind(log, Read(log), Scheduled) = {}
  \/ HeadRecords # {} /\ OfKind(log, HeadRecords, Scheduled) = {}

(* The coder record of the head, while nothing was posted on it since.     *)
CurrentCoder ==
  {i \in OfKind(log, HeadRecords, {"coder"}) : \A j \in HeadRecords : j <= i}

PreviousHead ==
  LET all == OfKind(log, Read(log), Scheduled)
  IN  CASE CurrentCoder # {} -> log[Latest(CurrentCoder)].prev
        [] CurrentCoder = {} /\ HeadRecords # {} -> seen
        [] CurrentCoder = {} /\ HeadRecords = {} ->
             IF all = {} THEN NoHead ELSE log[Latest(all)].head

LedgerChanged(L) ==
  LET digests == OfKind(log, HeadRecords, Scheduled)
  IN  \/ \E i \in CurrentCoder : log[i].led # L
      \/ HasCi(L) /\ digests # {} /\ log[Latest(digests)].led # L

(* How a transition may be classified; the diff against the fix scopes of  *)
(* the findings decides where the code's other conditions leave it open.   *)
Classifications(L, ext) ==
  CASE ext \/ MissingSchedulerMetadata \/ PreviousHead = NoHead \/ HasCi(L) \/ HasConflict(L)
         -> {FALSE}
    [] OTHER -> IF Open(L) # {} THEN BOOLEAN ELSE {PreviousHead = seen}

Owners(L) == UNION {L.items[i] : i \in Reviewers}

NeedsTurn(r, selected, appr) ==
  /\ ~run.res.done[r].voted
  /\ r \in selected
  /\ ~(r \in appr /\ ApprovalRound(log, r, seen) < run.round)

(* The values of a round start, from the probe and the classification.     *)
Plan(probe, narrow) ==
  LET L == ReconcileConflict(AdvanceForHead(run.led, seen), probe, head, seen)
      appr == Approvals(log, seen, known)
      stale == CheckpointStale(L, appr)
      cks == IF stale THEN {} ELSE run.ck
      ext == SkipForRecovery(cks)
      reasons == run.fallback \/ (Staged /\ (stale \/ MissingSchedulerMetadata \/ LedgerChanged(L)))
      latch == run.force
        \/ (Policy = "selective-intermediate" /\ (stale \/ LedgerChanged(L)))
        \/ (Staged /\ Opened(log) /\ (reasons \/ PanelLatched(log)))
      D == SelectReviewers(
             [approvals |-> appr, owners |-> Owners(L), active |-> Active(L), narrow |-> narrow,
              opened |-> Opened(log),
              force |-> IF Staged THEN (IF Opened(log) THEN latch ELSE reasons)
                        ELSE latch \/ MissingSchedulerMetadata,
              sweep |-> run.sweep \/ stale \/ ext \/ (PreviousHead # NoHead /\ ~Active(L))])
  IN  [led |-> L, appr |-> appr, cks |-> cks, ext |-> ext, D |-> D, stale |-> stale,
       skip |-> ext \/ HasConflict(L), fallback |-> run.fallback \/ (Staged /\ stale),
       latch |-> latch \/ (Staged /\ Opened(log) /\ D.phase = "full-board"),
       turns |-> {r \in Reviewers : NeedsTurn(r, D.selected, appr)},
       shut |-> run.res.closed # {} /\ ~ext /\ ~HasConflict(L)]

NextRound(r) == [r EXCEPT !.round = @ + 1, !.res = NotResumed, !.now = NoTurns]

(* Mutant of RollOver: the ledger of the closed round is not settled.      *)
RollOverUnsettled(P) ==
  /\ LET c == CHOOSE x \in run.res.closed : TRUE
     IN  run' = NextRound([run EXCEPT !.led = c.led, !.ck = P.cks,
                             !.sweep = run.sweep \/ (Selective /\ P.stale),
                             !.fallback = P.fallback, !.force = Selective /\ P.latch])
  /\ pc' = "round"
  /\ seen' = head /\ known' = reqs
  /\ UNCHANGED <<github, log, runs>>

(* Fresh turns are needed in a round that is already reconciled: settle it *)
(* from its reconciliation record and open the next round.                 *)
RollOver(P) ==
  /\ LET c == CHOOSE x \in run.res.closed : TRUE
     IN  run' = NextRound([run EXCEPT !.led = Settle(Selective, c.led, c.tally), !.ck = P.cks,
                             !.sweep = run.sweep \/ (Selective /\ P.stale),
                             !.fallback = P.fallback, !.force = Selective /\ P.latch])
  /\ pc' = "round"
  /\ seen' = head /\ known' = reqs
  /\ UNCHANGED <<github, log, runs>>

Launch(P) ==
  /\ run' = [run EXCEPT !.led = P.led, !.ck = P.cks, !.sweep = FALSE,
               !.fallback = P.skip /\ P.fallback, !.force = Selective /\ P.latch,
               !.now = [NoTurns EXCEPT !.ext = P.ext, !.skip = P.skip, !.appr = P.appr,
                          !.todo = IF P.skip THEN {} ELSE P.turns,
                          !.tally = IF P.skip THEN NoTally ELSE run.res.done]]
  /\ IF Selective /\ P.D.selected # {} /\ ~P.skip /\ ~P.shut
     THEN Post([Record("prelaunch", seen, run.round, P.led) EXCEPT
                  !.opens = P.D.phase = "secondary-audit", !.force = P.latch])
     ELSE UNCHANGED log
  /\ pc' = "review"
  /\ UNCHANGED <<github, runs, seen, known>>

(* What the values P of a round start lead to.                             *)
OpenRound(P) ==
  CASE P.D.phase = "pre-panel-stop" -> Stop
    [] P.D.phase # "pre-panel-stop" /\ P.shut /\ P.turns # {} -> RollOver(P)
    [] P.D.phase # "pre-panel-stop" /\ ~(P.shut /\ P.turns # {}) -> Launch(P)

BeginRound ==
  /\ pc = "round" /\ run.round <= run.budget.allowed
  /\ \E probe \in Probe :
       LET L == ReconcileConflict(AdvanceForHead(run.led, seen), probe, head, seen)
           ext == SkipForRecovery(IF CheckpointStale(L, Approvals(log, seen, known)) THEN {} ELSE run.ck)
       IN  \E narrow \in Classifications(L, ext) :
             OpenRound(Plan(probe, narrow))

-----------------------------------------------------------------------------
(* Reviews and reconciliation *)

(* A validated review of the head of the round disposes of every item.     *)
ReviewTurn(r) ==
  /\ pc = "review" /\ r \in run.now.todo
  /\ \E B \in SUBSET (Open(run.led) \cup {r}) :
       /\ Post([Record("review", seen, run.round, run.led) EXCEPT
                  !.tally = [NoTally EXCEPT ![r] = Vote(B)], !.saw = known, !.force = run.force])
       /\ run' = [run EXCEPT !.now.todo = @ \ {r}, !.now.tally[r] = Vote(B)]
  /\ UNCHANGED <<github, runs, pc, seen, known>>

(* The reviewer is unavailable: its round goes on without it.  A sole      *)
(* reviewer that fails in sequence ends the run at once, as a crash does.  *)
ReviewTurnFails(r) ==
  /\ pc = "review" /\ r \in run.now.todo \cap Failures
  /\ Parallel \/ Cardinality(Reviewers) > 1
  /\ run' = [run EXCEPT !.now.todo = @ \ {r}, !.now.failed = TRUE]
  /\ UNCHANGED <<github, log, runs, pc, seen, known>>

(* Close the round when its policy records reconciliations.                *)
Reconcile ==
  /\ pc = "review" /\ run.now.todo = {}
  /\ IF (Parallel \/ Selective \/ run.now.failed) /\ ~run.now.skip /\ ~run.res.reconciled
     THEN Post([Record("reconciliation", seen, run.round, run.led) EXCEPT
                  !.tally = run.now.tally, !.force = run.force])
     ELSE UNCHANGED log
  /\ pc' = "settle"
  /\ UNCHANGED <<github, runs, seen, known, run>>

(* A required reviewer is missing: no coder, no CI, no merge.              *)
StopIncomplete == pc = "settle" /\ run.now.failed /\ Stop

SettleRound ==
  LET L == Settle(Selective, run.led, run.now.tally)
  IN  /\ pc = "settle" /\ ~run.now.failed
      /\ run' = [run EXCEPT !.led = L]
      /\ pc' = IF CoderBlocked(L, seen) THEN "blocked" ELSE "gate"
      /\ UNCHANGED <<github, log, runs, seen, known>>

-----------------------------------------------------------------------------
(* The exact-head gate of the scheduled policies, and the CI snapshot *)

Checkpoint(L, life, b, k, appr) ==
  IF ~HasCi(L) THEN {}
  ELSE {[life |-> IF L.ci.cand \in {NoHead, L.ci.failed} \/ L.ci.life = "repair" THEN "repair"
                  ELSE life,
         failed |-> L.ci.failed, cand |-> L.ci.cand, budget |-> b, reqs |-> k,
         appr |-> appr, sched |-> L]}

PostCheckpoint(h, n, L, cks) ==
  IF cks = {} THEN UNCHANGED log ELSE Post([Record("checkpoint", h, n, L) EXCEPT !.ck = cks])

QualifyingNames == run.now.appr \cup {r \in Reviewers : run.now.tally[r] = Vote({})}

(* checkpoint_restart: another head is live now; review that one.          *)
RestartOnLiveHead ==
  LET L == AdvanceForHead(run.led, head)
      cks == Checkpoint(L, "awaiting", run.budget, -1, {})
  IN  /\ PostCheckpoint(head, run.round + 1, L, cks)
      /\ run' = NextRound([run EXCEPT !.led = L, !.ck = cks, !.sweep = FALSE])
      /\ pc' = "round" /\ seen' = head /\ known' = reqs
      /\ UNCHANGED <<github, runs>>

SweepNextRound ==
  /\ run' = NextRound([run EXCEPT !.sweep = TRUE])
  /\ pc' = "round" /\ seen' = head /\ known' = reqs
  /\ UNCHANGED <<github, log, runs>>

GateRestart == pc = "gate" /\ Selective /\ head # seen /\ RestartOnLiveHead

GateSweep ==
  /\ pc = "gate" /\ Selective /\ head = seen
  /\ \/ reqs # known
     \/ reqs = known /\ QualifyingNames # Reviewers /\ run.round # run.budget.allowed
  /\ SweepNextRound

GateStop ==
  /\ pc = "gate" /\ Selective /\ head = seen /\ reqs = known
  /\ QualifyingNames # Reviewers /\ run.round = run.budget.allowed
  /\ Stop

GatePass ==
  /\ pc = "gate"
  /\ Selective => head = seen /\ reqs = known /\ QualifyingNames = Reviewers
  /\ run' = [run EXCEPT !.led = IF CiIsCandidate(run.led, seen) THEN SetLife(run.led, "ready")
                                ELSE run.led]
  /\ pc' = "probe"
  /\ UNCHANGED <<github, log, runs, seen, known>>

(* Probe the conflict again, then read the checks of the reviewed head.    *)
Snapshot ==
  /\ pc = "probe"
  /\ \E probe \in Probe :
       LET L == ReconcileConflict(run.led, probe, head, seen)
           failed == ~HasConflict(L) /\ ci[seen] = "failing"
       IN  /\ run' = [run EXCEPT !.led = IF failed THEN UpsertCi(L, seen) ELSE L]
           /\ pc' = IF HasConflict(L) \/ failed THEN "blocked" ELSE "enter"
  /\ UNCHANGED <<github, log, runs, seen, known>>

-----------------------------------------------------------------------------
(* The CI watch and the merge *)

EnterWatch ==
  LET L == SetLife(run.led, "qualifying")
      cks == Checkpoint(L, "qualifying", run.budget, known, QualifyingNames)
  IN  /\ pc = "enter"
      /\ PostCheckpoint(seen, run.round, L, cks)
      /\ run' = [run EXCEPT !.led = L, !.ck = cks]
      /\ pc' = "watch"
      /\ UNCHANGED <<github, runs, seen, known>>

(* Mutant of Polling: the watch budget is not looked at.                   *)
PollingForever == pc = "watch"

(* Another poll is possible.                                               *)
Polling == pc = "watch" /\ run.polls > 0

(* Mutant of Polled: a poll costs nothing.                                 *)
PolledForFree == run

Polled == [run EXCEPT !.polls = @ - 1]

WatchTimeout == pc = "watch" /\ run.polls = 0 /\ Stop

WatchPending ==
  /\ Polling /\ head = seen /\ head \notin clash /\ ci[seen] = "pending"
  /\ run' = Polled
  /\ UNCHANGED <<github, log, runs, pc, seen, known>>

WatchPassed ==
  /\ Polling /\ head = seen /\ head \notin clash /\ ci[seen] = "passing"
  /\ run' = Polled
  /\ pc' = "passed"
  /\ UNCHANGED <<github, log, runs, seen, known>>

WatchConflict ==
  /\ Polling /\ head = seen /\ head \in clash
  /\ run' = [Polled EXCEPT !.led.conf = seen]
  /\ pc' = "blocked"
  /\ UNCHANGED <<github, log, runs, seen, known>>

(* Mutant of WatchFailed: every failure on the last round earns a round.   *)
WatchFailedAlwaysExtends ==
  LET extend == run.round = run.budget.allowed
      b == IF extend THEN [run.budget EXCEPT !.allowed = @ + 1, !.failExt = TRUE] ELSE run.budget
  IN  /\ Polling /\ head = seen /\ head \notin clash /\ ci[seen] = "failing"
      /\ run' = [Polled EXCEPT !.led = UpsertCi(run.led, seen),
                   !.budget = b]
      /\ pc' = "blocked"
      /\ UNCHANGED <<github, log, runs, seen, known>>

(* A failing check is the coder's; on the last round it earns one extra.   *)
WatchFailed ==
  LET extend == run.round = run.budget.allowed /\ ~run.budget.failExt
      b == IF extend THEN [run.budget EXCEPT !.allowed = @ + 1, !.failExt = TRUE] ELSE run.budget
  IN  /\ Polling /\ head = seen /\ head \notin clash /\ ci[seen] = "failing"
      /\ run' = [Polled EXCEPT !.led = UpsertCi(run.led, seen),
                   !.budget = b]
      /\ pc' = "blocked"
      /\ UNCHANGED <<github, log, runs, seen, known>>

(* Failed plumbing is rerun once per head, then the run stops.             *)
WatchRerun ==
  /\ Polling /\ head = seen /\ head \notin clash /\ ci[seen] = "plumbing" /\ seen \notin run.rerun
  /\ run' = [Polled EXCEPT !.rerun = @ \cup {seen}]
  /\ ci' = [ci EXCEPT ![seen] = "pending"]
  /\ UNCHANGED <<head, clash, reqs, merged, pushes, log, runs, pc, seen, known>>

WatchInfraStop ==
  /\ Polling /\ head = seen /\ head \notin clash /\ ci[seen] = "plumbing" /\ seen \in run.rerun
  /\ Stop

(* The head moved under the watch: review the new one in the next round,   *)
(* which exists at least once.                                             *)
WatchHeadChanged ==
  LET extend == run.round = run.budget.allowed /\ ~run.budget.headExt
      b == IF extend THEN [run.budget EXCEPT !.allowed = @ + 1, !.headExt = TRUE] ELSE run.budget
      L == AdvanceForHead(run.led, head)
      cks == Checkpoint(L, "awaiting", b, -1, {})
  IN  /\ Polling /\ head # seen
      /\ PostCheckpoint(head, run.round + 1, L, cks)
      /\ run' = NextRound([Polled EXCEPT !.led = L, !.ck = cks, !.budget = b])
      /\ pc' = "round" /\ seen' = head /\ known' = reqs
      /\ UNCHANGED <<github, runs>>

PassedRestart == pc = "passed" /\ Selective /\ head # seen /\ RestartOnLiveHead
PassedSweep == pc = "passed" /\ Selective /\ head = seen /\ reqs # known /\ SweepNextRound

(* Mutant of Finalize: no second snapshot of the requirements.             *)
FinalizeUnchecked ==
  /\ pc = "passed"
  /\ Selective => head = seen
  /\ run' = [run EXCEPT !.led = ClearCi(@)]
  /\ pc' = "merge"
  /\ UNCHANGED <<github, log, runs, seen, known>>

(* The checks are proved for the reviewed head: discharge the obligation.  *)
Finalize ==
  /\ pc = "passed"
  /\ Selective => head = seen /\ reqs = known
  /\ run' = [run EXCEPT !.led = ClearCi(@)]
  /\ pc' = "merge"
  /\ UNCHANGED <<github, log, runs, seen, known>>

(* Mutant of Merge: the reviewed head is merged whatever the head is now.  *)
MergeReviewed ==
  /\ pc = "merge" /\ FinalizationReady(run.led) /\ seen \notin clash
  /\ merged' = {seen}
  /\ pc' = "off" /\ seen' = NoHead /\ known' = 0 /\ run' = Idle
  /\ UNCHANGED <<head, ci, clash, reqs, pushes, log, runs>>

(* The merge carries the expected head; GitHub refuses any other, and a    *)
(* branch that conflicts.                                                  *)
Merge ==
  /\ pc = "merge" /\ FinalizationReady(run.led) /\ head = seen /\ head \notin clash
  /\ merged' = {head}
  /\ pc' = "off" /\ seen' = NoHead /\ known' = 0 /\ run' = Idle
  /\ UNCHANGED <<head, ci, clash, reqs, pushes, log, runs>>

MergeRefused ==
  /\ pc = "merge" /\ (~FinalizationReady(run.led) \/ head # seen \/ head \in clash)
  /\ Stop

-----------------------------------------------------------------------------
(* The coder turn *)

StuckConflict == HasConflict(run.led) /\ run.conflictFrom = seen

BlockedStop ==
  /\ pc = "blocked" /\ (run.round = run.budget.allowed \/ StuckConflict)
  /\ Stop

PersistRepair ==
  LET cks == Checkpoint(run.led, run.led.ci.life, run.budget, known, QualifyingNames)
  IN  /\ pc = "blocked" /\ run.round # run.budget.allowed /\ ~StuckConflict
      /\ PostCheckpoint(seen, run.round + 1, run.led, cks)
      /\ run' = [run EXCEPT !.ck = cks, !.conflictFrom = IF HasConflict(run.led) THEN seen ELSE NoHead]
      /\ pc' = "dispatch"
      /\ UNCHANGED <<github, runs, seen, known>>

Dispatch ==
  LET n == run.res.attempt + 1
  IN  /\ pc = "dispatch"
      /\ Post([Record("dispatch", seen, run.round + 1, run.led) EXCEPT
                 !.attempt = n, !.budget = {run.budget}])
      /\ run' = [run EXCEPT !.now.dispatched = n]
      /\ pc' = "coding"
      /\ UNCHANGED <<github, runs, seen, known>>

CoderPush ==
  /\ pc = "coding" /\ "coder" \in Pushers
  /\ \E h \in Heads : Push(h)
  /\ pc' = "coded"
  /\ UNCHANGED <<log, runs, seen, known, run>>

CoderKeepsHead ==
  /\ pc = "coding"
  /\ pc' = "coded"
  /\ UNCHANGED <<github, log, runs, seen, known, run>>

(* An accepted follow-up opens the next round on the live head, unless it  *)
(* is the second in a row that left the same head.                         *)
CoderAccepted ==
  LET L == AdvanceForHead(run.led, head)
      cks == Checkpoint(L, L.ci.life, run.budget, known, {})
      count == IF head # seen THEN 0 ELSE IF run.same = seen THEN run.count + 1 ELSE 1
  IN  /\ pc = "coded"
      /\ Post([Record("coder", head, run.round + 1, L) EXCEPT
                 !.ck = cks, !.prev = IF Selective THEN seen ELSE NoHead, !.force = run.force,
                 !.external = Selective /\ run.now.ext])
      /\ IF count >= 2
         THEN pc' = "off" /\ seen' = NoHead /\ known' = 0 /\ run' = Idle
         ELSE /\ run' = NextRound([run EXCEPT !.led = L, !.ck = cks,
                              !.sweep = @ \/ (Selective /\ run.now.ext),
                              !.same = IF count = 0 THEN NoHead ELSE seen, !.count = count])
              /\ pc' = "round" /\ seen' = head /\ known' = reqs
      /\ UNCHANGED <<github, runs>>

(* A rejected follow-up is recorded when it moved the head or was itself a *)
(* recovery; the run stops.                                                *)
CoderRejected ==
  /\ pc = "coded"
  /\ IF head # seen \/ run.now.dispatched > 1
     THEN Post([Record("rejected", head, run.round, run.led) EXCEPT
                  !.attempt = run.now.dispatched, !.budget = {run.budget}])
     ELSE UNCHANGED log
  /\ Halt

-----------------------------------------------------------------------------

Environment == HumanPush \/ PostRequirement \/ CiReports \/ RerunFailed \/ BaseMoves \/ Crash

Step ==
  \/ Start \/ StartRefused \/ RoundLimit \/ PostHeadReview \/ BeginRound
  \/ \E r \in Reviewers : ReviewTurn(r) \/ ReviewTurnFails(r)
  \/ Reconcile \/ StopIncomplete \/ SettleRound
  \/ GateRestart \/ GateSweep \/ GateStop \/ GatePass \/ Snapshot
  \/ EnterWatch \/ WatchTimeout \/ WatchPending \/ WatchPassed \/ WatchConflict \/ WatchFailed
  \/ WatchRerun \/ WatchInfraStop \/ WatchHeadChanged
  \/ PassedRestart \/ PassedSweep \/ Finalize \/ Merge \/ MergeRefused
  \/ BlockedStop \/ PersistRepair \/ Dispatch \/ CoderPush \/ CoderKeepsHead
  \/ CoderAccepted \/ CoderRejected

Next == Environment \/ Step

(* A run that was started keeps working until it returns.                  *)
Fairness == WF_vars(pc # "off" /\ Step)

SafetySpec == Init /\ [][Next]_vars
Spec == SafetySpec /\ Fairness

-----------------------------------------------------------------------------
(* Properties *)

PCs == {"off", "handoff", "round", "review", "settle", "gate", "probe", "enter", "watch",
        "passed", "merge", "blocked", "dispatch", "coding", "coded"}

Resumptions ==
  [on : BOOLEAN, advance : BOOLEAN, attempt : 0 .. MaxAttempts - 1, done : Tallies,
   closed : SUBSET Records, reconciled : BOOLEAN]

RoundStates ==
  [ext : BOOLEAN, skip : BOOLEAN, appr : SUBSET Reviewers, todo : SUBSET Reviewers,
   tally : Tallies, failed : BOOLEAN, dispatched : 0 .. MaxAttempts]

RunStates ==
  [round : Nat, budget : Budgets, led : Ledgers, ck : SUBSET Checkpoints, sweep : BOOLEAN,
   fallback : BOOLEAN, force : BOOLEAN, res : Resumptions, now : RoundStates,
   polls : 0 .. WatchBudget, rerun : SUBSET Heads, same : Heads \cup {NoHead}, count : Nat,
   conflictFrom : Heads \cup {NoHead}]

(* Types.  A record counts at most MaxAttempts attempts of one coder turn. *)
TypeOK ==
  /\ head \in Heads
  /\ ci \in [Heads -> {"pending", "passing", "failing", "plumbing"}]
  /\ clash \subseteq Heads
  /\ reqs \in 0 .. MaxReqs
  /\ merged \subseteq Heads
  /\ pushes \in Nat
  /\ log \in Seq(Records)
  /\ runs \in Nat
  /\ pc \in PCs
  /\ seen \in Heads \cup {NoHead}
  /\ known \in 0 .. MaxReqs
  /\ run \in RunStates

ReviewsIn(r, S) == {i \in S : log[i].kind = "review" /\ log[i].tally[r].voted}
LastReview(r, h) == log[Latest(ReviewsIn(r, On(log, h)))]

(* A merged head has been reviewed as exactly that commit by every         *)
(* reviewer, and the last word of each of them on it is an approval: an    *)
(* approval of an older head, or one a restarted run believes to have, is  *)
(* never enough (the gate of pr_loop.py, code_approval.py).                *)
MergedHeadIsApproved ==
  \A h \in merged : \A r \in Reviewers :
    ReviewsIn(r, On(log, h)) # {} /\ LastReview(r, h).tally[r].blocks = {}

(* The loop implements the promise of HeadBoundMerge, through any number   *)
(* of runs, crashes and pushes: who approves a head is read off the        *)
(* records, and a step that changes nothing of it is a stutter.            *)
Promise == INSTANCE HeadBoundMerge WITH
  approved <- [h \in Heads |->
                 {r \in Reviewers : /\ ReviewsIn(r, On(log, h)) # {}
                                    /\ LastReview(r, h).tally[r].blocks = {}}],
  green <- {h \in Heads : ci[h] = "passing"}
ImplementsHeadBoundMerge == Promise!Spec

(* When the watch has passed and the run commits itself to merging, the    *)
(* last review of the head by each reviewer had surfaced all the signed    *)
(* requirements posted until then (the second requirement snapshot).       *)
CommitIsSurfaced ==
  pc = "passed" /\ pc' = "merge" =>
    \A r \in Reviewers :
      ReviewsIn(r, On(log, seen)) # {} => LastReview(r, seen).saw = reqs
CommitSurfacesRequirements == [][CommitIsSurfaced]_vars

(* The watch that will discharge a CI obligation watches the candidate of  *)
(* that obligation, a head other than the one that failed, and what is     *)
(* merged has passed (unresolved_items.py:                                 *)
(* _advance_machine_obligations_for_head; the head-change branch).         *)
OnlyARepairRequalifies ==
  /\ pc \in {"enter", "watch", "passed"} /\ HasCi(run.led)
       => run.led.ci.cand = seen /\ run.led.ci.failed # seen
  /\ \A h \in merged : ci[h] = "passing"

(* The round limit moves only by the two one-shot extensions, also across  *)
(* restarts, and no reviewer or coder turn is started beyond it            *)
(* (RecoveryRoundBudget of qualification_checkpoint.py).                   *)
Extensions(b) == (IF b.failExt THEN 1 ELSE 0) + (IF b.headExt THEN 1 ELSE 0)
SoundBudget(b) == b.allowed = MaxRounds + Extensions(b)
RoundsWithinBudget ==
  /\ SoundBudget(run.budget)
  /\ pc \notin {"off", "handoff", "round"} => run.round <= run.budget.allowed
  /\ \A i \in DOMAIN log :
       /\ \A b \in log[i].budget \cup {c.budget : c \in log[i].ck} : SoundBudget(b)
       /\ log[i].kind \in {"review", "dispatch", "coder"} => log[i].round <= MaxRounds + 2

(* Under the staged policy a secondary reviewer works only after the       *)
(* primary approved some head and the panel was opened on that head, also  *)
(* when a restart, a stale checkpoint or a fallback forces a full board    *)
(* (panel_evidence.py, PrePanel).                                          *)
SecondariesWaitForPrimary ==
  Staged => \A r \in Secondaries : \A i \in ReviewsIn(r, DOMAIN log) :
    \E j \in PostedOpenings(log) : j < i

(* A reconciliation is authoritative: once the record that closes a round  *)
(* has counted a reviewer's last review, what it left blocking is in the   *)
(* ledger of every later round on that head, across restarts and           *)
(* roll-overs, until the reviewer votes again (the closed rounds of        *)
(* pr_loop.py).                                                            *)
CountedFindingsKept ==
  pc = "review" =>
    \A r \in Reviewers :
      LET S == ReviewsIn(r, DOMAIN log)
          last == log[Latest(S)]
      IN  \/ S = {} \/ run.now.tally[r].voted \/ last.head # seen
          \/ \A j \in OfKind(log, On(log, seen), {"reconciliation"}) :
               j > Latest(S) /\ log[j].tally[r].voted => last.tally[r].blocks \subseteq Open(run.led)

(* No finding is forgotten on the way, however many restarts, rejected     *)
(* turns and unrecorded pushes there were: when a round is settled, what a *)
(* reviewer's last review of the pull request left blocking is still in    *)
(* the ledger, unless the reviewer votes again in this round, has approved *)
(* its exact head, or missed a requirement posted since, which voids the   *)
(* review.                                                                 *)
FindingsCarried ==
  pc = "settle" /\ ~run.now.failed =>
    \A r \in Reviewers :
      LET S == ReviewsIn(r, DOMAIN log)
          last == log[Latest(S)]
      IN  \/ S = {} \/ run.now.tally[r].voted \/ r \in run.now.appr \/ last.saw # known
          \/ last.tally[r].blocks \subseteq Open(run.led)

(* Every run returns: rounds, CI polls, reruns and unchanged-head turns    *)
(* are all bounded, whatever the others do meanwhile.                      *)
EveryRunEnds == pc # "off" ~> pc = "off"
=============================================================================
