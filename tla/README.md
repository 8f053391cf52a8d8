# A TLA+ model of the coding review agent loop

`coding-review-agent-loop` drives coding agents through GitHub: a coder agent
writes a pull request, reviewer agents review it, their findings go back to the
coder, and when every reviewer approves the exact head and its checks pass, the
pull request is merged.  The program keeps almost no state of its own.  What has
to survive a crash is posted to GitHub as comments that carry metadata records,
or written to a few private files, and a later run rebuilds its state from them.
Its hard behaviour is therefore not in any single function.  It is in the order
of posts, pushes, check results, file writes, crashes and restarts.

This directory holds TLA+ modules of the core of that program, the TLC
configurations that check them on small instances, and proofs for arbitrary
constants that TLAPS checks.  All paths below are relative to
`src/coding_review_agent_loop/` of the repository unless they say otherwise.

## 1. Inventory

| Component | State it keeps | Operations | What makes it hard | What makes it correct | Here |
|---|---|---|---|---|---|
| Workdir claims (`workdir_claims.py`) | lock file and holder record per checkout, a registry and a live-run count per process | claim a list of checkouts, roll back, probe, run finalizers, release, crash | `flock` does not tell two runs of one process apart; record and lock are two steps; a later claim of a list fails | one run per checkout, records name the holder, a refused list leaves nothing behind, nothing leaks after a scope | modelled |
| PR review loop (`pr_loop.py`, `pr_loop_decisions.py`, `pr_loop_support.py`, `pr_restart.py`) | round, ledger, checkpoint, budget, latches; the posted records | resume, schedule, review, reconcile, settle, gate, watch, coder turn, recovery, merge | a run may die between any two posts while people push, CI answers and requirements arrive | section 4 | in part |
| Unresolved-item ledger (`unresolved_items.py`) | findings and their owners, the CI obligation, the merge conflict | settle dispositions, bind to a head, upsert, clear | several dispositions of one finding in one round; going back to a failed head | blocking outweighs clearing; a failed head never requalifies itself | in part |
| Review scheduling (`review_scheduling.py`, `code_approval.py`, `panel_evidence.py`) | none; derived from the records | choose reviewers, qualify approvals, open the panel | approvals of older heads, missed requirements, restarts in the middle of a stage | only exact-head approvals count; secondaries wait for the primary | in part |
| Round state and resume (`round_state.py`, `round_metadata.py`, `qualification_checkpoint.py`) | the records on GitHub | select the current round, find a live handoff, recover an unrecorded head | every prefix of a run's posts is a state a restart must understand | a restart carries what was posted, no more and no less | in part |
| GitHub access (`github.py`, `checks.py`) | none | mergeability, check watch, head-guarded merge | answers are stale when used | the merge is refused unless the head is the expected one | the behaviour the loops see |
| Plan loop and plan review scheduling (`plan_first_loop.py`, `plan_review_scheduling.py`, `plan_round_closure.py`, `plan_issue_scope.py`, `approved_plan_resume.py`) | rounds of comments on an issue, a private spool of answers | resume, schedule, review, publish, reconcile, repair, approve, hand over | the issue text and the signed requirements change under a review; the same restart problem with other records | a plan is executed only when all approved it as it stands, under the requirements of now | in part |
| Validated agent turns (`validated_agent.py`, `response_validation.py`, `agents/antigravity.py`) | attempts, allowances and the quota memory of a turn | retry, correct, replay, replace, resume, wait, fall back | six nested recoveries, each with its own allowance | a turn ends; no recovery uses up another's allowance; the newest answer is the one judged | in part |
| Quota waits (`quota_wait.py`) | reservations of a run, a cancel latch of the process | reserve, wait, cancel | threads of one run share a budget; a new run resets the latch | at most two waits per run; a cancel reaches every wait it is meant for and no later run | in part |
| Agent processes (`runner.py`, the executors of `review_rounds.py` and `discuss_loop.py`) | registry of live agents, a refuse flag | launch, register, kill, join | a signal reaches only the main thread while workers launch agents | an interrupted run ends without waiting for agents | the interrupt only |
| Publication and partial rounds (`publication_resume.py`, `review_spool.py`, `partial_round_recovery.py`) | spooled reviews, frozen carriers, published parts | withhold, freeze, post, reconcile, resume | a crash or an unanswered write between two comments of one review | no body twice, no anchor without its sidecar, no reviewer works beside a public review | in part |
| Managed CI (`managed_ci*.py`) | intents, statuses and obligations on the pull request | dispatch, discover, poll, rerun, reconcile | late and duplicate runs, reruns of old attempts, restarts | a head is merged only on a status of its own dispatch; a rerun is judged on its own | in part |
| Run worktrees (`run_worktrees.py`) | owner records, a store lock | prepare, create, prune, remove | a starting run prunes while another creates; a crash anywhere | a working worktree is never taken, a dead one is always found | in part |
| Worktree setup and link health (`worktree_setup.py`, `worktree_link_integrity.py`) | a setup record and a health record per store | pin, install, record, link, check, mark | a run can die between any two writes or inside the command | no unfinished or damaged source is linked | in part |
| Issue and discussion loops (`issue_loop.py`, `discuss_loop.py`, `orchestrator.py`) | rounds of comments | create the pull request, discuss a brief | loops of the same shape as planning | | no |
| Evidence and convergence (`review_step_back.py`, `evidence_*.py`, `finding_history.py`) | frozen evidence, stall counters | freeze, convert, stall, grant a round | heads that only a person can satisfy | no round is spent twice | no |
| Reviewer seats and boards (`reviewer_seats.py`, `board_*.py`) | lineage of boards | seat, replace, amend | an amendment in the middle of a round | a required seat is never dropped silently | no |
| Issue/PR association (`issue_pr_handoff.py`, `pr_contract.py`) | the handoff record | claim, verify | two runs create a PR | one PR per issue | no |
| Workflow transactions (`workflow_transaction.py`) | stages of issue creation | begin, commit, resume | nothing calls it in this commit | | no |
| Entry points, configuration, round transport, prompts, rendering, containment, images, usage, local evidence | none the loops decide on | parse, encode, render, execute | sequential, or outside the program | | no |

How they interact.  The command line opens a claim scope, prepares the run's
worktree, and hands over to a loop.  The loops call scheduling, the ledger and
resume as functions of the records they read, run the agents as subprocesses
(reviewers in parallel threads when so configured, each turn through
`validated_agent.py`), and post their records with the GitHub client: directly,
or, for the reviews of a parallel round, through the spool of
`publication_resume.py`.  A round that everybody approved goes to the ordinary
checks or to managed CI, and then to the merge.  GitHub is shared with everybody
else: people push, post signed requirements and rerun checks, the base branch
moves, and another run may be started after the first one died.  `PROJECT.json`
lists each hazard of this kind at its line.

## 2. Plan

Done, in the order in which it was built:

1. `WorkdirClaims`: the shared-memory concurrency of the core.
2. `ReviewLedger`, `ReviewScheduling`, `RoundLog`: the pure parts of the loop.
3. `PrLoop`, which composes them with GitHub and with crashes; `HeadBoundMerge`,
   the abstract specification of what it promises.
4. `Interrupt`: quota waits, the process registry, the exit of an interrupted run.
5. `AgentTurn`, `Publication`: one turn and the publication of a round.
6. `ManagedCi`: the other way to a merge.
7. `RunWorktrees`, `StoreSetup`: what runs share on a host.
8. `PlanLoop`: the planning loop of an issue.
9. Proofs: the claims, the loop with its budget, its CI obligation and its
   exact-head approvals, the agent turn, the publication of a round, the
   interrupt, managed CI, the run worktrees, the worktree setup, the panel of a
   plan and its approval, and that the checked compositions inherit them.

Next, most important first:

- the source round of an item in `ReviewLedger`, and with it the conditions under
  which `HeadBoundMerge` is implemented for any number of runs (section 6);
- `EvidenceFreeze` (the stall and the extra round of `evidence_stall.py`),
  `BoardLineage` (amendments between rounds), `IssuePrHandoff`.

## 3. Modules

### WorkdirClaims

One state machine per run: enter the scope, call `claim_agent_workdirs` for a
list, work, run the finalizers, release, exit.  `flock`, `meta` and `registry`
are the lock files, the holder records and `_registry`; `mutex` is
`_registry_lock`, held over the steps that hold it in the code, so that runs of
another process interleave with each of them.  `Crash(h)` kills a process: the
kernel drops its locks, its records stay.  `ProbeRegistry`, `ProbeLock`,
`ProbeBusy` and `ProbeEnd` are the worktree probe, which locks the same file.
`before` and `calls` are history variables; the second one bounds the runs.

### ReviewLedger, ReviewScheduling, RoundLog

Operators, no state.

- `ReviewLedger` has the three kinds of items.  A reviewer's findings are one
  item with its set of owners; a vote is the set of items it leaves blocking.
  `Settle` has both reconciliation modes of the code, `OwnerScoped` (scheduled
  policies) and `Aggregate` (all reviewers).  `AdvanceForHead` is the lifecycle
  of the CI obligation.
- `ReviewScheduling` has the three policies as functions from a request (who
  approved, who owns what, was the panel opened, is the diff narrow) to a phase
  and a set of reviewers.
- `RoundLog` has the record format and everything that reads it: exact-head
  approvals, panel openings, the latches, the selection of the current round,
  the live recovery handoff, recovery of a head nobody recorded, and `Resume`.
  A scheduling decision posted into a closed round is `Inert`; `Read` is the log
  without them, which is what the resume, the panel history and the scheduler read,
  while the handoff readers read everything.  A resumed round restores the budget
  of the latest head review of its head (`HeadReviewBudget`), whether it was
  retired by a review or not.

### PrLoop

The variables are GitHub (`head`, `ci`, `clash`, `reqs`, `merged`), the posted
records (`log`) and one run (`pc`, `seen`, `known`, `run`).  `run` is a record
with the names of the local variables of `run_pr_loop`; `run.res` is
`current_resume`, `run.now` the variables of the current round.  Actions in the
order of the code:

| Actions | Code |
|---|---|
| `Start`, `StartRefused`, `RoundLimit`, `PostHeadReview` | resume, restored budget, latches, the recovered head review |
| `BeginRound` (`OpenRound`: `RollOver`, `Launch`) | checkpoint validation, binding of the ledger, conflict probe, scheduling, rollover of a reconciled round, prelaunch record |
| `ReviewTurn`, `ReviewTurnFails`, `Reconcile`, `StopIncomplete`, `SettleRound` | review turns, the closing record, settlement, the pre-coder partition |
| `GateRestart`, `GateSweep`, `GateStop`, `GatePass`, `Snapshot` | the exact-head gate of the scheduled policies and the snapshot of conflict and checks |
| `EnterWatch`, `Watch...`, `PassedRestart`, `PassedSweep`, `Finalize`, `Merge`, `MergeRefused` | the CI watch with its polls, the second snapshots, the merge |
| `BlockedStop`, `PersistRepair`, `Dispatch`, `CoderPush`, `CoderKeepsHead`, `CoderAccepted`, `CoderRejected` | the coder turn and the records around it |
| `HumanPush`, `PostRequirement`, `CiReports`, `RerunFailed`, `BaseMoves`, `Crash` | everybody else |

A post is one atomic step, and there is never more than one post in a step, so
that `Crash` reaches every prefix of the posts of a run.

### HeadBoundMerge

What the loop promises, without rounds, records or restarts: approvals and
checks belong to a commit, only the live head is merged, at most once, when all
approve it and its checks have passed.  `PrLoop` implements it under a mapping
that reads the approvals off the log: a reviewer approves a commit when its last
review of exactly that commit leaves nothing blocking.

### Interrupt

One process.  `at` is where the thread that hosts a run is, `pc` where each turn
is; a turn has a worker thread, except in the `Direct` runs (a coder turn), whose
thread takes the turn itself.  `active`, `event`, `signalled` and `message` are
the waiter registry and the latch of `quota_wait.py`, `procs` and `refuse`
`_active_procs` and `_interrupted` of the runner, `live` the live-run count.

| Actions | Code |
|---|---|
| `EnterRun`, `ExitRun`, `LeaveCli` | the scope, its first-run hook and finalizer, `cli.main` |
| `StartTurn`, `CheckInterrupted`, `Spawn`, `RegisterProcess`, `AgentEnds`, `AgentKilled` | `run_with_log` in a worker |
| `Reserve`, `RegisterWait`, `CheckSlice`, `SleepSlice`, `EndWait`, `ReplayTurn` | the budget and `wait_for_reset` |
| `Sigint`, `Sigterm` | `KeyboardInterrupt` in the hosting thread, wherever it is |
| `LatchMessage`, `SetCancelEvent`, `RefuseSpawns`, `KillAgent`, `ShutDown`, `JoinWorkers` | the handler of the executors, step by step |
| `CollectResults`, `ClassifyInterrupt` | the results, or the exit of an interrupted command |

### AgentTurn

One turn of an agent as `_run_validated_agent_in_scope` runs it: send a prompt,
judge what comes back, decide whether to send another.  An answer is what the
loop makes of it (accepted, malformed, a transient failure, a usage limit, a
replaced executable, a backgrounded completion, a stop); each recovery has its
allowance, and `attempts` is the counter of the loop that all of them share.  For
an Antigravity turn the chain of models, its quota groups and the memory of
exhausted groups are part of the state.

### Publication

One parallel review round.  `spool` has one record per reviewer (a fresh answer,
a frozen carrier, a failure, a record of an older version), `comments` what is
public, `post` the write in flight, `run` and `pc` the program: preflight,
launch, freeze, gate, then body by body a write, its answer or its
reconciliation.  `queue` holds the reviews still to be published, in any order in
which the board may be configured or its turns may end.  Disturbances (another account, changed requirements, deleted
comments, a damaged spool) happen at any moment and are remembered in
`disturbed`, so that "nobody disturbed the round" can be said.

### ManagedCi

Protocol version 2 from the intent to the merge.  GitHub's side is the intents,
the workflow runs (nonce, id, attempt, stage, result) and the statuses; the
program's side is the watch with its polls, the durable obligation and the
reconciliation of both at a restart.  Runs become visible late or twice, publish
late or never, and are run again by people or by the loop.

### RunWorktrees

One store and its runs: a path, an administrative entry and an owner record per
run, the store with its generation, the store lock, the claims (a set, since
`WorkdirClaims` shows that they exclude each other) and the claim of a direct
run.  Each file operation of `prepare_store`, `prune_dead_worktrees`,
`add_run_worktree` and the finalizer is a step, so that `Crash` leaves every
intermediate state for the next run to find.  So is each removal of the two
clean-ups after a failed creation: `LinkFails` takes the entry before the path
(run_worktrees.py:235), `AddFails` the path before the entry (run_worktrees.py:286),
and `UndoEnds` may come anywhere in between, since each `rmtree` can be refused or
raise.  The pending record stays in every case.

### StoreSetup

The dependency source of a store, the setup record and the health record, and
the writes of `ensure_store_setup`, `ensure_health`, `begin_recovery`,
`mark_stale` and of the checks around a turn, one file at a time.

### PlanLoop

The loop of one issue under primary-then-panel.  `log` holds the posted records
(plan, opening, review, reconciliation, idle checkpoint, acknowledgement,
approval), `held` the spool, `demand` and `text` what people change, and the run
is a record of the local variables of the loop.  A plan is the position of its
record in the log, a candidate the plan together with the demand it is judged
under.

### The checked compositions

Each `MC` module gives the constants their values.  Four of them put several
models side by side: the models share no variable, a behaviour belongs to one of
them, the `part`, and the others stay where they begin.  Constants of a model
that is put in by an instance are constants of the `MC` module, with the
assumptions the proofs need (`WorktreesAssumption`, `RoundAssumption`,
`StoreAssumption`).  Planning is instantiated with its bounds, from the proof
module, so that its theorems are about the instances themselves.

| Module | Parts |
|---|---|
| `MCPrLoop` | the loop; the configuration chooses policy, pushers, checks and bounds |
| `MCInterrupt` | the process; the crews, pools and order of the runs |
| `MCHost` | `claims` (`WorkdirClaims`), `turns` (`Interrupt`, for its liveness), `worktrees` (`RunWorktrees`) |
| `MCLibrary` | `library` and `commands` (`Interrupt`), `chosen` and `board` (`PrLoop` under a selective and under the default policy) |
| `MCArtifacts` | `turn` (`AgentTurn`), `round` (`Publication`), `setup` (`StoreSetup`) |
| `MCServices` | `one head`, `two heads`, `long wait` (`ManagedCi`), `plan`, `long plan`, `restarts` (`PlanLoop`) |

## 4. What TLC checks

| Run | Properties | Instance | States |
|---|---|---|---|
| `panel` | `TypeOK`, `MergedHeadIsApproved`, `SecondariesWaitForPrimary`, `CountedFindingsKept`, `ImplementsHeadBoundMerge`, `CommitSurfacesRequirements` | primary then panel, a failing secondary, a push by anybody, a signed requirement, 2 heads, 2 runs | 102,094 |
| `run_ends` | `RoundsWithinBudget`, `OnlyARepairRequalifies`, `EveryRunEnds` | one reviewer that may fail, 2 configured rounds and the extensions, conflicts, all check results, pushes by anybody, 2 runs | 196,775 |
| `library` | `CancelledWaitsStop`, `LatchIsFresh`, `BudgetHolds`, `CutWaitIsAQuotaStop`, `FindingsCarried` | library runs of two threads; 2 commands of one process with 2 parallel turns and a turn of the main thread, 2 resets of which not all pairs fit; a selective board whose checks fail on the first of 2 heads, and a sequential all-reviewers board with all check results, 2 runs | 311,872 |
| `host` | `TypeOK`, `ClaimsAreExclusive`, `AllOrNothing`, `NothingLeaks`, `UsedStays`, `LeftoversAreFound`, `InterruptEnds`, `NobodyIsHeldUp` | 3 runs in 2 processes, 2 checkouts claimed in opposite orders, 2 claim calls each; the commands of `library`; 2 runs and a direct run on one store that goes stale once | 219,944 |
| `artifacts` | `ArtifactsTypeOK`, `NothingIsCutOff`, `CaptureIsLast`, `BodiesAreSound`, `TurnsAreIndependent`, `SetupRecordIsTrue`, `ReplayIsExact`, `AnswerOrStop`, `OnlySoundSourcesAreUsed`, `ResponseKept`, `UndisturbedRoundEnds` | a turn of an ordinary backend and of an Antigravity chain of 3 models in 2 quota groups; 2 reviews of 2 bodies, 3 faults, 2 accounts; 3 runs on a store, 2 of them with a setup command | 1,016,112 |
| `services` | `MergeIsQualified`, `LedgerIsSound`, `ApprovedPlanIsSound`, `PanelWaits`, `CrossChecksAgree`, `AttachmentIsDurable`, `RerunIsJudgedAlone` | managed CI with 2 intents, 2 attempts, 2 or 3 polls, 2 restarts, on one head or two; planning in 2 runs of 2 rounds with one change of any kind, in 3 rounds, with a change of the requirements in one run or with three runs, and in 4 runs of 1 round with 2 changes of the requirements | 1,221,449 |
| `unreviewed_recovery` | `MergedHeadIsApproved` (violated) | default policy, 1 coder push, 2 runs | first finding |
| `findings_lost` | `CountedFindingsKept` (violated) | owner-scoped policy, failing reviewers, no push, 3 runs | second finding |
| `interrupt_agents` | `AgentsAreKilled` (violated) | 1 command, 2 turns, 1 signal | third finding |
| `public_peer` | `NoTurnBesidePublicPeer` (violated) | the round of `artifacts` | fourth finding |
| `plan_unanswered` | `ApprovedPlanAnswersDemand` (violated) | planning, 4 runs of 1 round, 1 change of the requirements | fifth finding |
| `plan_finding_lost` | `PublishedFindingsAreAnswered` (violated) | planning, 3 runs of 3 rounds | sixth finding |

What the properties say:

- `ClaimsAreExclusive`, `AllOrNothing`, `NothingLeaks`: a registered claim is
  locked by its run and by no other and its record names it; a refused list gives
  back exactly what it took; a closed scope leaves neither lock nor count.
- `UsedStays`: the worktree of a working run keeps its path, its entry in the
  store it was made from and its record; the store of a direct run is not
  recreated.  `LeftoversAreFound`: no path is without an owner record, a worktree
  that was ready keeps its ready record until its path and its entry are both
  gone, and a sweep takes every whole worktree whose run was dead when it began.
- `NobodyIsHeldUp`: an unwinding scope ends, and no run keeps the store lock.
- `ImplementsHeadBoundMerge`, `MergedHeadIsApproved`: no merge of a commit that
  some reviewer has not approved as exactly that commit, whatever the run
  believed when it resumed.
- `OnlyARepairRequalifies`: the CI obligation is discharged only by checks of
  its candidate, never of the head that failed, even after someone reran the
  failed checks and they turned green.
- `CommitSurfacesRequirements`: a requirement posted before the last snapshot
  was in front of every reviewer of the merged head.
- `RoundsWithinBudget`: each extension is spent once, restarts included.
- `SecondariesWaitForPrimary`: no path into the full board (fallback, stale
  checkpoint, latch) precedes the opening of the panel.
- `CountedFindingsKept`, `FindingsCarried`: no restart, rollover or unrecorded
  push loses a blocking finding that a reconciliation has counted, or, at the
  settlement of a round, the last review of any reviewer.
- `BudgetHolds`: the parallel turns of a run share two waits and one duration.
- `CancelledWaitsStop`, `LatchIsFresh`: a cancel ends every wait that was
  registered or reserved when it came, even when another run starts meanwhile,
  and is never felt by a run that starts after all runs have ended.
- `CutWaitIsAQuotaStop`: a command that cut a wait short says so, even when the
  signal fell between the reservation and the registration of the wait.
- `InterruptEnds`: once agents are being killed and none is half
  launched, the run ends although nothing is assumed of agents.
- `NothingIsCutOff`: no retry, correction or repeated command of an ordinary
  backend fails for want of an attempt, and no replay after a wait does on any
  backend.  `CaptureIsLast`: the plan candidate handed to a replan is that of the
  last attempt.  `ReplayIsExact`: what is sent after a wait is the dispatch that
  ran into the quota.  `AnswerOrStop`: a turn ends.
- `BodiesAreSound`, `TurnsAreIndependent`, `ResponseKept`, `UndisturbedRoundEnds`:
  no body of a review is public twice, and no anchor without its sidecar; no new
  reviewer works beside a public review; a response that still validates stays in
  the spool until its review is public; a round that nobody disturbs is published
  in the end.
- `SetupRecordIsTrue`, `OnlySoundSourcesAreUsed`: the setup record names what a
  command that finished installed; no unfinished or damaged source is linked, and
  a stale mark is cleared by a successful setup only.
- `LedgerIsSound`, `MergeIsQualified`, `AttachmentIsDurable`,
  `RerunIsJudgedAlone`: there is one intent for a head and an activation, and every record is valid for
  the process and for the workflow that read it; a merge follows a success that
  an authorised run published for that head and attempt, and after a failure a
  later attempt of the run that failed; an attachment is given up only to a newer
  run or attempt or because it ended without a status, and that is recorded; after
  its own rerun the loop passes on nothing but that attempt.
- `PanelWaits`, `ApprovedPlanIsSound`, `CrossChecksAgree`: a secondary reviews a
  plan after the primary has approved it as it stands; what is handed over is the
  newest plan, each reviewer's last word on it is an approval of exactly this plan
  under the requirements of now, every finding that was counted is answered, and
  every finding that was published was counted; the two classifiers of a complete
  approval never disagree in a reachable history, and no obligation of history is
  missing at the gate.  The last two have one exception, a blocking review that a
  restart did not schedule again (`Overlooked`), which is the sixth finding.  That
  the plan itself answers the requirements is not among them: it does not always,
  which is the fifth.
- `EveryRunEnds`: rounds, polls, reruns and unchanged-head turns bound every run.

**Bounds.**  `MaxRuns`, `MaxPushes`, `MaxReqs`, `WatchBudget`, `MaxRounds`,
`MaxCalls`, `MaxIntents`, `MaxAttempts`, `MaxPolls`, `MaxRestarts`, `MaxFaults`,
`MaxStale`, `MaxGen`, `MaxDamage`, `MaxChanges`, `MaxEdits` and `MaxPeers` bound
the instances, in guards or as the program's own option; each is named in the
module that uses it.  Two heads are enough for all head-bound questions (the
failed one and another, going back included), two runs for a crash at any point
followed by a restart, two reviewers for disagreement and for primary and
secondary.  `findings_lost` needs a third run: one to reconcile, one to roll
over, one to forget.  A third run is also the first that restores a budget from a
head review that was retired (one to spend an extension, one to recover the moved
head and to be cut after its first review): the instances are too large to be
kept as runs, a search reaches the state at depth 27, and `ResumeRestart` and
`BudgetSafety` prove it for any number of runs.  `Interrupt` sleeps a wait in `Slices` slices, one is enough
to be cut short before, in and after it; `MaxSignals` is 1, since a second signal
ends a command without any of the promises (section 5).  A publication is retried twice in
the model (three times in the code): the second try is a retry of a retry.  The
chain of `artifacts` is the shortest with a fallback inside a group and a jump
between groups.  `plan_unanswered` needs four runs, one that posts, two that die
between a review and the gate, and one that approves; `plan_finding_lost` three,
in a round that has a prior item.  Planning also holds in larger instances that
take too long to be kept as runs; with rounds, runs, changes and edits in this
order, (3,3,0,0) has 561,317 states, (3,3,1,0) 26.5 million, (2,3,2,0) 483,592,
(1,4,2,1) 351,593, (3,2,1,0) 1.7 million, and (2,2,1,0) with three reviewers 1.3
million.  All
instances are explored exhaustively and without symmetry, since some runs check a
liveness property and the primary is distinguished in the others.

**Fairness.**  `PrLoop` assumes `WF_vars(pc # "off" /\ Step)`: a run that was
started is a thread that keeps executing, since each call it makes has a timeout
of its own.  Nothing is assumed of people, of CI or of crashes, and nobody is
obliged to start a run.  `WorkdirClaims` assumes weak fairness of the acquiring
and of the unwinding of each run, which block only on a mutex whose critical
sections end; the body of a run may last forever.  `RunWorktrees` assumes that a
run inside one of the operations of the store goes on (file operations and git
subprocesses with timeouts), and nothing of the order in which `flock` serves
those that wait or of how long a run works.  `Interrupt` assumes weak fairness of
the threads that host a run and of the workers, sleeping included, and none of
agents, signals or the start of runs.  `AgentTurn` assumes `WF_vars(Turn)`: an
agent answers or its timeout ends it.  `Publication` assumes weak fairness of the
program, restarts by the operator included: a round that stopped is only
finished if somebody runs the command again, and `UndisturbedRoundEnds` is about
that.  `StoreSetup`, `ManagedCi` and `PlanLoop` state safety only.

**Deadlock** is not checked.  A merged pull request, a published round, exhausted
bounds and closed scopes are legitimate ends.

## 5. Findings

*A head nobody reviewed can be merged under the default policy*
(`unreviewed_recovery`).  The round approves, the checks fail, the coder pushes,
and the run dies before it records the turn.  The next run recovers a ledger
that holds nothing but the CI obligation, skips the reviewers for that recovery
round, and the exact-head gate, which would notice, is only executed under the
scheduled policies.  ARCHITECTURE.md:44 promises the exact-head approval, and
docs/local_agent_loop.md:8761 a review in the following round.

*A finding that a reconciliation has counted can be forgotten*
(`findings_lost`).  A rollover round in which every scheduled reviewer is
unavailable has records, none of which can anchor a resume, and the run after it
starts from an empty ledger.

*An agent that is being launched survives the interrupt* (`interrupt_agents`).
`run_with_log` reads `_interrupted` before it prepares the launch, and the
registration of the process does not read it again.  If
`terminate_active_processes` runs in between, it finds nothing to kill, and the
shutdown of the executor waits for the whole turn.  review_rounds.py:1241 says
that agents are killed so that the wait loops return promptly.

*A reviewer can work beside a public review* (`public_peer`).  The preflight
posts a frozen review of a peer, but the public peers the launcher compares with
were read before that (pr_loop.py:3795, used at pr_loop.py:5032).  A reviewer
whose own posted review no longer covers the surfaced requirements is then
launched although docs/local_agent_loop.md:3860 says that no reviewer ever is.
A reviewer without a public review of its own never is (`TurnsAreIndependent`).

*A plan that does not answer the signed requirements can be executed*
(`plan_unanswered`).  The gate notices that the plan has no disposition of a
requirement, but charges it to the reviewers whose approvals this run has read
(plan_first_loop.py:3585).  A run that finds everybody's approval in the history
reads none, so nothing is missing and the plan is handed over.
plan_verification.py:1352 says of this gate that every surfaced requirement needs
a disposition before approval, and classifies the same history as unfinished.

*A published finding about a plan can be approved over* (`plan_finding_lost`).  A
round that carries an item of the primary opens the panel when the primary
approves.  If the run dies after a secondary has posted a blocking review, the
restart takes the round for the remediation of that item and schedules nobody of
the panel; reviews of reviewers that are not scheduled are not read
(plan_first_loop.py:2462).  The finding is neither a vote nor an item, and the
next review of the secondary may approve.  plan_execution.py:664 says that an
obligation that was published but neither carried nor cleared fails closed.

Met while modelling, and not kept as runs.  A second signal raises out of the join
of an interrupted command, and `cli.main` clears the latch (cli.py:3229) while a
worker has not looked at it yet, whose wait then goes on, although
quota_wait.py:135 says that every active and about-to-start wait is cancelled.
The attempts of an Antigravity turn are counted once per model, and a jump to
another quota group may walk models a second time, so that a correction granted on
the last attempt is never sent (validated_agent.py:1438), although
validated_agent.py:1451 and docs/local_agent_loop.md:2770 say that it does not
compete with the fallback.  An overlooked review of a plan that keeps an item can
also make the final gate refuse for good, since the item it keeps is then missing
from every ledger.

Met as well, and not counted as disagreements: under all-reviewers the
requirements are not compared again before the merge; an extension for a moved
head is not written down when there is no CI obligation, so that a restart has
it again; reviews posted in a round with a repair checkpoint are not reused by a
resume; when people push into a half-reviewed round, the aggregate settlement of
the recovered round may drop a finding of a reviewer who had not voted, so
`FindingsCarried` is checked with coder pushes only under all-reviewers; going
back to an older head makes the approvals of that head count again, which is
what "exact head" means; the recovery hint to delete the listed comments does not
repair a carrier whose context changed; an acknowledgement repair that turns
blocking may leave the ledger with the item it carried; an issue that is edited
during a planning run, or after a complete approval, does not reopen the plan;
docs/local_agent_loop.md:1361 counts one extra attempt of a turn, the code two; a
clean-up of a failed creation that is cut short after the path, followed by a `git
worktree prune` that fails, lets the sweep drop the pending record while git still
registers the entry (run_worktrees.py:1064), which then only keeps a stale store
from being recreated until git prunes it.

## 6. What is proved

Every theorem holds for all values of the constants that satisfy the named
assumptions.  For the loop, `FirstHead` is a head, the bounds are natural numbers,
the policy is one of three, the primary is a reviewer, `NoHead` is not a head.  For
the claims, `Runs` is finite and `Host` a function.  For the process, each turn
belongs to one run and there are finitely many of both.  For managed CI and the
turn, the bounds are natural numbers and chains are sequences of groups.  For the
worktrees (`WorktreesAssumption`), the publication (`RoundAssumption`) and the
setup (`StoreAssumption`), nobody is not a run, an installed digest is not the
missing one, the reviewers are finitely many and the bounds are natural numbers;
`PublicationProofs` and `StoreSetupProofs` have them as the hypothesis
`ConstantsAreSound`.  For planning, the primary is a reviewer.  An invariant is
proved from its inductive strengthening, which TLC checked first.

**`HostProofs`**, the claims: `ClaimTyping`, `ClaimExclusion`, `RollbackSafety`,
`LeakFreedom`.  None of the checked invariants is inductive: a lock may be seen
without its registry entry in the middle of an acquisition or a release.
`ClaimInv` says who may hold a lock in which place of its program
(`WritersHold`, `ReleasersHold`, `ProbesInBody`), that every lock is accounted
for, and that a registry only names its own runs.

**`PrLoopProofs`**: `ResumeRestart`, `Typing`, `BudgetSafety`, `Invariance`,
`Requalification`.  Whatever a well-formed log holds, `Resume` returns a typed
start whose checkpoint and budgets are literally in the log; the lemmas follow
its cases (handoff, recovered round, checkpoint, ordinary round).  It also says
(`HeadReviewRestored`) that a head review gives its budget to every run that
resumes a round of its head, unless another handoff is live.  The budget of a
run is sound because it is either the configured one or was posted, and what is
posted is sound because the budget of the posting run was: `LogOK` and `RunOK`
need one another across a restart.  The invariant adds that a coder turn only
runs while a further round is allowed, since its records belong to that round.
For the CI obligation: between settlement and merge it has the current head as
its candidate (`BoundToSeen`), and passed checks are never taken back
(`PassedStays`).

The same module has `VotesBacked`, `ExactHeadApproval`, `PanelSafety` and
`CommitSurfaces`.  `VotesBacked`: each vote of a run's tally is a posted review of
that round and head (`Backed`), because only review turns post reviews and a resume
reads its votes from the records.  `ExactHeadApproval` and `CommitSurfaces`, for the
scheduled policies: what is merged has from each reviewer a posted approval of
exactly that commit, and these reviews surfaced every requirement that was posted
before the last snapshot.  `PanelSafety` is `SecondariesWaitForPrimary`:
`PanelInv` adds that a run asks a secondary only when the opening was posted in the
log (`PostedOpenings`, since a later reconciliation never takes a post back);
reviewers are asked where a round is launched and nowhere else, and every
way into the full board there (latch, checkpoint, fallback) passes the opening.

**`ArtifactsProofs`**, the turn: `TurnTyping`, `CandidateIsFresh`, `AllowanceSuffices`,
`ReplayExactness`, for any number of retries, waits and peers and any chain of
models.  `AttemptsArePaid` says that each attempt of a turn is paid for by a grant
that `max_attempts` has counted (the fallback of a chain is not, which is why corrections may be lost there).  `ReplayIsPending` says that a replay is the dispatch in flight, and
`CandidateIsLast` that a candidate belongs to the last attempt.

**`InterruptProofs`**: `InterruptTyping`, `LatchFreshness`, `CancelStops`,
`CutWaitsAreQuotaStops`, `BudgetIsNeverOverdrawn`.  The last four have the
hypothesis `OneSignal`, since a second signal breaks them, and the ones about cancelled waits `CommandsAreAlone`: whatever else the process runs comes before or after a command, not beside it.  `RunInv` says that the turns
of a run that has left are joined.  An idle process has therefore no wait, and the
run that finds it idle is free to clear the latch.

**`ServicesProofs`**, managed CI: `CiInvariant`, `CiTyping`, `LedgerSoundness`,
`MergeQualified`, `AttachmentDurability`, `RerunJudged`.  `CiInv` says that the
ledger of intents and obligations is true of GitHub's runs (`LedgerInv`), that
what the program remembers is in the ledger (`MemoryIsSound`), that a failure it
blames is one of its own runs (`FailureIsOwned`), and that a pass it merges on
is (`PassIsSound`).  `LedgerMoves` is the step lemma from which the two action
properties follow.

**`HostProofs`**, the worktrees: `StoreInvariant`, `WorktreeSafety` (`UsedStays`),
`LeftoverSafety` (`LeftoversAreFound`).  A working worktree survives because three
things hold together.  Holds of the lock exclude each other and a claim lasts as
long as its run (`LockIsOwned`, `ClaimIsLife`), so that a victim that is not
claimed is dead (`VictimsAreFair`).  An entry belongs to the store as it is,
since recreating takes a store without entries and `git worktree prune` drops an
entry only when its path is gone (`EntriesAreOfStore`).  And what is on disk is
all or nothing outside `add_run_worktree`, its clean-up and the removal
(`WholeOrNothing`), and never ready before it is whole, which is why the sweep may
drop a record that is not ready once the path is gone: the most it loses sight of
is the entry of a worktree in which nobody ever worked.

**`PublicationProofs`**: `RoundInvariant`, `RoundTyping`, `BodySoundness`
(`BodiesAreSound`), `TurnIndependence` (`TurnsAreIndependent`), `ResponsesAreKept`
(`ResponseKept`), for any board in any order.  `RoundInv` has two halves.  `Durable`
is what a crash leaves: every comment is of a turn that was run, a fresh record has
published nothing, what a carrier has published was posted by the account it
names.  `RunInv` is what the running program may rely on.  Above all
`WriteIsNext`: the body it is about to write is the next one of a frozen review of
its own account and not public yet, which every way back to a write (a retry, a
reconciliation, the suffix of an interrupted review) has to establish again.

**`StoreSetupProofs`**: `SetupInvariant`, `SetupTyping`, `SetupTruth`
(`SetupRecordIsTrue`), `SourcesAreSound` (`OnlySoundSourcesAreUsed`).  `SetupOrder` is the order of the
writes: the record goes before the mark, the mark comes before the command, the
command ends before the mark is cleared, and the record is written last.  A crash
between any two leaves a source that is marked, or unrecorded, or both
(`PartialIsStale`).

**`PlanLoopProofs`**: `PlanPanelWaits` (`PanelWaits`), `PlanApprovalSound`
(`ApprovedPlanIsSound`), `PlanCrossChecks` (`CrossChecksAgree`), for any board,
rounds, runs, restarts and edits.

*The panel.*  Within a scope the records that count only grow, so that a panel once
opened stays opened (`PostKeepsPanel`); a new scope starts at a round past those of
every record, so that it starts with none of them (`ScopeStartsEmpty`).  `GoodLog` is
what this takes of the log.  A run works in the scope of the log until it ends,
and has chosen a secondary only when that scope was opened (`RunInScope`): by the
decision that asks it (`SecondariesNeedOpening`), or, when a run takes over an
approved plan, by the reviews in the records it reads, which may be those before
an unused advance (`PrefixInScope`, `ViewsAreHere`).

*The approval* (`ApprovalInv`).  Neither property is inductive, since the run that
executes a plan has mostly not seen the reviews it relies on.  The records of a
scope, whoever posted them, are `Ordered` (rounds grow, a round is about one plan
and starts from one ledger), `Judged` (a reviewer that has blocked a round is not
heard again in it), `Closed` (a round that is over was settled, by the findings of
every review but those overlooked) and `Accounted` (each item of a round that is
over is carried by the newest one or answered).  The run is `RunSound`: it is about
the newest plan (`RunIsCurrent`), its votes are the last words of their reviewers,
and a reviewer it does not ask has approved (`VotesAreHeard`), it settles what it
has read (`RoundIsSettled`), and the ledger at the gate has everything the round
left open (`GateIsSound`).  A run that takes over an approved plan skips all this;
`ShortIsSound` says that it has the same facts from the records (`ApprovedView`).
TLC checked `ApprovalInv` on 2 runs of 2 rounds and on 4 runs of one.

**The compositions.**  A behaviour of `MCHost`, `MCArtifacts` or `MCServices` is one of
the model it is in, so that the theorems of the instances hold there
(`HostUsedStays`, `HostLeftoversAreFound`; `ArtifactsTyping`, `RoundBodiesAreSound`,
`RoundTurnsAreIndependent`, `RoundResponsesAreKept`, `StoreRecordIsTrue`,
`StoreSourcesAreSound`; `PlanPanels`, `PlansAreApproved`, `PlanChecksAgree`).  The
first two are proved for all constants of their instances; the planning parts have
the bounds that `MCServices` gives them, and `PlanLoopProofs` the theorem for all.

Only model-checked:

- `ImplementsHeadBoundMerge` and `MergedHeadIsApproved`.  They say that the *last*
  review of each reviewer approves the merged head, and hold in the instances that
  are checked, but not for all constants of the model.  With one head, four rounds
  and six runs TLC finds a history (59 states, on a path given by hand) that starts
  over after a round without reviews, as in the second finding, and then reaches a
  round with the number and the ledger of an old one: `CurrentRound` takes the old
  approval for one of this round, although its reviewer has blocked in between.
  The program compares the text and the source round of the items as well
  (`_prior_item_ledger_signature`), which the model does not have, so this takes
  findings that repeat word for word, and it is no finding of section 5.
  `ExactHeadApproval`, that every reviewer has posted an approval of exactly that
  head, is what is proved, for the scheduled policies and any constants.
- `CountedFindingsKept` and `FindingsCarried`.  The first is false for some
  constants (the second finding), the second relates the tally to every earlier
  review of the log.
- The liveness properties, which are out of the prover's reach, as is `ENABLED`.

## 7. Abstractions

The loop:

- A reviewer's findings are one item; identities, texts and fix scopes of
  findings are not modelled.  Where the code classifies a diff by them, the model
  allows both answers, unless the other conditions already decide.
- A comment is one record.  Long comments are several parts; the loop sees them
  joined or not at all.  How a parallel round gets posted is `Publication`.
- Parallel reviewers are steps in any order.  The failure of a sole reviewer in
  sequence ends the run, as `Crash` does.
- Check results are final, except that failed plumbing is rerun by the loop and
  failed checks by people.
- One run at a time works on a pull request; the claims on checkouts and the
  command line see to that on one host.
- A merge conflict, once it exists on a head, stays until the head changes.
- Not modelled: evidence freeze, conversion and stall; the extra round granted
  once per head for progress on evidence; board changes and amendments; the
  acknowledgement item for requirements; step-back; visual review;
  `--review-unrecorded-head`; the operator's force-full switch; review-only mode;
  the database-migration guard; board-amendment activations, which the startup
  latch still reads when they are inert.

The process and its turns:

- A SIGTERM without an active wait ends the process, and the model says nothing
  more; signals that arrive once a run has left its executor are not modelled.
- Commands and library runs are not mixed in one process.  A turn that is left
  behind by a second signal uses the run's budget entry even if it had a
  reference to the dropped one.
- The launch is that of an uncontained agent; a containment scope adds a second
  read of `_interrupted` before the spawn and none after it.
- An answer of an agent is what the turn's loop makes of it: contracts, repair
  prompts and normalisations are part of that judgement, and both re-asks of a
  reviewer are one correction.  The waits of a turn's peers are reservations that
  may fail at any time.  Answers that violate a contract and report a usage limit
  at once are not modelled.  Antigravity is checked for plan turns, which have
  every recovery of the others.

The publication:

- A write that fails transiently was applied when it was made, or never is.
  Bodies of different turns differ.  A listing can be read or not.  The head does
  not move, since another head is another spool; the requirements change once.
- Not modelled: incomplete reviews, sequential rounds, the recovery list printed
  to the operator.  Two records of an older version are not both published.

Managed CI: activation, labels, protection and adoption handshakes, protocol
version 1 and the manual qualification are not modelled.

Worktrees and setup: pack compaction, the fast-forward of the base branch, ignore
warnings, the structural capture of a source, generated key files and per-PR
environments are not modelled.

Planning: the planner's turn is its plan record.  Not modelled: the stall,
step-back, sweep, growth and narrow-staged options, board lineages and
amendments, the operator override, requirements of a parent issue, supersession
and the inherited matrix, sequential mode, damaged histories, premature secondary
reviews, future items, decomposition and the implementation itself.

Not modelled at all: pure text (rendering, parsing, transport, prompts), process
confinement, image acquisition and reporting, which are sequential or decide
nothing here; the issue and discussion loops, evidence stalls, boards and the
issue/PR association; and `workflow_transaction.py`, which nothing calls.
