----------------------------- MODULE ManagedCi ------------------------------
(***************************************************************************)
(* Managed exact-head CI, protocol version 2 (managed_ci.py).              *)
(*                                                                         *)
(* A round whose reviewers approved a head asks GitHub to run the managed  *)
(* workflow on exactly that head.  What is asked for is written to a       *)
(* comment of the pull request first, the intent, which the workflow reads *)
(* too; the run it starts becomes visible later, publishes its status      *)
(* later still or not at all, can be started twice for one nonce, and can  *)
(* be run again by a person or by the loop.  The process that waits dies   *)
(* and comes back with nothing but the intents and the durable obligation. *)
(*                                                                         *)
(* Comments, workflow runs and statuses are GitHub's; a run is known by    *)
(* its nonce (the number of its intent), its id and its attempt.           *)
(***************************************************************************)
EXTENDS FiniteSets, Naturals

CONSTANTS
  Heads,        \* commits of the pull request
  NoHead,
  Scopes,       \* whether activations have a generation each: a set of Booleans
  MaxIntents,   \* intents posted (bound)
  MaxRuns,      \* workflow runs created (bound)
  MaxAttempts,  \* attempts of one run (bound)
  MaxPolls,     \* polls of one qualification, ci_timeout over ci_poll_interval
  MaxRestarts   \* times the process starts (bound)

ASSUME HeadAssumption == NoHead \notin Heads /\ Scopes \subseteq BOOLEAN
ASSUME BoundAssumption ==
  /\ {MaxIntents, MaxRuns, MaxRestarts} \subseteq Nat
  /\ {MaxAttempts, MaxPolls} \subseteq Nat \ {0}   \* a run has an attempt 1; max(1, timeout // interval)

VARIABLES
  scoped,       \* each activation has a generation of its own (--managed-ci)
  live,         \* the head of the pull request
  moved,        \* heads it had before
  ledger,       \* the intents, by nonce
  runs,         \* the workflow runs
  statuses,     \* the final-ci/exact-head statuses that were published
  merged,       \* the head that was merged, or NoHead
  starts,       \* activations so far
  c,            \* ManagedCiContract: what the process holds of an intent
  wait,         \* the wait: polls left, least attempt, snapshot, confirmation
  reruns,       \* heads this process spent its plumbing rerun on
  outcome,      \* of the last wait
  proof,        \* the run and attempt a pass rests on
  failed,       \* the obligation on record: head, nonce, run, attempt, cleared
  pc

github == <<live, moved, ledger, runs, statuses, merged>>
vars == <<scoped, github, starts, c, wait, reruns, outcome, proof, failed, pc>>

Intents == 1..MaxIntents
Attempts == (1..MaxRuns) \X (1..MaxAttempts)
None == <<0, 0>>

NoIntent == [head |-> NoHead, gen |-> 0, state |-> "none", key |-> None,
             terminals |-> {}, last |-> None, noStatus |-> FALSE]
NoRun == [nonce |-> 0, head |-> NoHead, attempt |-> 0, state |-> "none", visible |-> FALSE, again |-> FALSE]
NoContract == [nonce |-> 0, head |-> NoHead, key |-> None, terminals |-> {},
               last |-> None, noStatus |-> FALSE, state |-> "none"]
NoWait == [polls |-> 0, least |-> 0, snap |-> None, done |-> FALSE, key |-> None, seen |-> FALSE]
NoFailure == [head |-> NoHead, nonce |-> 0, key |-> None, cleared |-> FALSE]

Generation == IF scoped THEN starts ELSE 0
Early == {"prepared", "dispatch-requested"}

(* _intent_body: an early state publishes no run.                          *)
Body(k, state) == [head |-> k.head, gen |-> Generation, state |-> state,
                   key |-> IF state \in Early THEN None ELSE k.key,
                   terminals |-> k.terminals, last |-> k.last, noStatus |-> k.noStatus]
Patch(k, state) ==
  /\ ledger' = [ledger EXCEPT ![k.nonce] = Body(k, state)]
  /\ c' = [k EXCEPT !.state = state]

Goto(label) == pc' = label

Init ==
  /\ scoped \in Scopes
  /\ live \in Heads /\ moved = {}
  /\ ledger = [i \in Intents |-> NoIntent]
  /\ runs = [r \in 1..MaxRuns |-> NoRun]
  /\ statuses = {} /\ merged = NoHead /\ starts = 0
  /\ c = NoContract /\ wait = NoWait /\ reruns = {} /\ outcome = "none" /\ proof = None
  /\ failed = NoFailure
  /\ pc = "off"

-----------------------------------------------------------------------------
(* GitHub and the people who use it.                                       *)

Posted == {i \in Intents : ledger[i].state # "none"}
Created == {r \in 1..MaxRuns : runs[r].state # "none"}
Unpublished(r, n) == ~\E s \in statuses : s.key = <<r, n>>

(* A push; an old head does not come back.                                 *)
HeadMoves ==
  /\ merged = NoHead
  /\ \E h \in Heads \ (moved \union {live}) : live' = h
  /\ moved' = moved \union {live}
  /\ UNCHANGED <<scoped, ledger, runs, statuses, merged, starts, c, wait, reruns,
                 outcome, proof, failed, pc>>

(* The run becomes visible, completes, is cancelled by a newer duplicate,   *)
(* or starts its next attempt.                                             *)
RunAdvances ==
  /\ \E r \in Created :
       \/ ~runs[r].visible /\ runs' = [runs EXCEPT ![r].visible = TRUE]
       \/ /\ runs[r].state = "active" /\ runs' = [runs EXCEPT ![r].state = "completed"]
       \/ /\ runs[r].state = "active"
          /\ \E q \in Created : q > r /\ runs[q].nonce = runs[r].nonce
          /\ runs' = [runs EXCEPT ![r].state = "cancelled"]
       \/ /\ runs[r].again /\ runs[r].attempt < MaxAttempts
          /\ runs' = [runs EXCEPT ![r].attempt = @ + 1, ![r].state = "active", ![r].again = FALSE]
  /\ UNCHANGED <<scoped, live, moved, ledger, statuses, merged, starts, c, wait, reruns,
                 outcome, proof, failed, pc>>

(* A person runs a finished run again.                                     *)
PersonReruns ==
  /\ \E r \in Created : /\ runs[r].state \in {"completed", "cancelled"} /\ runs[r].visible
                        /\ ~runs[r].again /\ runs[r].attempt < MaxAttempts
                        /\ runs' = [runs EXCEPT ![r].again = TRUE]
  /\ UNCHANGED <<scoped, live, moved, ledger, statuses, merged, starts, c, wait, reruns,
                 outcome, proof, failed, pc>>

(* The publisher of an attempt reports once, in its own time: also after   *)
(* the run completed, and after a later attempt began.                     *)
StatusPublished ==
  /\ \E r \in Created : \E n \in 1..runs[r].attempt, v \in {"success", "failure"} :
       /\ Unpublished(r, n)
       /\ statuses' = statuses \union
            {[head |-> runs[r].head, nonce |-> runs[r].nonce,
              key |-> <<r, n>>, verdict |-> v]}
  /\ UNCHANGED <<scoped, live, moved, ledger, runs, merged, starts, c, wait, reruns,
                 outcome, proof, failed, pc>>

-----------------------------------------------------------------------------
(* A process starts, and what it holds in memory is gone when it dies.     *)
Forget ==
  /\ c' = NoContract /\ wait' = NoWait /\ reruns' = {} /\ outcome' = "none" /\ proof' = None

Activate ==
  /\ pc \in {"off", "stopped"} /\ starts < MaxRestarts /\ merged = NoHead
  /\ starts' = starts + 1
  /\ Forget
  /\ Goto("ready")
  /\ UNCHANGED <<scoped, github, failed>>

Crash ==
  /\ pc \notin {"off", "stopped", "merged"}
  /\ Forget
  /\ Goto("stopped")
  /\ UNCHANGED <<scoped, github, starts, failed>>

(* release_stale_managed_ci_attachment: an intent of another head is       *)
(* dropped from memory, its comment and its run are left alone.            *)
Released(head) == IF c.nonce # 0 /\ c.head # head THEN NoContract ELSE c

(* While the head that failed is live, its obligation blocks a dispatch:   *)
(* it is reconciled or repaired by a push.                                 *)
Qualifiable(head) == pc = "ready" /\ head = live /\ failed.head # head

(* The reviewers approved the live head: the run that is attached already  *)
(* is waited for, or one is dispatched.                                    *)
BeginQualification ==
  /\ Qualifiable(live)
  /\ c' = [Released(live) EXCEPT !.head = live]
  /\ wait' = [NoWait EXCEPT !.polls = MaxPolls]
  /\ \/ Goto("ensuring")
     \/ c'.key # None /\ Goto("waiting")
  /\ outcome' = "none" /\ proof' = None
  /\ UNCHANGED <<scoped, github, starts, reruns, failed>>

-----------------------------------------------------------------------------
(* _ensure_v2_intent.                                                      *)

(* Mutant of Candidates: the comments of the page are not looked at.       *)
CandidatesUnread(head) == {i \in Posted : FALSE /\ ledger[i].head = head}

Candidates(head) == {i \in Posted : ledger[i].head = head /\ ledger[i].gen = Generation}

(* Mutant of Restored: the attempts that ended without a status are not    *)
(* read back.                                                              *)
RestoredForgetful(i) ==
  LET e == ledger[i]
      excluded == e.key \in e.terminals
  IN [nonce |-> i, head |-> e.head, key |-> IF excluded THEN None ELSE e.key,
      terminals |-> {}, last |-> None, noStatus |-> FALSE, state |-> e.state]

(* _restore_v2_intent_fields: an attachment that ended without a status is *)
(* history, any other one is the current run.                              *)
Restored(i) ==
  LET e == ledger[i]
      excluded == e.key \in e.terminals
  IN [nonce |-> i, head |-> e.head, key |-> IF excluded THEN None ELSE e.key,
      terminals |-> e.terminals, last |-> e.last,
      noStatus |-> e.noStatus /\ (excluded \/ e.key = None), state |-> e.state]

EnsureIntent ==
  /\ pc = "ensuring" /\ live = c.head
  /\ \/ \E i \in Candidates(c.head) :
          /\ Candidates(c.head) = {i}
          /\ c' = Restored(i)
          /\ UNCHANGED ledger
     \/ /\ Candidates(c.head) = {}
        /\ \E i \in Intents \ Posted :
             /\ \A j \in Intents \ Posted : i <= j
             /\ Patch([NoContract EXCEPT !.nonce = i, !.head = c.head], "prepared")
  /\ Goto("intent")
  /\ UNCHANGED <<scoped, live, moved, runs, statuses, merged, starts, wait, reruns,
                 outcome, proof, failed>>

(* The head moved before the dispatch, or two intents compete for it.      *)
QualificationRefused ==
  /\ pc = "ensuring"
  /\ live # c.head \/ Cardinality(Candidates(c.head)) > 1
  /\ Forget
  /\ Goto("stopped")
  /\ UNCHANGED <<scoped, github, starts, failed>>

Retained(k) == k.key # None

(* A run that is attached is the durable owner of this dispatch.           *)
RetainAttachment ==
  /\ pc = "intent" /\ Retained(c)
  /\ Goto("waiting")
  /\ UNCHANGED <<scoped, github, starts, c, wait, reruns, outcome, proof, failed>>

(* An attachment that is not retained is cleared by a PATCH of its own, and *)
(* so is the completed state of one that ended without a status.           *)
BeginDispatch ==
  /\ pc = "intent" /\ ~Retained(c)
  /\ IF c.key # None \/ (c.state = "completed" /\ c.noStatus)
       THEN Patch([c EXCEPT !.key = None], "dispatch-requested")
       ELSE UNCHANGED <<ledger, c>>
  /\ Goto("discovering")
  /\ UNCHANGED <<scoped, live, moved, runs, statuses, merged, starts, wait, reruns,
                 outcome, proof, failed>>

(* _discover_v2_snapshot: the visible runs of this nonce whose current     *)
(* attempt did not end without a status.                                   *)
Survivors(k, terminal) ==
  {r \in Created : /\ runs[r].visible /\ runs[r].nonce = k.nonce
                   /\ terminal \/ runs[r].state # "cancelled"
                   /\ <<r, runs[r].attempt>> \notin k.terminals}

Newest(rs) == CHOOSE r \in rs : \A q \in rs : q <= r
Attached(k, r) == [k EXCEPT !.key = <<r, runs[r].attempt>>, !.noStatus = FALSE]

Discover ==
  /\ pc \in {"discovering", "dispatched"}
  /\ Survivors(c, FALSE) # {}
  /\ Patch(Attached(c, Newest(Survivors(c, FALSE))), "attached")
  /\ Goto("waiting")
  /\ UNCHANGED <<scoped, live, moved, runs, statuses, merged, starts, wait, reruns,
                 outcome, proof, failed>>

(* Nothing is found, or the page cannot be read three times in a row.      *)
RequestDispatch ==
  /\ pc = "discovering"
  /\ Patch(c, "dispatch-requested")
  /\ Goto("requested")
  /\ UNCHANGED <<scoped, live, moved, runs, statuses, merged, starts, wait, reruns,
                 outcome, proof, failed>>

(* _require_workflow_dispatch_authorization, on a fresh read of the page.  *)
Authorised == ledger[c.nonce].state \in {"dispatch-requested", "attached", "completed"}

(* The POST starts a run; its answer is an error that ends the process, or *)
(* the loop goes on.                                                       *)
Dispatch ==
  /\ pc = "requested" /\ Authorised
  /\ \E r \in 1..MaxRuns \ Created :
       /\ \A q \in 1..MaxRuns \ Created : r <= q
       /\ runs' = [runs EXCEPT ![r] = [NoRun EXCEPT !.nonce = c.nonce, !.head = c.head, !.attempt = 1,
                                                    !.state = "active"]]
  /\ Goto("dispatched")
  /\ UNCHANGED <<scoped, live, moved, ledger, statuses, merged, starts, c, wait, reruns,
                 outcome, proof, failed>>

WaitForVisibility ==
  /\ pc = "dispatched"
  /\ Goto("waiting")
  /\ UNCHANGED <<scoped, github, starts, c, wait, reruns, outcome, proof, failed>>

-----------------------------------------------------------------------------
(* wait_for_final_qualification: a poll looks at the head, then at the run, *)
(* then at the statuses, and each of them can change in between.           *)
Ends(result) == outcome' = result /\ Goto("routing")

PollHead ==
  /\ pc = "waiting" /\ live # c.head
  /\ Ends("head_changed")
  /\ UNCHANGED <<scoped, github, starts, c, wait, reruns, proof, failed>>

(* The contract with an attachment on record as ended dropped.             *)
Cleared == IF c.key \in c.terminals THEN [c EXCEPT !.key = None] ELSE c

Found(k) == IF k.key = None THEN Survivors(k, TRUE)
            ELSE {r \in Created : r = k.key[1] /\ runs[r].visible}

PollRun ==
  /\ pc = "waiting" /\ live = c.head
  /\ \E r \in Found(Cleared) : 
       LET k == Attached(Cleared, r) IN
       /\ Cleared.key = None => r = Newest(Found(Cleared))
       /\ IF k.key = Cleared.key THEN c' = Cleared /\ UNCHANGED ledger
                                 ELSE Patch(k, "attached")
       /\ wait' = [wait EXCEPT !.snap = k.key, !.done = runs[r].state \in {"completed", "cancelled"}]
  /\ Goto("reading")
  /\ UNCHANGED <<scoped, live, moved, runs, statuses, merged, starts, reruns,
                 outcome, proof, failed>>

(* Nothing found, or the API does not answer.                              *)
PollRunBlind ==
  /\ pc = "waiting" /\ live = c.head
  /\ c' = Cleared
  /\ wait' = [wait EXCEPT !.snap = None, !.done = FALSE]
  /\ Goto("reading")
  /\ UNCHANGED <<scoped, github, starts, reruns, outcome, proof, failed>>

(* Mutant of Stale: the attempt before the rerun counts.                   *)
StaleNever == wait.least > MaxAttempts

Stale == c.key[2] < wait.least

(* Mutant of Correlated: the run that published is not compared.           *)
CorrelatedAnyRun ==
  {s \in statuses : /\ s.head = c.head /\ s.nonce = c.nonce /\ s.key[2] = c.key[2]
                    /\ c.key # None /\ c.key \notin c.terminals}

(* _v2_correlated_status: nothing but what the attached attempt published. *)
Correlated ==
  {s \in statuses : /\ s.head = c.head /\ s.nonce = c.nonce /\ s.key = c.key
                    /\ c.key # None /\ c.key \notin c.terminals}

Judge(s, board) ==
  /\ s \in Correlated /\ ~Stale
  /\ \/ s.verdict = "success" /\ board /\ proof' = s.key /\ Ends("passed")
     \/ s.verdict = "failure" /\ proof' = proof /\ Ends("failed")
  /\ Patch(c, "completed")
  /\ UNCHANGED wait

PollStatus ==
  /\ pc \in {"reading", "rereading"}
  /\ \E s \in statuses, board \in BOOLEAN : Judge(s, board)
  /\ UNCHANGED <<scoped, live, moved, runs, statuses, merged, starts, reruns, failed>>

NextPoll(w) ==
  /\ wait' = [w EXCEPT !.polls = @ - 1, !.snap = None, !.done = FALSE]
  /\ IF w.polls > 1 THEN UNCHANGED outcome /\ Goto("waiting") ELSE Ends("timeout")

Finished == wait.done /\ ~Stale

(* The run completed and no status of it is seen: it is read once more.    *)
ConfirmFirst ==
  /\ pc = "reading" /\ Finished /\ wait.snap # wait.key
  /\ wait' = [wait EXCEPT !.key = wait.snap, !.seen = FALSE]
  /\ Goto("rereading")
  /\ UNCHANGED <<scoped, github, starts, c, reruns, outcome, proof, failed>>

ConfirmSecond ==
  /\ pc = "rereading"
  /\ NextPoll([wait EXCEPT !.seen = TRUE])
  /\ UNCHANGED <<scoped, github, starts, c, reruns, proof, failed>>

(* Seen completed without a status a second time.                          *)
Condemn ==
  /\ pc = "reading" /\ Finished /\ wait.snap = wait.key /\ wait.seen
  /\ Patch([c EXCEPT !.last = wait.snap, !.noStatus = TRUE,
                     !.terminals = @ \union {wait.snap}], "completed")
  /\ Ends("terminal_without_status")
  /\ UNCHANGED <<scoped, live, moved, runs, statuses, merged, starts, wait, reruns,
                 proof, failed>>

(* Pending, an unreadable status, or a success on an incomplete board.     *)
PollAgain ==
  /\ \/ pc = "reading" /\ (Finished => wait.snap = wait.key /\ ~wait.seen)
     \/ pc = "reading" /\ \E s \in Correlated : s.verdict = "success"
     \/ pc = "rereading" /\ \E s \in Correlated : s.verdict = "success"
  /\ NextPoll(wait)
  /\ UNCHANGED <<scoped, github, starts, c, reruns, proof, failed>>

(* observe_active_failure: a job of the attached attempt failed while the  *)
(* run goes on, and the intent is the newest of this head.                 *)
EarlyFailure ==
  /\ pc = "reading" /\ wait.snap # None /\ ~wait.done /\ ~Stale
  /\ c.key = wait.snap
  /\ runs[c.key[1]].state = "active" /\ runs[c.key[1]].attempt = c.key[2]
  /\ ledger[c.nonce].key = c.key /\ ledger[c.nonce].state \in {"attached", "completed"}
  /\ ~\E i \in Posted : i > c.nonce /\ ledger[i].head = c.head
  /\ Ends("failed")
  /\ UNCHANGED <<scoped, github, starts, c, wait, reruns, proof, failed>>

-----------------------------------------------------------------------------
(* The pull request loop takes the outcome.                                *)

(* _route_managed_plumbing_outcome: only plumbing failed, the head was not *)
(* rerun before, and the waiting budget is not used up.                    *)
RerunAllowed ==
  outcome = "terminal_without_status" /\ c.head \notin reruns /\ wait.polls > 1

(* The authenticated record holds the completed no-status transition of    *)
(* the attempt that is still the run's current one.                        *)
RerunRecorded ==
  LET e == ledger[c.nonce] IN
  /\ c.key # None /\ e.state = "completed" /\ e.noStatus
  /\ e.key[1] = c.key[1] /\ e.last = e.key
  /\ \A n \in 1..MaxAttempts : <<e.key[1], n>> \in e.terminals => n <= e.key[2]
  /\ runs[e.key[1]].state \in {"completed", "cancelled"} /\ runs[e.key[1]].attempt = e.key[2]

Rerun ==
  /\ pc = "routing" /\ RerunAllowed
  /\ reruns' = reruns \union {c.head}
  /\ RerunRecorded
  /\ runs' = [runs EXCEPT ![c.key[1]].again = TRUE]
  /\ wait' = [NoWait EXCEPT !.polls = wait.polls - 1, !.least = ledger[c.nonce].key[2] + 1]
  /\ outcome' = "none"
  /\ Goto("waiting")
  /\ UNCHANGED <<scoped, live, moved, ledger, statuses, merged, starts, c, proof, failed>>

(* A test failed, with or without a status: the obligation is recorded and *)
(* the coder resumes.                                                      *)
RecordObligation ==
  /\ pc = "routing" /\ outcome \in {"failed", "terminal_without_status"}
  /\ failed' = [head |-> c.head, nonce |-> c.nonce, key |-> c.key, cleared |-> FALSE]
  /\ wait' = NoWait /\ outcome' = "none"
  /\ Goto("ready")
  /\ UNCHANGED <<scoped, github, starts, c, reruns, proof>>

(* An infrastructure stop: an ineligible rerun, a stall, or the timeout.   *)
StopLoop ==
  /\ pc = "routing" /\ outcome # "passed" /\ outcome # "head_changed"
  /\ Forget
  /\ Goto("stopped")
  /\ UNCHANGED <<scoped, github, starts, failed>>

(* The new head is reviewed.                                               *)
ReviewAgain ==
  /\ pc = "routing" /\ outcome = "head_changed"
  /\ wait' = NoWait /\ outcome' = "none"
  /\ Goto("ready")
  /\ UNCHANGED <<scoped, github, starts, c, reruns, proof, failed>>

Accept ==
  /\ pc = "routing" /\ outcome = "passed"
  /\ wait' = NoWait
  /\ Goto("qualified")
  /\ UNCHANGED <<scoped, github, starts, c, reruns, outcome, proof, failed>>

-----------------------------------------------------------------------------
(* managed_ci_reconciliation.py: a failed run that a person has run again. *)

(* observe_repair_result: the record of the failure is the newest intent of *)
(* its head, and a later attempt of its run, the current one, succeeded.   *)
Verified(r, n) ==
  /\ failed.head = live /\ failed.key[1] = r /\ n > failed.key[2]
  /\ ledger[failed.nonce].state = "completed" /\ ledger[failed.nonce].key = failed.key
  /\ ~\E i \in Posted : i > failed.nonce /\ ledger[i].head = live
  /\ runs[r].attempt = n /\ runs[r].state = "completed"
  /\ <<r, n>> \notin ledger[failed.nonce].terminals
  /\ \E s \in statuses : s.key = <<r, n>> /\ s.verdict = "success" /\ s.head = live

(* reconcile_repair_checkpoint: the clearance is a cache, and it is taken  *)
(* back when the evidence is gone.                                         *)
Reconcile ==
  /\ pc = "ready" /\ failed.head = live
  /\ \/ \E r \in Created, n \in 1..MaxAttempts :
          /\ Verified(r, n)
          /\ proof' = <<r, n>>
          /\ failed' = [failed EXCEPT !.cleared = TRUE]
          /\ c' = [NoContract EXCEPT !.head = live]
          /\ Goto("historical")
     \/ /\ failed.cleared
        /\ failed' = [failed EXCEPT !.cleared = FALSE]
        /\ UNCHANGED <<c, proof, pc>>
  /\ UNCHANGED <<scoped, github, starts, wait, reruns, outcome>>

(* historical_outcome observes it afresh.                                  *)
HistoricalOutcome ==
  /\ pc = "historical" /\ live = c.head
  /\ Verified(proof[1], proof[2])
  /\ outcome' = "passed"
  /\ Goto("qualified")
  /\ UNCHANGED <<scoped, github, starts, c, wait, reruns, proof, failed>>

HistoricalLost ==
  /\ pc = "historical"
  /\ ~Verified(proof[1], proof[2])
  /\ Forget
  /\ Goto("stopped")
  /\ UNCHANGED <<scoped, github, starts, failed>>

(* prepare_v2_merge: the evidence of a historical pass is observed again,  *)
(* and then the head.                                                      *)
PrepareMerge ==
  /\ pc = "qualified"
  /\ failed.cleared /\ failed.head = c.head => Verified(proof[1], proof[2])
  /\ live = c.head
  /\ Goto("merging")
  /\ UNCHANGED <<scoped, github, starts, c, wait, reruns, outcome, proof, failed>>

PrepareRefused ==
  /\ pc = "qualified"
  /\ \/ live # c.head
     \/ failed.cleared /\ failed.head = c.head /\ ~Verified(proof[1], proof[2])
  /\ Forget
  /\ Goto("stopped")
  /\ UNCHANGED <<scoped, github, starts, failed>>

(* gh pr merge --match-head-commit.                                        *)
Merge ==
  /\ pc = "merging" /\ live = c.head
  /\ merged' = live
  /\ Goto("merged")
  /\ UNCHANGED <<scoped, live, moved, ledger, runs, statuses, starts, c, wait, reruns,
                 outcome, proof, failed>>

MergeRefused ==
  /\ pc = "merging" /\ live # c.head
  /\ Forget
  /\ Goto("stopped")
  /\ UNCHANGED <<scoped, github, starts, failed>>

GitHubStep == HeadMoves \/ RunAdvances \/ PersonReruns \/ StatusPublished
DispatchStep ==
  \/ BeginQualification \/ EnsureIntent \/ QualificationRefused \/ RetainAttachment
  \/ BeginDispatch \/ Discover \/ RequestDispatch \/ Dispatch \/ WaitForVisibility
WaitStep ==
  \/ PollHead \/ PollRun \/ PollRunBlind \/ PollStatus \/ ConfirmFirst \/ ConfirmSecond
  \/ Condemn \/ PollAgain \/ EarlyFailure
LoopStep ==
  \/ Rerun \/ RecordObligation \/ StopLoop \/ ReviewAgain \/ Accept
  \/ Reconcile \/ HistoricalOutcome \/ HistoricalLost
  \/ PrepareMerge \/ PrepareRefused \/ Merge \/ MergeRefused

Next == GitHubStep \/ Activate \/ Crash \/ DispatchStep \/ WaitStep \/ LoopStep

Spec == Init /\ [][Next]_vars

-----------------------------------------------------------------------------
TypeOK ==
  /\ scoped \in BOOLEAN /\ live \in Heads /\ moved \subseteq Heads
  /\ \A i \in Intents :
       /\ ledger[i].state \in {"none", "attached", "completed"} \union Early
       /\ ledger[i].key \in Attempts \union {None} /\ ledger[i].terminals \subseteq Attempts
  /\ \A r \in 1..MaxRuns : /\ runs[r].nonce \in 0..MaxIntents /\ runs[r].attempt \in 0..MaxAttempts
                           /\ runs[r].state \in {"none", "active", "completed", "cancelled"}
  /\ c.nonce \in 0..MaxIntents /\ c.key \in Attempts \union {None}
  /\ wait.polls \in 0..MaxPolls /\ starts \in 0..MaxRestarts /\ merged \in Heads \union {NoHead}
  /\ reruns \subseteq Heads

(* A head is merged on a success that a run authorised for that very head  *)
(* published for the attempt the loop relied on, and never on an attempt   *)
(* the ledger had given up (wait_for_final_qualification).                 *)
MergedIsQualified ==
  merged # NoHead =>
    \E s \in statuses : /\ s.key = proof /\ s.verdict = "success" /\ s.head = merged
                        /\ ledger[s.nonce].head = merged
                        /\ \A i \in Intents : s.key \notin ledger[i].terminals

(* A head that failed is merged only on a later attempt of the run that    *)
(* failed it, whoever started that (reconcile_repair_checkpoint).          *)
FailureNeedsLaterAttempt ==
  merged # NoHead /\ merged = failed.head =>
    proof[1] = failed.key[1] /\ proof[2] > failed.key[2]

(* What is merged has qualified, and after its failure qualified anew.     *)
MergeIsQualified == MergedIsQualified /\ FailureNeedsLaterAttempt

(* An activation that is asked again, by itself or after a lost answer,    *)
(* finds its intent: two for one head would block it (_ensure_v2_intent).  *)
OneIntentPerHead ==
  \A i, j \in Posted : ledger[i].head = ledger[j].head /\ ledger[i].gen = ledger[j].gen => i = j

(* Every record the loop leaves behind, whenever it dies, is one the base  *)
(* workflow accepts (validate_intent_record).                              *)
RecordsValidate ==
  \A i \in Posted :
    LET e == ledger[i] IN
    /\ e.state \in Early <=> e.key = None
    /\ e.last # None => e.last \in e.terminals
    /\ e.state = "prepared" => e.terminals = {} /\ ~e.noStatus
    /\ e.state = "dispatch-requested" /\ e.last # None => e.noStatus
    /\ e.state = "attached" => ~e.noStatus
    /\ e.state = "completed" /\ e.noStatus => e.key = e.last
    /\ e.state \in {"attached", "completed"} /\ ~e.noStatus => e.key \notin e.terminals

(* The ledger can be read by whoever comes next: nothing in it is doubled  *)
(* or malformed.                                                           *)
LedgerIsSound == OneIntentPerHead /\ RecordsValidate

(* A run that owns an intent gives it up only to a rerun or a newer run of *)
(* the same intent, or because it ended without a status; and what ended   *)
(* without a status stays on record (_dispatch_v2_qualification).          *)
AttachmentIsDurable ==
  [][\A i \in Intents :
       /\ ledger[i].terminals \subseteq ledger'[i].terminals
       /\ ledger[i].key # None /\ ledger'[i].key = None =>
            ledger[i].key \in ledger'[i].terminals]_vars

(* After its own rerun the loop accepts nothing but the attempt it asked   *)
(* for, whichever run of the intent it is attached to (min_run_attempt).   *)
RerunIsJudgedAlone ==
  [][outcome' = "passed" /\ outcome # "passed" /\ pc # "historical" =>
       proof'[2] >= wait.least]_vars
=============================================================================
