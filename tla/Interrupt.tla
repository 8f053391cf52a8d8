----------------------------- MODULE Interrupt -----------------------------
(***************************************************************************)
(* Interrupting the parallel turns of a run (quota_wait.py, the executors  *)
(* of review_rounds.py and discuss_loop.py, the process registry of        *)
(* runner.py and the exit of cli.py).                                      *)
(*                                                                         *)
(* A run gives its reviewer or debater turns to worker threads and watches *)
(* them from the thread that hosts it.  A worker launches an agent, and on *)
(* a usage limit sleeps until the quota resets and launches it again.  A   *)
(* signal reaches only the main thread, so the host has to undo the work   *)
(* of the others: it latches and sets a process-wide cancel, kills the     *)
(* agents that are registered, joins the workers and leaves.  Every step   *)
(* of the host interleaves with every step of the workers, and the cancel  *)
(* outlives the run it was meant for until somebody clears it.             *)
(*                                                                         *)
(* Waits of the main thread itself (a coder turn) are those of the Direct  *)
(* runs: there the signal hits the very thread that sleeps.                *)
(***************************************************************************)
EXTENDS Integers, FiniteSets

CONSTANTS
  Runs,        \* logical runs of the process (outermost workdir_claim_scope)
  Workers,     \* turns; a turn has a thread of its own unless its run is Direct
  Crew,        \* the turns of each run
  Pool,        \* max_workers of each run's executor
  Main,        \* the runs hosted by the main thread
  Cli,         \* the runs opened by cli.main with --wait-for-quota-reset
  Direct,      \* the runs whose turn is taken by the hosting thread
  After,       \* <<r, s>>: s is started by the thread that hosted r, after r
  Resets,      \* parsed resets that are long enough to wait for
  Limit,       \* wait_for_quota_reset_seconds
  Margin,      \* QUOTA_WAIT_MARGIN_SECONDS
  MaxWaits,    \* QUOTA_WAIT_MAX_WAITS
  Slices,      \* bound: the slices a reserved wait is slept in
  MaxSignals   \* bound on the signals that reach a run

ASSUME RunsAssumption == IsFiniteSet(Runs) /\ IsFiniteSet(Workers)
ASSUME CrewAssumption ==
  /\ Crew \in [Runs -> SUBSET Workers]
  /\ \A w \in Workers : \E r \in Runs : w \in Crew[r]
  /\ \A r, s \in Runs : r # s => Crew[r] \cap Crew[s] = {}
ASSUME HostAssumption == Main \subseteq Runs /\ Cli \subseteq Main /\ Direct \subseteq Main
ASSUME DirectAssumption == \A r \in Direct : \A v, w \in Crew[r] : v = w
ASSUME WaitAssumption ==
  /\ Resets \subseteq Nat
  /\ {Limit, Margin, MaxWaits, Slices, MaxSignals} \subseteq Nat
ASSUME PoolAssumption == Pool \in [Runs -> Nat \ {0}]
ASSUME AfterAssumption == After \subseteq Runs \X Runs

VARIABLES
  at,        \* where the thread that hosts each run is
  outcome,   \* how each run ended
  pc,        \* where each turn is
  left,      \* slices each wait has still to sleep
  active,    \* _active_waits
  event,     \* _cancel_event
  signalled, \* _signal_cancel_requested
  message,   \* whether _interrupted_message is set
  refuse,    \* Runner._interrupted of each run's runner
  procs,     \* Runner._active_procs: the turns whose agent is registered
  alive,     \* the turns whose agent process lives
  doomed,    \* the agents terminate_active_processes has still to kill
  budget,    \* _run_budgets: the waits and the seconds each run has used
  live,      \* _live_runs
  signals,   \* how many signals each run has received (bounded by MaxSignals)
  granted,   \* history: the waits and the seconds granted to each run
  hit,       \* history: turns that were in, or about to start, a wait when it was cancelled
  cut,       \* history: turns whose wait ended as interrupted
  pressed    \* history: a signal arrived since a run last found no other live

hostVars == <<at, outcome, live, signals, pressed>>
latchVars == <<event, signalled, message>>
agentVars == <<refuse, procs, alive, doomed>>
waitVars == <<left, active, budget, granted, hit, cut>>
vars == <<hostVars, latchVars, agentVars, waitVars, pc>>

RunOf(w) == CHOOSE r \in Runs : w \in Crew[r]

Goto(w, label) == pc' = [pc EXCEPT ![w] = label]
HostGoto(r, label) == at' = [at EXCEPT ![r] = label]

Unused == [waits |-> 0, seconds |-> 0]

(* _cancelled()                                                            *)
Cancelled == signalled \/ event

(* A future that is done, by its return value or its captured error.       *)
Over == {"answered", "failed", "refused", "stopped", "withdrawn", "aborted"}

Init ==
  /\ at = [r \in Runs |-> "unborn"]
  /\ outcome = [r \in Runs |-> "none"]
  /\ pc = [w \in Workers |-> "queued"]
  /\ left = [w \in Workers |-> 0]
  /\ active = {}
  /\ event = FALSE
  /\ signalled = FALSE
  /\ message = FALSE
  /\ refuse = [r \in Runs |-> FALSE]
  /\ procs = {}
  /\ alive = {}
  /\ doomed = [r \in Runs |-> {}]
  /\ budget = [r \in Runs |-> Unused]
  /\ live = 0
  /\ signals = [r \in Runs |-> 0]
  /\ granted = [r \in Runs |-> Unused]
  /\ hit = {}
  /\ cut = {}
  /\ pressed = FALSE

----------------------------------------------------------------------------
(* Opening and closing a run                                               *)

reset_wait_state == message' = FALSE /\ signalled' = FALSE /\ event' = FALSE

(* Mutant of ClearsTheLatch: every run clears it, whatever else is live.   *)
EveryRunClearsTheLatch(r) == active = {}

(* Mutant of ClearsTheLatch: the latch is left to the command line.        *)
NoRunClearsTheLatch(r) == FALSE

(* _enter_live_run and the first-run-start hook: only the run that finds   *)
(* no other live, and no wait active, clears the latch.                    *)
ClearsTheLatch(r) == live = 0 /\ active = {}

(* cli.main clears the latch before it opens the run (its own run only).   *)
EnterRun(r) ==
  /\ at[r] = "unborn"
  /\ \A s \in Runs : <<s, r>> \in After => at[s] = "gone"
  /\ IF r \in Cli \/ ClearsTheLatch(r) THEN reset_wait_state ELSE UNCHANGED latchVars
  /\ live' = live + 1
  /\ pressed' = (pressed /\ live # 0)
  /\ HostGoto(r, "watching")
  /\ UNCHANGED <<outcome, signals, agentVars, waitVars, pc>>

(* The wait(pending, timeout) loop ends once every future is done; a quota *)
(* stop takes priority over the other errors.                              *)
CollectResults(r) ==
  /\ at[r] = "watching"
  /\ \A w \in Crew[r] : pc[w] \in Over
  /\ outcome' = [outcome EXCEPT ![r] =
       IF \E w \in Crew[r] : pc[w] \in {"refused", "stopped"} THEN "quota"
       ELSE IF \E w \in Crew[r] : pc[w] = "failed" THEN "error" ELSE "ok"]
  /\ HostGoto(r, "closing")
  /\ UNCHANGED <<live, signals, pressed, latchVars, agentVars, waitVars, pc>>

(* The KeyboardInterrupt reaches cli.main, which asks interrupted_message, *)
(* or leaves the library call as it is.                                    *)
ClassifyInterrupt(r) ==
  /\ at[r] = "escaping"
  /\ outcome' = [outcome EXCEPT ![r] =
       IF r \in Cli /\ (message \/ signalled) THEN "quota" ELSE "interrupt"]
  /\ HostGoto(r, "closing")
  /\ UNCHANGED <<live, signals, pressed, latchVars, agentVars, waitVars, pc>>

(* The end of the scope: the finalizer drops the budget, then the run is   *)
(* no longer live.                                                         *)
ExitRun(r) ==
  /\ at[r] = "closing"
  /\ budget' = [budget EXCEPT ![r] = Unused]
  /\ live' = live - 1
  /\ HostGoto(r, IF r \in Cli THEN "closed" ELSE "gone")
  /\ UNCHANGED <<outcome, signals, pressed, latchVars, agentVars, left, active,
                 granted, hit, cut, pc>>

(* The last line of cli.main's finally.                                    *)
LeaveCli(r) ==
  /\ at[r] = "closed"
  /\ reset_wait_state
  /\ HostGoto(r, "gone")
  /\ UNCHANGED <<outcome, live, signals, pressed, agentVars, waitVars, pc>>

----------------------------------------------------------------------------
(* A turn and its agent                                                    *)

StartTurn(w) ==
  /\ pc[w] = "queued"
  /\ at[RunOf(w)] = "watching"
  /\ Cardinality({v \in Crew[RunOf(w)] : pc[v] \notin Over \cup {"queued"}}) < Pool[RunOf(w)]
  /\ Goto(w, "ready")
  /\ UNCHANGED <<hostVars, latchVars, agentVars, waitVars>>

(* run_with_log looks at _interrupted once, before it prepares the launch. *)
CheckInterrupted(w) ==
  /\ pc[w] = "ready"
  /\ Goto(w, IF refuse[RunOf(w)] THEN "failed" ELSE "launching")
  /\ UNCHANGED <<hostVars, latchVars, agentVars, waitVars>>

Spawn(w) ==
  /\ pc[w] = "launching"
  /\ alive' = alive \cup {w}
  /\ Goto(w, "spawned")
  /\ UNCHANGED <<hostVars, latchVars, refuse, procs, doomed, waitVars>>

RegisterProcess(w) ==
  /\ pc[w] = "spawned"
  /\ procs' = procs \cup {w}
  /\ Goto(w, "running")
  /\ UNCHANGED <<hostVars, latchVars, refuse, alive, doomed, waitVars>>

(* The agent ends by itself, with an answer or against a usage limit.      *)
AgentEnds(w) ==
  /\ pc[w] = "running"
  /\ w \in alive
  /\ alive' = alive \ {w}
  /\ procs' = procs \ {w}
  /\ \E label \in {"answered", "limited"} : Goto(w, label)
  /\ UNCHANGED <<hostVars, latchVars, refuse, doomed, waitVars>>

(* The poll of the worker sees that its agent was killed.  What the agent  *)
(* had printed decides between a retry, a quota failure and an error.      *)
AgentKilled(w) ==
  /\ pc[w] = "running"
  /\ w \notin alive
  /\ procs' = procs \ {w}
  /\ \E label \in {"ready", "limited", "failed"} : Goto(w, label)
  /\ UNCHANGED <<hostVars, latchVars, refuse, alive, doomed, waitVars>>

----------------------------------------------------------------------------
(* Waiting for the quota                                                   *)

(* Mutant of Fits: each wait alone is held against the limit.              *)
FitsAlone(b, s) == b.waits < MaxWaits /\ s <= Limit

(* QuotaWaitBudget.try_reserve: what a wait of s seconds needs of b.       *)
Fits(b, s) == b.waits < MaxWaits /\ b.seconds + s <= Limit

Reserve(w, reset) ==
  LET r == RunOf(w)
      s == reset + Margin
  IN  /\ pc[w] = "limited"
      /\ \/ /\ Fits(budget[r], s)
            /\ budget' = [budget EXCEPT ![r] =
                            [waits |-> budget[r].waits + 1, seconds |-> budget[r].seconds + s]]
            /\ granted' = [granted EXCEPT ![r] =
                            [waits |-> granted[r].waits + 1, seconds |-> granted[r].seconds + s]]
            /\ Goto(w, "reserved")
         \/ /\ ~Fits(budget[r], s)
            /\ Goto(w, "refused")
            /\ UNCHANGED <<budget, granted>>
      /\ UNCHANGED <<hostVars, latchVars, agentVars, left, active, hit, cut>>

RegisterWait(w) ==
  /\ pc[w] = "reserved"
  /\ active' = active \cup {w}
  /\ left' = [left EXCEPT ![w] = Slices]
  /\ Goto(w, "waiting")
  /\ UNCHANGED <<hostVars, latchVars, agentVars, budget, granted, hit, cut>>

(* while remaining > 0 and not _cancelled()                                *)
CheckSlice(w) ==
  /\ pc[w] = "waiting"
  /\ Goto(w, IF left[w] > 0 /\ ~Cancelled THEN "sleeping" ELSE "elapsed")
  /\ UNCHANGED <<hostVars, latchVars, agentVars, waitVars>>

SleepSlice(w) ==
  /\ pc[w] = "sleeping"
  /\ left' = [left EXCEPT ![w] = @ - 1]
  /\ Goto(w, "waiting")
  /\ UNCHANGED <<hostVars, latchVars, agentVars, active, budget, granted, hit, cut>>

(* Mutant of latch_interrupted: it is left to cancel_active_waits.         *)
latch_nothing == UNCHANGED message

(* _latch_interrupted, on the way out of an interrupted wait.              *)
latch_interrupted == message' = TRUE

(* The second look at _cancelled(): the wait is over, or interrupted.      *)
EndWait(w) ==
  /\ pc[w] = "elapsed"
  /\ \/ /\ Cancelled
        /\ latch_interrupted
        /\ active' = active \ {w}
        /\ cut' = cut \cup {w}
        /\ Goto(w, "stopped")
     \/ /\ ~Cancelled
        /\ Goto(w, "resuming")
        /\ UNCHANGED <<message, active, cut>>
  /\ UNCHANGED <<hostVars, event, signalled, agentVars, left, budget, granted, hit>>

(* The wait is unregistered and the same invocation is launched again.     *)
ReplayTurn(w) ==
  /\ pc[w] = "resuming"
  /\ active' = active \ {w}
  /\ Goto(w, "ready")
  /\ UNCHANGED <<hostVars, latchVars, agentVars, left, budget, granted, hit, cut>>

----------------------------------------------------------------------------
(* The interrupt                                                           *)

(* The turns whose wait a cancel must end: registered, or about to be.     *)
Reached == {w \in Workers : pc[w] \in {"reserved", "waiting", "sleeping", "elapsed"}}

Handling == {"caught", "latched", "cancelled", "killing"}

(* executor.shutdown(wait=True, cancel_futures=True) begins: the turns no  *)
(* thread has picked up are withdrawn.                                     *)
BeginJoin(r) ==
  /\ HostGoto(r, "joining")
  /\ pc' = [w \in Workers |->
              IF w \in Crew[r] /\ pc[w] = "queued" THEN "withdrawn" ELSE pc[w]]

(* KeyboardInterrupt in the thread that watches its executor: caught, or   *)
(* raised again inside the handler (straight to the finally clause), or    *)
(* raised out of the join, which leaves the workers behind.                *)
RaiseInHost(r) ==
  /\ r \notin Direct
  /\ \/ at[r] = "watching" /\ HostGoto(r, "caught") /\ UNCHANGED pc
     \/ at[r] \in Handling /\ BeginJoin(r)
     \/ at[r] = "joining" /\ HostGoto(r, "escaping") /\ UNCHANGED pc
  /\ UNCHANGED <<message, agentVars, active, cut>>

(* KeyboardInterrupt in a thread that takes the turn itself: inside the    *)
(* registered part of wait_for_reset it becomes a quota stop, in           *)
(* run_with_log it kills the agent first, elsewhere it only unwinds.       *)
RaiseInTurn(r) ==
  /\ r \in Direct
  /\ at[r] = "watching"
  /\ \E w \in Crew[r] :
       /\ pc[w] \notin Over
       /\ \/ /\ w \in active
             /\ latch_interrupted
             /\ active' = active \ {w}
             /\ cut' = cut \cup {w}
             /\ Goto(w, "stopped")
             /\ UNCHANGED <<at, agentVars>>
          \/ /\ w \notin active
             /\ procs' = procs \ {w}
             /\ alive' = IF pc[w] = "running" THEN alive \ {w} ELSE alive
             /\ Goto(w, "aborted")
             /\ HostGoto(r, "escaping")
             /\ UNCHANGED <<refuse, doomed, message, active, cut>>

Raise(r) ==
  /\ signals[r] < MaxSignals
  /\ signals' = [signals EXCEPT ![r] = @ + 1]
  /\ pressed' = TRUE
  /\ RaiseInHost(r) \/ RaiseInTurn(r)
  /\ UNCHANGED <<outcome, event, live, left, budget, granted>>

Sigint(r) == r \in Main /\ Raise(r) /\ UNCHANGED <<signalled, hit>>

(* The SIGTERM handler while a wait is active.  With none it ends the      *)
(* process, as it does for a run without the handler.                      *)
Sigterm(r) ==
  /\ r \in Cli
  /\ active # {}
  /\ signalled' = TRUE
  /\ hit' = hit \cup Reached
  /\ Raise(r)

(* cancel_active_waits: the message first, the event second.               *)
LatchMessage(r) ==
  /\ at[r] = "caught"
  /\ message' = (message \/ active # {} \/ signalled)
  /\ HostGoto(r, "latched")
  /\ UNCHANGED <<outcome, live, signals, pressed, event, signalled, agentVars, waitVars, pc>>

SetCancelEvent(r) ==
  /\ at[r] = "latched"
  /\ event' = TRUE
  /\ hit' = hit \cup Reached
  /\ HostGoto(r, "cancelled")
  /\ UNCHANGED <<outcome, live, signals, pressed, signalled, message, agentVars,
                 left, active, budget, granted, cut, pc>>

(* Mutant of RefuseSpawns: later launches are not refused.                 *)
RefuseNothing(r) ==
  /\ at[r] = "cancelled"
  /\ doomed' = [doomed EXCEPT ![r] = procs \cap Crew[r]]
  /\ HostGoto(r, "killing")
  /\ UNCHANGED <<outcome, live, signals, pressed, latchVars, refuse, procs, alive, waitVars, pc>>

(* terminate_active_processes, under _active_procs_lock: refuse further    *)
(* commands and note which agents to kill.                                 *)
RefuseSpawns(r) ==
  /\ at[r] = "cancelled"
  /\ refuse' = [refuse EXCEPT ![r] = TRUE]
  /\ doomed' = [doomed EXCEPT ![r] = procs \cap Crew[r]]
  /\ HostGoto(r, "killing")
  /\ UNCHANGED <<outcome, live, signals, pressed, latchVars, procs, alive, waitVars, pc>>

KillAgent(r) ==
  /\ at[r] = "killing"
  /\ \E w \in doomed[r] :
       /\ alive' = alive \ {w}
       /\ doomed' = [doomed EXCEPT ![r] = @ \ {w}]
  /\ UNCHANGED <<hostVars, latchVars, refuse, procs, waitVars, pc>>

ShutDown(r) ==
  /\ at[r] = "killing"
  /\ doomed[r] = {}
  /\ BeginJoin(r)
  /\ UNCHANGED <<outcome, live, signals, pressed, latchVars, agentVars, waitVars>>

JoinWorkers(r) ==
  /\ at[r] = "joining"
  /\ \A w \in Crew[r] : pc[w] \in Over
  /\ HostGoto(r, "escaping")
  /\ UNCHANGED <<outcome, live, signals, pressed, latchVars, agentVars, waitVars, pc>>

----------------------------------------------------------------------------

HostStep(r) ==
  \/ CollectResults(r) \/ ClassifyInterrupt(r) \/ ExitRun(r) \/ LeaveCli(r)
  \/ LatchMessage(r) \/ SetCancelEvent(r)
  \/ RefuseSpawns(r) \/ KillAgent(r) \/ ShutDown(r) \/ JoinWorkers(r)

(* What a worker thread does without waiting for its agent.                *)
WorkerStep(w) ==
  \/ StartTurn(w) \/ CheckInterrupted(w) \/ Spawn(w) \/ RegisterProcess(w) \/ AgentKilled(w)
  \/ \E reset \in Resets : Reserve(w, reset)
  \/ RegisterWait(w) \/ CheckSlice(w) \/ SleepSlice(w) \/ EndWait(w) \/ ReplayTurn(w)

Next ==
  \/ \E r \in Runs : EnterRun(r) \/ HostStep(r) \/ Sigint(r) \/ Sigterm(r)
  \/ \E w \in Workers : WorkerStep(w) \/ AgentEnds(w)

Spec == Init /\ [][Next]_vars

(* The threads are scheduled and the clock runs; nothing is assumed of how *)
(* long an agent takes, of the signals, or of when a run is started.       *)
Fairness ==
  /\ \A r \in Runs : WF_vars(HostStep(r))
  /\ \A w \in Workers : WF_vars(WorkerStep(w))

FairSpec == Spec /\ Fairness

----------------------------------------------------------------------------
(* Properties                                                              *)

TypeOK ==
  /\ at \in [Runs -> {"unborn", "watching", "caught", "latched", "cancelled", "killing",
                      "joining", "escaping", "closing", "closed", "gone"}]
  /\ outcome \in [Runs -> {"none", "ok", "error", "quota", "interrupt"}]
  /\ pc \in [Workers -> Over \cup {"queued", "ready", "launching", "spawned", "running",
                                   "limited", "reserved", "waiting", "sleeping", "elapsed",
                                   "resuming"}]
  /\ left \in [Workers -> 0..Slices]
  /\ active \subseteq Workers
  /\ event \in BOOLEAN
  /\ signalled \in BOOLEAN
  /\ message \in BOOLEAN
  /\ refuse \in [Runs -> BOOLEAN]
  /\ procs \subseteq Workers
  /\ alive \subseteq Workers
  /\ doomed \in [Runs -> SUBSET Workers]
  /\ budget \in [Runs -> [waits : Nat, seconds : Nat]]
  /\ live \in Nat
  /\ signals \in [Runs -> 0..MaxSignals]
  /\ granted \in [Runs -> [waits : Nat, seconds : Nat]]
  /\ hit \subseteq Workers
  /\ cut \subseteq Workers
  /\ pressed \in BOOLEAN

(* A run, all its parallel turns together, is granted at most MaxWaits     *)
(* waits and at most Limit seconds of waiting, however its turns race for  *)
(* the budget and however often the limit comes back (try_reserve and      *)
(* quota_wait_budget_for_current_run).                                     *)
BudgetHolds ==
  \A r \in Runs : granted[r].waits <= MaxWaits /\ granted[r].seconds <= Limit

(* cancel_active_waits: "Wake every active (and any about-to-start) wait;  *)
(* it raises a quota stop."  A wait that was registered or reserved when   *)
(* the cancel came never runs on to the replay of its turn, whichever run  *)
(* it belongs to and whichever run starts meanwhile.                       *)
CancelledWaitsStop == \A w \in hit : pc[w] # "resuming"

(* The latch is process-wide and outlives the run that set it, but no wait *)
(* of a run is cut short on account of a signal that came before the run   *)
(* found the process without live runs (_reset_stale_wait_state).          *)
LatchIsFresh == live > 0 /\ (Cancelled \/ message) => pressed

(* A command one of whose waits was cut short never ends as a plain        *)
(* interrupt: it says that the quota wait was interrupted and leaves with  *)
(* the resumable exit code (cli.main's except KeyboardInterrupt).          *)
CutWaitIsAQuotaStop ==
  \A r \in Cli : outcome[r] = "interrupt" => Crew[r] \cap cut = {}

(* Once terminate_active_processes has begun and no turn is between its    *)
(* look at _interrupted and the registration of its agent, the interrupted *)
(* run ends, however long agents take and whatever the waits were for:     *)
(* nothing is launched again that the join would wait for.                 *)
InterruptEnds ==
  \A r \in Runs :
    (/\ at[r] = "killing"
     /\ \A w \in Crew[r] : pc[w] \notin {"launching", "spawned"}
     /\ procs \cap Crew[r] \subseteq doomed[r])
      ~> at[r] = "gone"

(* _launch_reviewer_turns: "On KeyboardInterrupt, active agent processes   *)
(* are killed so worker wait loops return promptly before the interrupt is *)
(* re-raised."  When the host starts to join its workers after killing     *)
(* what was registered, no agent of the run lives.                         *)
AgentsAreKilled ==
  \A r \in Runs : at[r] = "joining" => alive \cap Crew[r] = {}
=============================================================================
