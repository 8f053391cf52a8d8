---------------------------- MODULE InterruptProofs ----------------------------
(***************************************************************************)
(* Proofs about interrupting the turns of a run, for any runs, turns,      *)
(* pools, limits and resets.  Types and the count of live runs hold for    *)
(* any signals; what the interrupt promises holds as long as one signal    *)
(* reaches a run, and a command shares its process with no other run.      *)
(***************************************************************************)
EXTENDS Interrupt, FiniteSetTheorems, TLAPS

-----------------------------------------------------------------------------
(* The invariants *)

(* At most one signal reaches a run.  A second one inside the handler      *)
(* leaves the workers behind, and none of the results below survives it.   *)
OneSignal == MaxSignals <= 1

(* A command shares its process with no run beside it: whatever else the   *)
(* process runs comes before or after it.                                  *)
CommandsAreAlone ==
  \A r \in Cli : \A s \in Runs \ {r} : <<r, s>> \in After \/ <<s, r>> \in After

LiveRuns == {r \in Runs : at[r] \notin {"unborn", "closed", "gone"}}
Joinable == Handling \cup {"joining"}

LiveIsCounted == live = Cardinality(LiveRuns)
SleepersHaveSlices == \A w \in Workers : pc[w] = "sleeping" => left[w] > 0
OrderIsKept ==
  \A r, s \in Runs : <<r, s>> \in After /\ at[s] # "unborn" => at[r] = "gone"
OnlyCommandsClose == \A r \in Runs : at[r] = "closed" => r \in Cli
SignalsAreCounted == \A r \in Runs : at[r] \in Joinable => signals[r] >= 1

(* A turn is open only while its run is live.                              *)
CrewsAreOver ==
  \A r \in Runs : \A w \in Crew[r] :
    /\ at[r] = "unborn" => pc[w] = "queued"
    /\ at[r] \in {"escaping", "closing", "closed", "gone"} => pc[w] \in Over

WaitsAreActive ==
  \A w \in active : pc[w] \in {"waiting", "sleeping", "elapsed", "resuming"}

LatchIsOwned ==
  /\ LatchIsFresh
  /\ \A r \in Runs : at[r] \in Joinable => pressed

(* A wait that was cancelled is still before the second look at the latch, *)
(* which is set, or the turn is over.                                      *)
HitWaitsEnd ==
  \A w \in hit : \/ pc[w] \in Over
                 \/ pc[w] \in {"reserved", "waiting", "sleeping", "elapsed"} /\ Cancelled

OutcomesAreLast ==
  \A r \in Runs : at[r] \notin {"closing", "closed", "gone"} => outcome[r] = "none"
CutTurnsStopped == \A w \in cut : pc[w] = "stopped"
CutIsTold ==
  \A r \in Cli : Crew[r] \cap cut # {} =>
    /\ r \in LiveRuns => message
    /\ outcome[r] # "interrupt"

Within(used) == used.waits <= MaxWaits /\ used.seconds <= Limit
BudgetIsKept ==
  \A r \in Runs :
    /\ Within(budget[r]) /\ Within(granted[r])
    /\ at[r] \notin {"closed", "gone"} => granted[r] = budget[r]

TypeInv == TypeOK /\ LiveIsCounted /\ SleepersHaveSlices
RunInv ==
  /\ TypeInv /\ OrderIsKept /\ OnlyCommandsClose /\ SignalsAreCounted /\ CrewsAreOver
  /\ WaitsAreActive

-----------------------------------------------------------------------------
(* How the steps move runs and turns *)

(* A turn belongs to one run.                                              *)
LEMMA OneRun ==
  ASSUME NEW w \in Workers
  PROVE  RunOf(w) \in Runs /\ w \in Crew[RunOf(w)] /\ \A r \in Runs : w \in Crew[r] => r = RunOf(w)
  BY CrewAssumption DEF RunOf

Labels == Over \cup {"queued", "ready", "launching", "spawned", "running", "limited", "reserved",
                     "waiting", "sleeping", "elapsed", "resuming"}
Places == {"unborn", "watching", "caught", "latched", "cancelled", "killing", "joining", "escaping",
           "closing", "closed", "gone"}

(* A worker moves its own turn, which is open, and leaves the hosts alone. *)
LEMMA WorkerMoves ==
  ASSUME TypeOK, NEW w \in Workers, WorkerStep(w) \/ AgentEnds(w)
  PROVE  /\ UNCHANGED <<hostVars, event, signalled, refuse, doomed, hit>>
         /\ pc[w] \notin Over /\ (pc[w] = "queued" => at[RunOf(w)] = "watching")
         /\ \E l \in Labels : l # "queued" /\ Goto(w, l)
<1>1. CASE StartTurn(w) \/ Spawn(w) \/ RegisterProcess(w) \/ RegisterWait(w) \/ SleepSlice(w)
           \/ ReplayTurn(w)
  BY <1>1 DEF StartTurn, Spawn, RegisterProcess, RegisterWait, SleepSlice, ReplayTurn, Labels, Over,
              latchVars, agentVars, waitVars, hostVars
<1>2. CASE CheckInterrupted(w) \/ CheckSlice(w) \/ EndWait(w)
  BY <1>2 DEF CheckInterrupted, CheckSlice, EndWait, Labels, Over, latchVars, agentVars, waitVars, hostVars
<1>3. CASE AgentKilled(w) \/ AgentEnds(w)
  BY <1>3 DEF AgentKilled, AgentEnds, Labels, Over, latchVars, agentVars, waitVars, hostVars
<1>4. CASE \E reset \in Resets : Reserve(w, reset)
  BY <1>4 DEF Reserve, Labels, Over, latchVars, agentVars, waitVars, hostVars
<1> QED BY <1>1, <1>2, <1>3, <1>4 DEF WorkerStep

(* A signal is caught, sends its host to the join or out of it, or hits    *)
(* the turn of the host itself.                                            *)
LEMMA RaiseMoves ==
  ASSUME TypeOK, NEW r \in Runs, Raise(r)
  PROVE  /\ pressed' = TRUE /\ signals[r] < MaxSignals
         /\ signals' = [signals EXCEPT ![r] = @ + 1]
         /\ UNCHANGED <<outcome, event, live, left, budget, granted, refuse, doomed>>
         /\ \/ /\ r \notin Direct /\ UNCHANGED <<message, agentVars, active, cut>>
               /\ \/ at[r] = "watching" /\ HostGoto(r, "caught") /\ UNCHANGED pc
                  \/ at[r] \in Handling /\ BeginJoin(r)
                  \/ at[r] = "joining" /\ HostGoto(r, "escaping") /\ UNCHANGED pc
            \/ /\ r \in Direct /\ at[r] = "watching"
               /\ \E w \in Crew[r] :
                    /\ pc[w] \notin Over
                    /\ \/ /\ w \in active /\ message' = TRUE /\ active' = active \ {w}
                          /\ cut' = cut \cup {w} /\ Goto(w, "stopped")
                          /\ UNCHANGED <<at, procs, alive>>
                       \/ /\ w \notin active /\ Goto(w, "aborted") /\ HostGoto(r, "escaping")
                          /\ procs' \subseteq procs /\ alive' \subseteq alive
                          /\ UNCHANGED <<message, active, cut>>
<1>1. CASE RaiseInHost(r)
  BY <1>1 DEF Raise, RaiseInHost, agentVars
<1>2. CASE RaiseInTurn(r)
  <2>1. PICK w \in Crew[r] :
           /\ pc[w] \notin Over
           /\ \/ /\ w \in active
                 /\ latch_interrupted
                 /\ active' = active \ {w}
                 /\ cut' = cut \cup {w}
                 /\ Goto(w, "stopped")
                 /\ UNCHANGED <<at, agentVars>>
              \/ /\ w \notin active
                 /\ procs' = procs \ {w}
                 /\ alive' = IF pc[w] = "running" THEN alive \ {w} ELSE alive
                 /\ Goto(w, "aborted")
                 /\ HostGoto(r, "escaping")
                 /\ UNCHANGED <<refuse, doomed, message, active, cut>>
    BY <1>2 DEF RaiseInTurn
  <2>2. r \in Direct /\ at[r] = "watching"
    BY <1>2 DEF RaiseInTurn
  <2>3. UNCHANGED <<refuse, doomed>>
    BY <2>1 DEF agentVars
  <2>4. procs' \subseteq procs /\ alive' \subseteq alive /\ (w \in active => UNCHANGED <<procs, alive>>)
    BY <2>1 DEF agentVars
  <2> QED BY <2>1, <2>2, <2>3, <2>4 DEF Raise, latch_interrupted
<1> QED BY <1>1, <1>2 DEF Raise

(* The steps of a host, by the places it goes through.                     *)
LEMMA HostMoves ==
  ASSUME TypeOK, NEW r \in Runs, HostStep(r)
  PROVE  /\ UNCHANGED <<signals, pressed, cut, left, active, granted>>
         /\ \/ /\ at[r] = "watching" /\ HostGoto(r, "closing") /\ (\A w \in Crew[r] : pc[w] \in Over)
               /\ UNCHANGED <<live, pc, budget, hit, latchVars>>
               /\ \E o \in {"ok", "error", "quota"} : outcome' = [outcome EXCEPT ![r] = o]
            \/ /\ at[r] = "escaping" /\ HostGoto(r, "closing")
               /\ UNCHANGED <<live, pc, budget, hit, latchVars>>
               /\ \E o \in {"quota", "interrupt"} : /\ outcome' = [outcome EXCEPT ![r] = o]
                                                    /\ (r \in Cli /\ message) => o = "quota"
            \/ /\ at[r] = "closing" /\ HostGoto(r, IF r \in Cli THEN "closed" ELSE "gone")
               /\ live' = live - 1 /\ budget' = [budget EXCEPT ![r] = Unused]
               /\ UNCHANGED <<outcome, pc, hit, latchVars>>
            \/ /\ at[r] = "closed" /\ HostGoto(r, "gone") /\ reset_wait_state
               /\ UNCHANGED <<outcome, live, pc, budget, hit>>
            \/ /\ at[r] = "caught" /\ HostGoto(r, "latched")
               /\ message' = (message \/ active # {} \/ signalled)
               /\ UNCHANGED <<outcome, live, pc, budget, hit, event, signalled>>
            \/ /\ at[r] = "latched" /\ HostGoto(r, "cancelled")
               /\ event' = TRUE /\ hit' = hit \cup Reached
               /\ UNCHANGED <<outcome, live, pc, budget, message, signalled>>
            \/ /\ \/ at[r] = "cancelled" /\ HostGoto(r, "killing") /\ UNCHANGED pc
                  \/ at[r] = "killing" /\ UNCHANGED <<at, pc>>
                  \/ at[r] = "killing" /\ BeginJoin(r)
                  \/ /\ at[r] = "joining" /\ HostGoto(r, "escaping") /\ UNCHANGED pc
                     /\ \A w \in Crew[r] : pc[w] \in Over
               /\ UNCHANGED <<outcome, live, budget, hit, latchVars>>
<1>1. CASE CollectResults(r)
  BY <1>1 DEF CollectResults, waitVars, agentVars, latchVars
<1>2. CASE ClassifyInterrupt(r)
  BY <1>2 DEF ClassifyInterrupt, waitVars, agentVars, latchVars
<1>3. CASE ExitRun(r)
  BY <1>3 DEF ExitRun, latchVars
<1>4. CASE LeaveCli(r)
  BY <1>4 DEF LeaveCli, waitVars
<1>5. CASE LatchMessage(r)
  BY <1>5 DEF LatchMessage, waitVars
<1>6. CASE SetCancelEvent(r)
  BY <1>6 DEF SetCancelEvent
<1>7. CASE RefuseSpawns(r) \/ KillAgent(r) \/ ShutDown(r) \/ JoinWorkers(r)
  BY <1>7 DEF RefuseSpawns, KillAgent, ShutDown, JoinWorkers, waitVars, hostVars, latchVars
<1> QED BY <1>1, <1>2, <1>3, <1>4, <1>5, <1>6, <1>7 DEF HostStep

-----------------------------------------------------------------------------
(* Typing *)

(* The steps of a worker keep the types, and only a wait with a slice left *)
(* is slept.                                                               *)
LEMMA WorkerTyping ==
  ASSUME TypeInv, NEW w \in Workers, WorkerStep(w) \/ AgentEnds(w)
  PROVE  TypeOK' /\ SleepersHaveSlices'
<1> USE DEF TypeInv
<1>1. pc' \in [Workers -> Labels]
  BY WorkerMoves DEF Goto, TypeOK, Labels
<1>2. Slices \in Nat /\ MaxWaits \in Nat /\ Limit \in Nat /\ Margin \in Nat
  BY WaitAssumption
<1>3. CASE StartTurn(w) \/ Spawn(w) \/ RegisterProcess(w) \/ ReplayTurn(w)
  <2>1. UNCHANGED <<hostVars, latchVars, refuse, doomed, left, budget, granted, hit, cut>>
    BY <1>3 DEF StartTurn, Spawn, RegisterProcess, ReplayTurn, agentVars, waitVars
  <2>2. active' \subseteq Workers /\ procs' \subseteq Workers /\ alive' \subseteq Workers
    BY <1>3 DEF StartTurn, Spawn, RegisterProcess, ReplayTurn, agentVars, waitVars, TypeOK
  <2>3. \A v \in Workers : pc'[v] = "sleeping" => pc[v] = "sleeping"
    BY <1>3 DEF StartTurn, Spawn, RegisterProcess, ReplayTurn, Goto, TypeOK
  <2> QED BY <1>1, <2>1, <2>2, <2>3 DEF TypeOK, SleepersHaveSlices, hostVars, latchVars, Labels
<1>4. CASE CheckInterrupted(w) \/ CheckSlice(w)
  <2>1. UNCHANGED <<hostVars, latchVars, agentVars, waitVars>>
    BY <1>4 DEF CheckInterrupted, CheckSlice
  <2>2. \A v \in Workers : pc'[v] = "sleeping" => pc[v] = "sleeping" \/ (v = w /\ left[w] > 0)
    BY <1>4 DEF CheckInterrupted, CheckSlice, Goto, TypeOK
  <2> QED BY <1>1, <2>1, <2>2 DEF TypeOK, SleepersHaveSlices, hostVars, latchVars, agentVars, waitVars, Labels
<1>5. CASE EndWait(w) \/ AgentKilled(w) \/ AgentEnds(w)
  <2>1. UNCHANGED <<hostVars, event, signalled, refuse, doomed, left, budget, granted, hit>>
    BY <1>5 DEF EndWait, AgentKilled, AgentEnds, agentVars, waitVars, latchVars
  <2>2. active' \subseteq Workers /\ procs' \subseteq Workers /\ alive' \subseteq Workers
        /\ cut' \subseteq Workers /\ message' \in BOOLEAN
    BY <1>5 DEF EndWait, AgentKilled, AgentEnds, latch_interrupted, agentVars, waitVars, latchVars, TypeOK
  <2>3. \A v \in Workers : pc'[v] = "sleeping" => pc[v] = "sleeping"
    BY <1>5 DEF EndWait, AgentKilled, AgentEnds, Goto, TypeOK
  <2> QED BY <1>1, <2>1, <2>2, <2>3 DEF TypeOK, SleepersHaveSlices, hostVars, Labels
<1>6. CASE RegisterWait(w) \/ SleepSlice(w)
  <2>1. UNCHANGED <<hostVars, latchVars, agentVars, budget, granted, hit, cut>>
    BY <1>6 DEF RegisterWait, SleepSlice
  <2>2. active' \subseteq Workers
    BY <1>6 DEF RegisterWait, SleepSlice, TypeOK
  <2>3. left' \in [Workers -> 0 .. Slices]
    BY <1>2, <1>6 DEF RegisterWait, SleepSlice, TypeOK, SleepersHaveSlices
  <2>4. \A v \in Workers : pc'[v] = "sleeping" => pc[v] = "sleeping" /\ left'[v] = left[v]
    BY <1>6 DEF RegisterWait, SleepSlice, Goto, TypeOK
  <2> QED BY <1>1, <2>1, <2>2, <2>3, <2>4 DEF TypeOK, SleepersHaveSlices, hostVars, latchVars, agentVars, Labels
<1>7. ASSUME NEW reset \in Resets, Reserve(w, reset) PROVE TypeOK' /\ SleepersHaveSlices'
  <2> DEFINE r == RunOf(w)
             s == reset + Margin
  <2>1. UNCHANGED <<hostVars, latchVars, agentVars, left, active, hit, cut>>
    BY <1>7 DEF Reserve
  <2>2. r \in Runs /\ s \in Nat
    BY <1>2, OneRun, WaitAssumption
  <2>3. [waits |-> budget[r].waits + 1, seconds |-> budget[r].seconds + s] \in [waits : Nat, seconds : Nat]
    BY <2>2 DEF TypeOK
  <2>4. [waits |-> granted[r].waits + 1, seconds |-> granted[r].seconds + s] \in [waits : Nat, seconds : Nat]
    BY <2>2 DEF TypeOK
  <2>5. \/ UNCHANGED <<budget, granted>>
        \/ \E b, g \in [waits : Nat, seconds : Nat] : /\ budget' = [budget EXCEPT ![r] = b]
                                                      /\ granted' = [granted EXCEPT ![r] = g]
    BY <1>7, <2>3, <2>4, Zenon DEF Reserve
  <2>6. budget' \in [Runs -> [waits : Nat, seconds : Nat]] /\ granted' \in [Runs -> [waits : Nat, seconds : Nat]]
    <3>1. CASE UNCHANGED <<budget, granted>>
      BY <3>1 DEF TypeOK
    <3>2. ASSUME NEW b \in [waits : Nat, seconds : Nat], NEW g \in [waits : Nat, seconds : Nat],
                 budget' = [budget EXCEPT ![r] = b], granted' = [granted EXCEPT ![r] = g]
          PROVE  /\ budget' \in [Runs -> [waits : Nat, seconds : Nat]]
                 /\ granted' \in [Runs -> [waits : Nat, seconds : Nat]]
      BY <3>2 DEF TypeOK
    <3> QED BY <2>5, <3>1, <3>2
  <2>7. \A v \in Workers : pc'[v] = "sleeping" => pc[v] = "sleeping"
    BY <1>7 DEF Reserve, Goto, TypeOK
  <2> QED BY <1>1, <2>1, <2>6, <2>7 DEF TypeOK, SleepersHaveSlices, hostVars, latchVars, agentVars, Labels
<1> QED BY <1>3, <1>4, <1>5, <1>6, <1>7 DEF WorkerStep

(* So do the steps of the hosts and the signals, but for the count of live *)
(* runs.                                                                   *)
LEMMA HostTyping ==
  ASSUME TypeInv, NEW r \in Runs,
         EnterRun(r) \/ HostStep(r) \/ Sigint(r) \/ Sigterm(r), live' \in Nat
  PROVE  TypeOK' /\ SleepersHaveSlices'
<1> USE DEF TypeInv
<1>1. CASE EnterRun(r)
  <2>1. at' \in [Runs -> Places] /\ live' = live + 1 /\ pressed' \in BOOLEAN
        /\ UNCHANGED <<outcome, signals, agentVars, waitVars, pc>>
    BY <1>1 DEF EnterRun, HostGoto, Places, TypeOK
  <2>2. event' \in BOOLEAN /\ signalled' \in BOOLEAN /\ message' \in BOOLEAN
    BY <1>1 DEF EnterRun, reset_wait_state, latchVars, TypeOK
  <2> QED BY <2>1, <2>2 DEF TypeOK, SleepersHaveSlices, agentVars, waitVars, Places
<1>2. CASE HostStep(r)
  <2>1. UNCHANGED <<signals, pressed, cut, left, active, granted>> /\ at' \in [Runs -> Places]
    BY <1>2, HostMoves DEF HostGoto, BeginJoin, Places, TypeOK
  <2>2. outcome' \in [Runs -> {"none", "ok", "error", "quota", "interrupt"}]
    BY <1>2, HostMoves DEF TypeOK
  <2>3. UNCHANGED pc \/ BeginJoin(r)
    BY <1>2, HostMoves
  <2>8. pc' \in [Workers -> Labels] /\ \A v \in Workers : pc'[v] = "sleeping" => pc[v] = "sleeping"
    BY <2>3 DEF BeginJoin, Labels, Over, TypeOK
  <2>4. event' \in BOOLEAN /\ signalled' \in BOOLEAN /\ message' \in BOOLEAN
    BY <1>2, HostMoves DEF reset_wait_state, latchVars, TypeOK
  <2>5. Unused \in [waits : Nat, seconds : Nat]
    BY DEF Unused
  <2>6. UNCHANGED budget \/ budget' = [budget EXCEPT ![r] = Unused]
    BY <1>2, HostMoves
  <2>9. UNCHANGED hit \/ hit' = hit \cup Reached
    BY <1>2, HostMoves
  <2>10. budget' \in [Runs -> [waits : Nat, seconds : Nat]] /\ hit' \subseteq Workers
    BY <2>5, <2>6, <2>9 DEF Reached, TypeOK
  <2>7. refuse' \in [Runs -> BOOLEAN] /\ procs' \subseteq Workers /\ alive' \subseteq Workers
        /\ doomed' \in [Runs -> SUBSET Workers]
    <3>1. CASE CollectResults(r) \/ ClassifyInterrupt(r) \/ ExitRun(r) \/ LeaveCli(r) \/ LatchMessage(r)
               \/ SetCancelEvent(r) \/ ShutDown(r) \/ JoinWorkers(r)
      BY <3>1 DEF CollectResults, ClassifyInterrupt, ExitRun, LeaveCli, LatchMessage, SetCancelEvent,
                  ShutDown, JoinWorkers, agentVars, TypeOK
    <3>2. CASE RefuseSpawns(r)
      BY <3>2 DEF RefuseSpawns, TypeOK
    <3>3. CASE KillAgent(r)
      BY <3>3 DEF KillAgent, TypeOK
    <3> QED BY <1>2, <3>1, <3>2, <3>3 DEF HostStep
  <2> QED BY <2>1, <2>2, <2>4, <2>7, <2>8, <2>10 DEF TypeOK, SleepersHaveSlices, Labels, Places
<1>3. CASE Sigint(r) \/ Sigterm(r)
  <2>1. Raise(r) /\ signalled' \in BOOLEAN /\ hit' \subseteq Workers
    BY <1>3 DEF Sigint, Sigterm, Reached, TypeOK
  <2>2. UNCHANGED <<outcome, event, live, left, budget, granted, refuse, doomed>> /\ pressed' \in BOOLEAN
    BY <2>1, RaiseMoves
  <2>8. signals[r] < MaxSignals /\ signals' = [signals EXCEPT ![r] = @ + 1]
    BY <2>1, RaiseMoves
  <2>9. signals[r] \in 0 .. MaxSignals /\ MaxSignals \in Nat
    BY WaitAssumption DEF TypeOK
  <2>10. signals[r] + 1 \in 0 .. MaxSignals
    BY <2>8, <2>9
  <2>3. signals' \in [Runs -> 0 .. MaxSignals]
    BY <2>8, <2>10 DEF TypeOK
  <2>4. at' \in [Runs -> Places] /\ message' \in BOOLEAN /\ active' \subseteq Workers
        /\ procs' \subseteq Workers /\ alive' \subseteq Workers
    BY <2>1, RaiseMoves DEF HostGoto, BeginJoin, agentVars, Places, TypeOK
  <2>5. Crew[r] \subseteq Workers
    BY CrewAssumption
  <2>11. UNCHANGED cut \/ \E w \in Crew[r] : cut' = cut \cup {w}
    BY <2>1, RaiseMoves
  <2>6. cut' \subseteq Workers
    BY <2>5, <2>11 DEF TypeOK
  <2>12. UNCHANGED pc \/ BeginJoin(r) \/ \E w \in Crew[r] : Goto(w, "stopped") \/ Goto(w, "aborted")
    BY <2>1, RaiseMoves
  <2>7. pc' \in [Workers -> Labels] /\ \A v \in Workers : pc'[v] = "sleeping" => pc[v] = "sleeping"
    BY <2>5, <2>12 DEF BeginJoin, Goto, Labels, Over, TypeOK
  <2> QED BY <2>1, <2>2, <2>3, <2>4, <2>6, <2>7 DEF TypeOK, SleepersHaveSlices, Labels, Places
<1> QED BY <1>1, <1>2, <1>3

(* _live_runs counts the runs between their scope's opening and its end.   *)
LEMMA LiveCounting ==
  ASSUME TypeInv, NEW r \in Runs, EnterRun(r) \/ HostStep(r) \/ Sigint(r) \/ Sigterm(r)
  PROVE  live' \in Nat /\ LiveIsCounted'
<1> USE DEF TypeInv
<1>1. IsFiniteSet(LiveRuns) /\ live = Cardinality(LiveRuns)
  BY RunsAssumption, FS_Subset DEF LiveRuns, LiveIsCounted
<1>2. CASE EnterRun(r)
  <2>1. at[r] = "unborn" /\ at' = [at EXCEPT ![r] = "watching"] /\ live' = live + 1
    BY <1>2 DEF EnterRun, HostGoto
  <2>2. LiveRuns' = LiveRuns \cup {r} /\ r \notin LiveRuns
    BY <2>1 DEF LiveRuns, TypeOK
  <2>3. Cardinality(LiveRuns') = live + 1
    BY <1>1, <2>2, FS_AddElement
  <2>4. live \in Nat
    BY DEF TypeOK
  <2> QED BY <2>1, <2>3, <2>4 DEF LiveIsCounted
<1>3. CASE at[r] = "closing" /\ HostStep(r)
  <2>1. at' = [at EXCEPT ![r] = IF r \in Cli THEN "closed" ELSE "gone"] /\ live' = live - 1
    BY <1>3, HostMoves DEF HostGoto, Handling
  <2>2. LiveRuns' = LiveRuns \ {r} /\ r \in LiveRuns
    BY <1>3, <2>1 DEF LiveRuns, TypeOK
  <2>3. Cardinality(LiveRuns') = live - 1 /\ Cardinality(LiveRuns') \in Nat
    BY <1>1, <2>2, FS_RemoveElement, FS_CardinalityType
  <2> QED BY <2>1, <2>3 DEF LiveIsCounted
<1>4. CASE at[r] # "closing" /\ (HostStep(r) \/ Sigint(r) \/ Sigterm(r))
  <2>1. live' = live
    BY <1>4, HostMoves, RaiseMoves DEF Sigint, Sigterm
  <2>2. ASSUME HostStep(r) PROVE LiveRuns' = LiveRuns
    <3>1. \E p \in Places \ {"unborn"} : at' = [at EXCEPT ![r] = p]
      <4>1. UNCHANGED at \/ \E p \in Places \ {"unborn"} : at' = [at EXCEPT ![r] = p]
        BY <1>4, <2>2, HostMoves, Zenon DEF HostGoto, BeginJoin, Places
      <4>2. at[r] \in Places /\ at[r] # "unborn" /\ at = [at EXCEPT ![r] = at[r]]
        BY <2>2, HostMoves DEF Places, Handling, TypeOK
      <4> QED BY <4>1, <4>2
    <3>2. (at[r] \in {"closed", "gone"}) <=> (at'[r] \in {"closed", "gone"})
      BY <1>4, <2>2, HostMoves DEF HostGoto, BeginJoin, Handling, TypeOK
    <3>3. at[r] # "unborn"
      BY <2>2, HostMoves DEF Handling
    <3> QED BY <3>1, <3>2, <3>3 DEF LiveRuns, TypeOK
  <2>3. ASSUME Sigint(r) \/ Sigterm(r) PROVE LiveRuns' = LiveRuns
    <3>1. \/ UNCHANGED at
          \/ /\ at[r] \in Joinable \cup {"watching"}
             /\ \E p \in {"caught", "joining", "escaping"} : at' = [at EXCEPT ![r] = p]
      <4>1. Raise(r)
        BY <2>3 DEF Sigint, Sigterm
      <4> QED BY <4>1, RaiseMoves, Zenon DEF HostGoto, BeginJoin, Joinable
    <3> QED BY <3>1 DEF LiveRuns, Joinable, Handling, TypeOK
  <2>4. LiveRuns' = LiveRuns
    BY <1>4, <2>2, <2>3
  <2> QED BY <1>1, <2>1, <2>4 DEF LiveIsCounted, TypeOK
<1> QED BY <1>2, <1>3, <1>4 DEF EnterRun, Sigint, Sigterm, Raise, RaiseInHost, RaiseInTurn, Handling

(* The types hold in every step, whatever the signals.                     *)
LEMMA TypeStep == ASSUME TypeInv, [Next]_vars PROVE TypeInv'
<1>1. CASE \E r \in Runs : EnterRun(r) \/ HostStep(r) \/ Sigint(r) \/ Sigterm(r)
  BY <1>1, HostTyping, LiveCounting DEF TypeInv
<1>2. CASE \E w \in Workers : WorkerStep(w) \/ AgentEnds(w)
  <2>1. UNCHANGED hostVars
    BY <1>2, WorkerMoves DEF TypeInv
  <2> QED BY <1>2, <2>1, WorkerTyping DEF TypeInv, LiveIsCounted, LiveRuns, hostVars
<1>3. CASE UNCHANGED vars
  BY <1>3 DEF vars, hostVars, latchVars, agentVars, waitVars, TypeInv, TypeOK, LiveIsCounted, LiveRuns,
              SleepersHaveSlices
<1> QED BY <1>1, <1>2, <1>3 DEF Next

(* The types hold at the start.                                            *)
LEMMA TypeInit == Init => TypeInv
<1> SUFFICES ASSUME Init PROVE TypeInv
  OBVIOUS
<1>1. TypeOK
  <2>1. MaxSignals \in Nat /\ Slices \in Nat
    BY WaitAssumption
  <2>2. Unused \in [waits : Nat, seconds : Nat]
    BY DEF Unused
  <2>3. /\ budget \in [Runs -> [waits : Nat, seconds : Nat]]
        /\ granted \in [Runs -> [waits : Nat, seconds : Nat]]
    BY <2>2 DEF Init
  <2>4. left \in [Workers -> 0 .. Slices] /\ signals \in [Runs -> 0 .. MaxSignals]
    BY <2>1 DEF Init
  <2> QED BY <2>3, <2>4 DEF Init, TypeOK, Over
<1>2. LiveRuns = {}
  BY DEF Init, LiveRuns
<1>3. LiveIsCounted /\ SleepersHaveSlices
  BY <1>2, FS_EmptySet DEF Init, LiveIsCounted, SleepersHaveSlices
<1> QED BY <1>1, <1>3 DEF TypeInv

(* The process-wide state of the interrupt is well typed, and _live_runs   *)
(* is the number of open runs, for any signals: no scope is left twice and *)
(* no slice is slept that was not there.                                   *)
THEOREM InterruptTyping == Spec => [](TypeOK /\ LiveIsCounted /\ SleepersHaveSlices)
<1>1. TypeInv /\ [Next]_vars => TypeInv'
  BY TypeStep
<1>2. TypeInv => TypeOK /\ LiveIsCounted /\ SleepersHaveSlices
  BY DEF TypeInv
<1> QED BY <1>1, <1>2, TypeInit, PTL DEF Spec

-----------------------------------------------------------------------------
(* Where runs and turns are, with one signal a run *)

(* Every step of a worker, and what it leaves alone, turn by turn.         *)
LEMMA OtherTurnsStay ==
  ASSUME TypeOK, NEW w \in Workers, WorkerStep(w) \/ AgentEnds(w)
  PROVE  /\ \A v \in Workers \ {w} : pc'[v] = pc[v]
         /\ pc'[w] # "queued" /\ pc[w] \notin Over
  BY WorkerMoves, Zenon DEF Goto, TypeOK, Labels, Over

(* A join changes the turns nobody has picked up, of its own run only.     *)
LEMMA JoinMoves ==
  ASSUME TypeOK, NEW r \in Runs, BeginJoin(r)
  PROVE  /\ \A v \in Workers : \/ pc'[v] = pc[v]
                               \/ v \in Crew[r] /\ pc[v] = "queued" /\ pc'[v] = "withdrawn"
         /\ at'[r] = "joining" /\ \A s \in Runs \ {r} : at'[s] = at[s]
  BY DEF BeginJoin, HostGoto, TypeOK

(* With one signal a run, it finds its host watching.                      *)
LEMMA RaiseOnce ==
  ASSUME OneSignal, TypeOK, SignalsAreCounted, NEW r \in Runs, Raise(r)
  PROVE  /\ at[r] = "watching" /\ pressed' = TRUE
         /\ signals' = [signals EXCEPT ![r] = @ + 1] /\ signals'[r] >= 1
         /\ UNCHANGED <<outcome, event, live, left, budget, granted, refuse, doomed>>
         /\ \/ /\ HostGoto(r, "caught") /\ UNCHANGED <<pc, message, active, cut>>
            \/ /\ r \in Direct
               /\ \E w \in Crew[r] :
                    /\ pc[w] \notin Over
                    /\ \/ /\ w \in active /\ message' = TRUE /\ active' = active \ {w}
                          /\ cut' = cut \cup {w} /\ Goto(w, "stopped") /\ UNCHANGED at
                       \/ /\ w \notin active /\ Goto(w, "aborted") /\ HostGoto(r, "escaping")
                          /\ UNCHANGED <<message, active, cut>>
<1>1. MaxSignals \in Nat /\ MaxSignals <= 1 /\ signals[r] \in 0 .. MaxSignals
  BY WaitAssumption DEF OneSignal, TypeOK
<1>2. signals[r] < MaxSignals
  BY RaiseMoves
<1>3. signals[r] = 0
  BY <1>1, <1>2
<1>4. at[r] \notin Joinable
  BY <1>3 DEF SignalsAreCounted
<1>5. signals' = [signals EXCEPT ![r] = @ + 1]
  BY RaiseMoves
<1>6. signals'[r] >= 1
  BY <1>3, <1>5 DEF TypeOK
<1> HIDE DEF BeginJoin
<1> QED BY <1>4, <1>5, <1>6, RaiseMoves, Zenon DEF Joinable

(* A host moves from where it is on, and nothing moves before a run starts *)
(* or after it is gone.                                                    *)
LEMMA PlacesMove ==
  ASSUME OneSignal, TypeOK, SignalsAreCounted, NEW r \in Runs, HostStep(r) \/ Sigint(r) \/ Sigterm(r)
  PROVE  /\ at[r] \notin {"unborn", "gone"} /\ at'[r] # "unborn"
         /\ \A s \in Runs \ {r} : at'[s] = at[s]
         /\ signals'[r] >= signals[r] /\ \A s \in Runs \ {r} : signals'[s] = signals[s]
         /\ at'[r] \in Joinable => at[r] \in Joinable \/ signals'[r] >= 1
         /\ at'[r] \notin {"closing", "closed", "gone"} => at[r] \notin {"closing", "closed", "gone"}
<1>1. CASE HostStep(r)
  <2>1. UNCHANGED signals /\ signals[r] \in 0 .. MaxSignals
    BY <1>1, HostMoves DEF TypeOK
  <2>2. signals'[r] >= signals[r]
    BY <2>1, WaitAssumption
  <2>3. /\ at[r] \notin {"unborn", "gone"} /\ at'[r] # "unborn"
        /\ \A s \in Runs \ {r} : at'[s] = at[s]
        /\ at'[r] \in Joinable => at[r] \in Joinable
        /\ at'[r] \notin {"closing", "closed", "gone"} => at[r] \notin {"closing", "closed", "gone"}
    <3>1. \/ UNCHANGED at /\ at[r] = "killing"
          \/ \E p \in Places :
               /\ at' = [at EXCEPT ![r] = p] /\ p # "unborn"
               /\ \/ p = "closing" /\ at[r] \in {"watching", "escaping"}
                  \/ p \in {"closed", "gone"} /\ at[r] \in {"closing", "closed"}
                  \/ p \in Joinable \cup {"escaping"} /\ at[r] \in Joinable
      <4>1. CASE at[r] \in {"watching", "escaping"} /\ HostGoto(r, "closing")
        BY <4>1, Zenon DEF HostGoto, Places
      <4>2. CASE at[r] = "closing" /\ HostGoto(r, IF r \in Cli THEN "closed" ELSE "gone")
        BY <4>2 DEF HostGoto, Places
      <4>3. CASE at[r] = "closed" /\ HostGoto(r, "gone")
        BY <4>3 DEF HostGoto, Places
      <4>4. CASE \/ at[r] = "caught" /\ HostGoto(r, "latched")
                 \/ at[r] = "latched" /\ HostGoto(r, "cancelled")
                 \/ at[r] = "cancelled" /\ HostGoto(r, "killing")
        BY <4>4 DEF HostGoto, Places, Joinable, Handling
      <4>5. CASE \/ at[r] = "killing" /\ (UNCHANGED at \/ HostGoto(r, "joining"))
                 \/ at[r] = "joining" /\ HostGoto(r, "escaping")
        BY <4>5 DEF HostGoto, Places, Joinable, Handling
      <4> QED BY <1>1, <4>1, <4>2, <4>3, <4>4, <4>5, HostMoves, Zenon DEF BeginJoin
    <3> QED BY <3>1 DEF Joinable, Handling, TypeOK
  <2> QED BY <2>1, <2>2, <2>3
<1>2. CASE Sigint(r) \/ Sigterm(r)
  <2>1. Raise(r)
    BY <1>2 DEF Sigint, Sigterm
  <2>2. signals' = [signals EXCEPT ![r] = @ + 1] /\ signals'[r] >= 1 /\ signals[r] \in 0 .. MaxSignals
    BY <2>1, RaiseOnce DEF TypeOK
  <2>3. signals'[r] >= signals[r] /\ \A s \in Runs \ {r} : signals'[s] = signals[s]
    BY <2>2, WaitAssumption DEF TypeOK
  <2>4. at[r] = "watching" /\ (HostGoto(r, "caught") \/ HostGoto(r, "escaping") \/ UNCHANGED at)
    BY <2>1, RaiseOnce
  <2> QED BY <2>2, <2>3, <2>4 DEF HostGoto, TypeOK
<1> QED BY <1>1, <1>2

(* Runs keep their order, and who handles an interrupt has been signalled. *)
LEMMA OrderStep ==
  ASSUME OneSignal, TypeOK, OrderIsKept, SignalsAreCounted, [Next]_vars
  PROVE  OrderIsKept' /\ SignalsAreCounted'
<1>1. ASSUME NEW r \in Runs, EnterRun(r) PROVE OrderIsKept' /\ SignalsAreCounted'
  <2>1. /\ at[r] = "unborn" /\ at' = [at EXCEPT ![r] = "watching"] /\ UNCHANGED signals
        /\ \A s \in Runs : <<s, r>> \in After => at[s] = "gone"
    BY <1>1 DEF EnterRun, HostGoto
  <2> QED BY <2>1 DEF OrderIsKept, SignalsAreCounted, Joinable, Handling, TypeOK
<1>2. ASSUME NEW r \in Runs, HostStep(r) \/ Sigint(r) \/ Sigterm(r)
      PROVE  OrderIsKept' /\ SignalsAreCounted'
  <2>1. SignalsAreCounted'
    <3> SUFFICES ASSUME NEW s \in Runs, at'[s] \in Joinable PROVE signals'[s] >= 1
      BY DEF SignalsAreCounted
    <3>1. CASE s # r
      BY <1>2, <3>1, PlacesMove DEF SignalsAreCounted
    <3>2. CASE s = r
      <4>1. signals[r] \in 0 .. MaxSignals /\ signals'[r] \in Int
        <5>1. signals[r] \in 0 .. MaxSignals /\ MaxSignals \in Nat
          BY WaitAssumption DEF TypeOK
        <5>2. UNCHANGED signals \/ signals' = [signals EXCEPT ![r] = @ + 1]
          BY <1>2, HostMoves, RaiseMoves DEF Sigint, Sigterm
        <5> QED BY <5>1, <5>2 DEF TypeOK
      <4>2. signals'[r] >= signals[r] /\ (at[r] \in Joinable \/ signals'[r] >= 1)
        BY <1>2, <3>2, PlacesMove
      <4> QED BY <3>2, <4>1, <4>2 DEF SignalsAreCounted
    <3> QED BY <3>1, <3>2
  <2>2. OrderIsKept'
    BY <1>2, PlacesMove DEF OrderIsKept
  <2> QED BY <2>1, <2>2
<1>3. ASSUME NEW w \in Workers, WorkerStep(w) \/ AgentEnds(w) PROVE OrderIsKept' /\ SignalsAreCounted'
  BY <1>3, WorkerMoves DEF OrderIsKept, SignalsAreCounted, hostVars
<1>4. CASE UNCHANGED vars
  BY <1>4 DEF OrderIsKept, SignalsAreCounted, vars, hostVars
<1> QED BY <1>1, <1>2, <1>3, <1>4 DEF Next

(* A turn is queued before its run and over after it: the host leaves only *)
(* when its futures are done, and an unwinding turn is the whole crew.     *)
LEMMA CrewStep ==
  ASSUME OneSignal, TypeOK, SignalsAreCounted, CrewsAreOver, [Next]_vars
  PROVE  CrewsAreOver'
<1> DEFINE Ended == {"escaping", "closing", "closed", "gone"}
<1>1. ASSUME NEW r \in Runs, EnterRun(r) PROVE CrewsAreOver'
  <2>1. at[r] = "unborn" /\ at' = [at EXCEPT ![r] = "watching"] /\ UNCHANGED pc
    BY <1>1 DEF EnterRun, HostGoto
  <2> QED BY <2>1 DEF CrewsAreOver, TypeOK
<1>2. ASSUME NEW r \in Runs, HostStep(r) PROVE CrewsAreOver'
  <2>1. \A s \in Runs \ {r} : at'[s] = at[s]
    BY <1>2, PlacesMove
  <2>2. at'[r] # "unborn" /\ (at'[r] \in Ended => UNCHANGED pc /\ \A w \in Crew[r] : pc[w] \in Over)
    <3> DEFINE Crewless == \A w \in Crew[r] : pc[w] \in Over
    <3>1. \/ at[r] \in {"watching", "joining"} /\ UNCHANGED pc /\ Crewless
          \/ at[r] \in Ended /\ UNCHANGED pc
          \/ HostGoto(r, "latched") \/ HostGoto(r, "cancelled") \/ HostGoto(r, "killing")
          \/ at[r] = "killing" /\ (UNCHANGED at \/ HostGoto(r, "joining"))
      <4>1. \/ at[r] = "watching" /\ UNCHANGED pc /\ Crewless
            \/ at[r] = "escaping" /\ UNCHANGED pc
            \/ at[r] = "closing" /\ UNCHANGED pc
            \/ at[r] = "closed" /\ UNCHANGED pc
            \/ HostGoto(r, "latched")
            \/ HostGoto(r, "cancelled")
            \/ HostGoto(r, "killing")
            \/ at[r] = "killing" /\ UNCHANGED at
            \/ at[r] = "killing" /\ BeginJoin(r)
            \/ at[r] = "joining" /\ UNCHANGED pc /\ Crewless
        BY <1>2, HostMoves
      <4> QED BY <4>1 DEF BeginJoin
    <3>2. at[r] \in Ended => Crewless
      BY DEF CrewsAreOver
    <3>3. at \in [Runs -> Places]
      BY DEF TypeOK, Places
    <3> HIDE DEF Crewless
    <3>4. at'[r] \in Ended => UNCHANGED pc /\ Crewless
      BY <3>1, <3>2, <3>3 DEF HostGoto
    <3> QED BY <1>2, <3>4, PlacesMove DEF Crewless
  <2>3. UNCHANGED pc \/ BeginJoin(r)
    BY <1>2, HostMoves
  <2>4. ASSUME NEW s \in Runs, s # r, NEW w \in Crew[s] PROVE w \in Workers /\ pc'[w] = pc[w]
    <3>1. w \in Workers /\ w \notin Crew[r]
      BY <2>4, CrewAssumption
    <3> QED BY <2>3, <3>1, JoinMoves
  <2> QED BY <2>1, <2>2, <2>4 DEF CrewsAreOver
<1>3. ASSUME NEW r \in Runs, Raise(r) PROVE CrewsAreOver'
  <2>1. at[r] = "watching"
    BY <1>3, RaiseOnce
  <2>2. CASE HostGoto(r, "caught") /\ UNCHANGED pc
    BY <2>1, <2>2 DEF HostGoto, CrewsAreOver, TypeOK
  <2>3. ASSUME NEW w \in Crew[r], r \in Direct, pc[w] \notin Over,
               \/ Goto(w, "stopped") /\ UNCHANGED at
               \/ Goto(w, "aborted") /\ HostGoto(r, "escaping")
        PROVE  CrewsAreOver'
    <3>1. w \in Workers /\ Crew[r] = {w}
      BY <2>3, CrewAssumption, DirectAssumption
    <3>2. \A s \in Runs \ {r} : at'[s] = at[s] /\ w \notin Crew[s]
      BY <2>3, CrewAssumption DEF HostGoto, TypeOK
    <3>3. pc'[w] \in Over /\ \A v \in Workers \ {w} : pc'[v] = pc[v]
      BY <2>3, <3>1 DEF Goto, Over, TypeOK
    <3>4. at'[r] # "unborn"
      BY <2>1, <2>3 DEF HostGoto, TypeOK
    <3>5. \A s \in Runs : Crew[s] \subseteq Workers
      BY CrewAssumption
    <3> QED BY <3>1, <3>2, <3>3, <3>4, <3>5 DEF CrewsAreOver
  <2> QED BY <1>3, <2>2, <2>3, RaiseOnce, Zenon
<1>4. ASSUME NEW w \in Workers, WorkerStep(w) \/ AgentEnds(w) PROVE CrewsAreOver'
  <2>1. UNCHANGED at /\ pc[w] \notin Over /\ (pc[w] = "queued" => at[RunOf(w)] = "watching")
    BY <1>4, WorkerMoves DEF hostVars
  <2>2. RunOf(w) \in Runs /\ w \in Crew[RunOf(w)] /\ \A r \in Runs : w \in Crew[r] => r = RunOf(w)
    BY OneRun
  <2>3. at[RunOf(w)] \notin Ended \cup {"unborn"}
    BY <2>1, <2>2 DEF CrewsAreOver
  <2>4. \A v \in Workers \ {w} : pc'[v] = pc[v]
    BY <1>4, OtherTurnsStay
  <2>5. \A r \in Runs : Crew[r] \subseteq Workers
    BY CrewAssumption
  <2> QED BY <2>1, <2>2, <2>3, <2>4, <2>5 DEF CrewsAreOver
<1>5. CASE UNCHANGED vars
  BY <1>5 DEF CrewsAreOver, vars, hostVars
<1> QED BY <1>1, <1>2, <1>3, <1>4, <1>5 DEF Next, Sigint, Sigterm

(* Only a turn inside wait_for_reset has a registered wait.                *)
LEMMA WaitsStep ==
  ASSUME OneSignal, TypeOK, SignalsAreCounted, WaitsAreActive, [Next]_vars
  PROVE  WaitsAreActive'
<1>1. ASSUME NEW w \in Workers, WorkerStep(w) \/ AgentEnds(w) PROVE WaitsAreActive'
  <2>1. \A v \in Workers \ {w} : pc'[v] = pc[v]
    BY <1>1, OtherTurnsStay
  <2>2. active' \subseteq active \cup {w}
    BY <1>1 DEF WorkerStep, StartTurn, CheckInterrupted, Spawn, RegisterProcess, AgentKilled, AgentEnds,
                Reserve, RegisterWait, CheckSlice, SleepSlice, EndWait, ReplayTurn, waitVars
  <2>3. w \in active' => pc'[w] \in {"waiting", "sleeping", "elapsed", "resuming"}
    <3>1. CASE StartTurn(w) \/ CheckInterrupted(w) \/ Spawn(w) \/ RegisterProcess(w) \/ AgentKilled(w)
               \/ AgentEnds(w) \/ (\E reset \in Resets : Reserve(w, reset))
      BY <3>1 DEF StartTurn, CheckInterrupted, Spawn, RegisterProcess, AgentKilled, AgentEnds, Reserve,
                  waitVars, WaitsAreActive
    <3>2. CASE RegisterWait(w) \/ CheckSlice(w) \/ SleepSlice(w) \/ EndWait(w) \/ ReplayTurn(w)
      BY <3>2 DEF RegisterWait, CheckSlice, SleepSlice, EndWait, ReplayTurn, Goto, TypeOK
    <3> QED BY <1>1, <3>1, <3>2 DEF WorkerStep
  <2> QED BY <2>1, <2>2, <2>3 DEF WaitsAreActive, TypeOK
<1>2. ASSUME NEW r \in Runs, HostStep(r) PROVE WaitsAreActive'
  <2>1. UNCHANGED active /\ (UNCHANGED pc \/ BeginJoin(r))
    BY <1>2, HostMoves
  <2> QED BY <2>1, JoinMoves DEF WaitsAreActive, TypeOK
<1>3. ASSUME NEW r \in Runs, Raise(r) PROVE WaitsAreActive'
  <2>1. \/ UNCHANGED <<pc, active>>
        \/ \E w \in Crew[r] : /\ active' = active \ {w}
                              /\ Goto(w, "stopped") \/ Goto(w, "aborted")
    BY <1>3, RaiseOnce
  <2> QED BY <2>1 DEF WaitsAreActive, Goto, TypeOK
<1>4. ASSUME NEW r \in Runs, EnterRun(r) PROVE WaitsAreActive'
  BY <1>4 DEF EnterRun, waitVars, WaitsAreActive
<1>5. CASE UNCHANGED vars
  BY <1>5 DEF WaitsAreActive, vars, waitVars
<1> QED BY <1>1, <1>2, <1>3, <1>4, <1>5 DEF Next, Sigint, Sigterm

(* Only cli.main's runs have a finally to go through after their scope.    *)
LEMMA CloseStep ==
  ASSUME OneSignal, TypeOK, SignalsAreCounted, OnlyCommandsClose, [Next]_vars
  PROVE  OnlyCommandsClose'
<1>1. ASSUME NEW r \in Runs, HostStep(r) PROVE OnlyCommandsClose'
  BY <1>1, HostMoves DEF HostGoto, BeginJoin, OnlyCommandsClose, TypeOK
<1>2. ASSUME NEW r \in Runs, Raise(r) PROVE OnlyCommandsClose'
  BY <1>2, RaiseOnce DEF HostGoto, OnlyCommandsClose, TypeOK
<1>3. ASSUME NEW r \in Runs, EnterRun(r) PROVE OnlyCommandsClose'
  BY <1>3 DEF EnterRun, HostGoto, OnlyCommandsClose, TypeOK
<1>4. ASSUME NEW w \in Workers, WorkerStep(w) \/ AgentEnds(w) PROVE OnlyCommandsClose'
  BY <1>4, WorkerMoves DEF OnlyCommandsClose, hostVars
<1>5. CASE UNCHANGED vars
  BY <1>5 DEF OnlyCommandsClose, vars, hostVars
<1> QED BY <1>1, <1>2, <1>3, <1>4, <1>5 DEF Next, Sigint, Sigterm

(* The parts of the invariant together.                                    *)
LEMMA RunStep == ASSUME OneSignal, RunInv, [Next]_vars PROVE RunInv'
  BY TypeStep, OrderStep, CloseStep, CrewStep, WaitsStep DEF RunInv, TypeInv

(* They hold at the start.                                                 *)
LEMMA RunInit == Init => RunInv
<1> SUFFICES ASSUME Init PROVE RunInv
  OBVIOUS
<1>1. TypeInv
  BY TypeInit
<1>2. OrderIsKept /\ OnlyCommandsClose /\ SignalsAreCounted /\ WaitsAreActive
  BY DEF Init, OrderIsKept, OnlyCommandsClose, SignalsAreCounted, WaitsAreActive, Joinable, Handling
<1>3. CrewsAreOver
  BY CrewAssumption DEF Init, CrewsAreOver
<1> QED BY <1>1, <1>2, <1>3 DEF RunInv

-----------------------------------------------------------------------------
(* The latch *)

(* With no run live, no turn is open and no wait is registered.            *)
LEMMA IdleProcess ==
  ASSUME RunInv, live = 0
  PROVE  LiveRuns = {} /\ active = {} /\ \A w \in Workers : pc[w] \in Over \cup {"queued"}
<1>1. IsFiniteSet(LiveRuns) /\ Cardinality(LiveRuns) = 0
  BY RunsAssumption, FS_Subset DEF LiveRuns, LiveIsCounted, RunInv, TypeInv
<1>2. LiveRuns = {}
  BY <1>1, FS_EmptySet
<1>3. ASSUME NEW w \in Workers PROVE pc[w] \in Over \cup {"queued"}
  BY <1>2, OneRun DEF LiveRuns, CrewsAreOver, RunInv
<1>4. active = {}
  BY <1>3 DEF RunInv, WaitsAreActive, TypeInv, TypeOK, Over
<1> QED BY <1>2, <1>3, <1>4

(* The run that finds no other clears the latch, and only a host that was  *)
(* signalled sets it.                                                      *)
LEMMA LatchStep ==
  ASSUME OneSignal, RunInv, LatchIsOwned, [Next]_vars
  PROVE  LatchIsOwned'
<1> USE DEF RunInv, TypeInv
<1>1. ASSUME NEW r \in Runs, EnterRun(r) PROVE LatchIsOwned'
  <2>1. at[r] = "unborn" /\ at' = [at EXCEPT ![r] = "watching"] /\ live' = live + 1
        /\ pressed' = (pressed /\ live # 0)
        /\ IF r \in Cli \/ ClearsTheLatch(r) THEN reset_wait_state ELSE UNCHANGED latchVars
    BY <1>1 DEF EnterRun, HostGoto
  <2>2. CASE live = 0
    <3>1. LiveRuns = {} /\ reset_wait_state
      BY <2>1, <2>2, IdleProcess DEF ClearsTheLatch
    <3>2. \A s \in Runs : at'[s] \notin Joinable
      BY <2>1, <3>1 DEF LiveRuns, Joinable, Handling, TypeOK
    <3> QED BY <3>1, <3>2 DEF LatchIsOwned, LatchIsFresh, reset_wait_state, Cancelled
  <2>3. CASE live # 0
    <3>1. live > 0
      BY <2>3 DEF TypeOK
    <3>2. \A s \in Runs : at'[s] \in Joinable => at[s] \in Joinable
      BY <2>1 DEF Joinable, Handling, TypeOK
    <3>3. pressed' = pressed
      BY <2>1, <2>3 DEF TypeOK
    <3>4. (Cancelled \/ message)' => (Cancelled \/ message)
      BY <2>1 DEF reset_wait_state, latchVars, Cancelled
    <3> QED BY <3>1, <3>2, <3>3, <3>4 DEF LatchIsOwned, LatchIsFresh
  <2> QED BY <2>2, <2>3
<1>2. ASSUME NEW r \in Runs, HostStep(r) PROVE LatchIsOwned'
  <2>1. UNCHANGED pressed /\ (live' = live \/ live' = live - 1) /\ live \in Nat
    BY <1>2, HostMoves DEF TypeOK
  <2>2. live' > 0 => live > 0
    BY <2>1
  <2>3. \A s \in Runs : at'[s] \in Joinable => at[s] \in Joinable
    <3>1. \A s \in Runs \ {r} : at'[s] = at[s]
      BY <1>2, PlacesMove
    <3>2. ASSUME at[r] \notin Joinable PROVE at'[r] \notin Joinable
      <4>1. HostGoto(r, "closing") \/ HostGoto(r, "closed") \/ HostGoto(r, "gone")
        BY <1>2, <3>2, HostMoves, Zenon DEF Joinable, Handling
      <4> QED BY <4>1 DEF HostGoto, Joinable, Handling, TypeOK
    <3> QED BY <3>1, <3>2
  <2>4. (Cancelled \/ message)' => (Cancelled \/ message) \/ at[r] \in Joinable
    <3>1. CASE UNCHANGED latchVars \/ reset_wait_state
      BY <3>1 DEF latchVars, reset_wait_state, Cancelled
    <3>2. CASE at[r] \in {"caught", "latched"}
      BY <3>2 DEF Joinable, Handling
    <3> QED BY <1>2, <3>1, <3>2, HostMoves
  <2>5. (live > 0 /\ (Cancelled \/ message))' => pressed
    BY <2>2, <2>4 DEF LatchIsOwned, LatchIsFresh
  <2>6. \A s \in Runs : at'[s] \in Joinable => pressed
    BY <2>3 DEF LatchIsOwned
  <2> QED BY <2>1, <2>5, <2>6 DEF LatchIsOwned, LatchIsFresh
<1>3. ASSUME NEW r \in Runs, Sigint(r) \/ Sigterm(r) PROVE LatchIsOwned'
  BY <1>3, RaiseMoves DEF Sigint, Sigterm, LatchIsOwned, LatchIsFresh
<1>4. ASSUME NEW w \in Workers, WorkerStep(w) \/ AgentEnds(w) PROVE LatchIsOwned'
  <2>1. UNCHANGED <<at, live, pressed, event, signalled>>
    BY <1>4, WorkerMoves DEF hostVars
  <2>2. message' => message \/ Cancelled
    BY <1>4 DEF WorkerStep, StartTurn, CheckInterrupted, Spawn, RegisterProcess, AgentKilled, AgentEnds,
                Reserve, RegisterWait, CheckSlice, SleepSlice, EndWait, ReplayTurn, latchVars
  <2> QED BY <2>1, <2>2 DEF LatchIsOwned, LatchIsFresh, Cancelled
<1>5. CASE UNCHANGED vars
  BY <1>5 DEF LatchIsOwned, LatchIsFresh, Cancelled, vars, hostVars, latchVars
<1> QED BY <1>1, <1>2, <1>3, <1>4, <1>5 DEF Next

(* No wait of a run is cut short on account of a signal that came before   *)
(* the run found the process idle (_reset_stale_wait_state): the runs in   *)
(* the process are joined with their turns, so an idle process has no wait *)
(* left, and the next run is free to clear the latch.                      *)
THEOREM LatchFreshness == ASSUME OneSignal PROVE Spec => []LatchIsFresh
<1> DEFINE Inv == RunInv /\ LatchIsOwned
<1>1. Init => Inv
  <2>1. Init => LatchIsOwned
    BY DEF Init, LatchIsOwned, LatchIsFresh, Joinable, Handling
  <2> QED BY <2>1, RunInit
<1>2. Inv /\ [Next]_vars => Inv'
  BY RunStep, LatchStep
<1>3. Inv => LatchIsFresh
  BY DEF LatchIsOwned
<1> QED BY <1>1, <1>2, <1>3, PTL DEF Spec

-----------------------------------------------------------------------------
(* What a cancel promises *)

(* A command that is about to start, or has ended, is alone: the other     *)
(* runs are before their start or gone, and no turn of the process is open.*)
LEMMA CommandIsAlone ==
  ASSUME CommandsAreAlone, RunInv, NEW r \in Cli,
         at[r] = "closed" \/ (at[r] = "unborn" /\ \A s \in Runs : <<s, r>> \in After => at[s] = "gone")
  PROVE  /\ \A s \in Runs \ {r} : at[s] \in {"unborn", "gone"}
         /\ \A w \in Workers : pc[w] \in Over \cup {"queued"}
<1>1. r \in Runs
  BY HostAssumption
<1>2. \A s \in Runs \ {r} : at[s] \in {"unborn", "gone"}
  BY <1>1 DEF CommandsAreAlone, OrderIsKept, RunInv
<1>3. \A s \in Runs : at[s] \in {"unborn", "gone", "closed"}
  BY <1>2
<1>4. \A w \in Workers : pc[w] \in Over \cup {"queued"}
  BY <1>3, OneRun DEF CrewsAreOver, RunInv
<1> QED BY <1>2, <1>4

(* The latch is cleared only in a process without an open turn.            *)
LEMMA ClearedWhenIdle ==
  ASSUME CommandsAreAlone, RunInv, NEW r \in Runs, EnterRun(r) \/ LeaveCli(r)
  PROVE  \/ UNCHANGED latchVars
         \/ /\ reset_wait_state
            /\ \A w \in Workers : pc[w] \in Over \cup {"queued"}
            /\ \A s \in Runs \ {r} : at[s] \in {"unborn", "closed", "gone"}
<1>1. CASE LeaveCli(r)
  <2>1. at[r] = "closed" /\ reset_wait_state
    BY <1>1 DEF LeaveCli
  <2>2. CASE r \in Cli
    BY <2>1, <2>2, CommandIsAlone
  <2>3. CASE r \notin Cli
    BY <2>1, <2>3 DEF RunInv, OnlyCommandsClose
  <2> QED BY <2>2, <2>3
<1>2. CASE EnterRun(r) /\ r \in Cli
  BY <1>2, CommandIsAlone DEF EnterRun
<1>3. CASE EnterRun(r) /\ r \notin Cli
  <2>1. CASE ClearsTheLatch(r)
    <3>1. live = 0 /\ reset_wait_state
      BY <1>3, <2>1 DEF EnterRun, ClearsTheLatch
    <3> QED BY <3>1, IdleProcess DEF LiveRuns
  <2>2. CASE ~ClearsTheLatch(r)
    BY <1>3, <2>2 DEF EnterRun
  <2> QED BY <2>1, <2>2
<1> QED BY <1>1, <1>2, <1>3

(* A cancelled wait stays before the second look at the latch until it is  *)
(* stopped: nobody clears the latch over its head.                         *)
LEMMA HitStep ==
  ASSUME OneSignal, CommandsAreAlone, RunInv, HitWaitsEnd, [Next]_vars
  PROVE  HitWaitsEnd'
<1> USE DEF RunInv, TypeInv
<1> DEFINE Inside == {"reserved", "waiting", "sleeping", "elapsed"}
<1>1. ASSUME NEW w \in Workers, WorkerStep(w) \/ AgentEnds(w) PROVE HitWaitsEnd'
  <2>1. UNCHANGED <<event, signalled, hit>> /\ pc[w] \notin Over
    BY <1>1, WorkerMoves
  <2>2. \A v \in Workers \ {w} : pc'[v] = pc[v]
    BY <1>1, OtherTurnsStay
  <2>3. pc[w] \in Inside /\ Cancelled => pc'[w] \in Inside \cup {"stopped"}
    <3>1. CASE pc[w] \in Inside /\ Cancelled /\ WorkerStep(w)
      BY <3>1 DEF WorkerStep, StartTurn, CheckInterrupted, Spawn, RegisterProcess, AgentKilled,
                  Reserve, RegisterWait, CheckSlice, SleepSlice, EndWait, ReplayTurn, Goto, TypeOK
    <3>2. CASE AgentEnds(w)
      BY <3>2 DEF AgentEnds
    <3> QED BY <1>1, <3>1, <3>2
  <2>4. "stopped" \in Over
    BY DEF Over
  <2>5. hit \subseteq Workers
    BY DEF TypeOK
  <2> QED BY <2>1, <2>2, <2>3, <2>4, <2>5 DEF HitWaitsEnd, Cancelled
<1>2. ASSUME NEW r \in Runs, EnterRun(r) \/ LeaveCli(r) PROVE HitWaitsEnd'
  <2>1. UNCHANGED <<pc, hit>>
    BY <1>2 DEF EnterRun, LeaveCli, waitVars
  <2>2. CASE UNCHANGED latchVars
    BY <2>1, <2>2 DEF HitWaitsEnd, Cancelled, latchVars
  <2>3. CASE \A w \in Workers : pc[w] \in Over \cup {"queued"}
    BY <2>1, <2>3 DEF HitWaitsEnd, TypeOK
  <2> QED BY <1>2, <2>2, <2>3, ClearedWhenIdle
<1>3. ASSUME NEW r \in Runs, HostStep(r), ~LeaveCli(r) PROVE HitWaitsEnd'
  <2>1. \A v \in Workers : \/ pc'[v] = pc[v]
                           \/ pc[v] = "queued" /\ pc'[v] = "withdrawn"
    BY <1>3, HostMoves, JoinMoves
  <2>2. \/ hit' = hit /\ (Cancelled => Cancelled')
        \/ hit' = hit \cup Reached /\ Cancelled'
    BY <1>3 DEF HostStep, CollectResults, ClassifyInterrupt, ExitRun, LatchMessage, SetCancelEvent,
                RefuseSpawns, KillAgent, ShutDown, JoinWorkers, latchVars, waitVars, Cancelled
  <2>3. \A v \in hit' : pc[v] \in Over \/ (pc[v] \in Inside /\ Cancelled')
    BY <2>2 DEF HitWaitsEnd, Reached
  <2>4. \A v \in hit' : v \in Workers
    BY <2>2 DEF Reached, TypeOK
  <2> QED BY <2>1, <2>3, <2>4 DEF HitWaitsEnd, Over
<1>4. ASSUME NEW r \in Runs, Sigint(r) \/ Sigterm(r) PROVE HitWaitsEnd'
  <2>1. Raise(r)
    BY <1>4 DEF Sigint, Sigterm
  <2>2. \A v \in Workers : pc'[v] = pc[v] \/ pc'[v] \in Over
    BY <2>1, RaiseOnce DEF Goto, Over, TypeOK
  <2>3. \/ hit' = hit /\ (Cancelled => Cancelled')
        \/ hit' = hit \cup Reached /\ Cancelled'
    BY <1>4, <2>1, RaiseMoves DEF Sigint, Sigterm, Cancelled
  <2>4. \A v \in hit' : v \in Workers /\ (pc[v] \in Over \/ (pc[v] \in Inside /\ Cancelled'))
    BY <2>3 DEF HitWaitsEnd, Reached, TypeOK
  <2>5. \A v \in Workers : pc[v] \in Over => pc'[v] \in Over
    BY <2>2
  <2> QED BY <2>2, <2>4, <2>5 DEF HitWaitsEnd
<1>5. CASE UNCHANGED vars
  BY <1>5 DEF HitWaitsEnd, Cancelled, vars, waitVars, latchVars
<1> QED BY <1>1, <1>2, <1>3, <1>4, <1>5, Zenon DEF Next, HostStep

(* "Wake every active (and any about-to-start) wait; it raises a quota     *)
(* stop": a wait that was reserved or registered when the cancel came      *)
(* never goes on to the replay of its turn, whichever run it belongs to.   *)
THEOREM CancelStops == ASSUME OneSignal, CommandsAreAlone PROVE Spec => []CancelledWaitsStop
<1> DEFINE Inv == RunInv /\ HitWaitsEnd
<1>1. Init => Inv
  BY RunInit DEF Init, HitWaitsEnd
<1>2. Inv /\ [Next]_vars => Inv'
  BY RunStep, HitStep
<1>3. Inv => CancelledWaitsStop
  BY DEF HitWaitsEnd, CancelledWaitsStop, Over
<1> QED BY <1>1, <1>2, <1>3, PTL DEF Spec

-----------------------------------------------------------------------------
(* How an interrupted command ends *)

CutInv == OutcomesAreLast /\ CutTurnsStopped /\ CutIsTold

(* A run has no outcome before it is collected or classified.              *)
LEMMA OutcomeStep ==
  ASSUME OneSignal, RunInv, OutcomesAreLast, [Next]_vars
  PROVE  OutcomesAreLast'
<1> USE DEF RunInv, TypeInv
<1>1. ASSUME NEW r \in Runs, HostStep(r) PROVE OutcomesAreLast'
  <2>1. /\ \A s \in Runs \ {r} : at'[s] = at[s]
        /\ at'[r] \notin {"closing", "closed", "gone"} => at[r] \notin {"closing", "closed", "gone"}
    BY <1>1, PlacesMove
  <2>2. UNCHANGED outcome \/ (HostGoto(r, "closing") /\ \E o \in {"ok", "error", "quota", "interrupt"} :
                                                           outcome' = [outcome EXCEPT ![r] = o])
    BY <1>1, HostMoves, Zenon
  <2> QED BY <2>1, <2>2 DEF OutcomesAreLast, HostGoto, TypeOK
<1>2. ASSUME NEW r \in Runs, Raise(r) PROVE OutcomesAreLast'
  <2>1. UNCHANGED outcome /\ at[r] = "watching"
    BY <1>2, RaiseOnce
  <2>2. UNCHANGED at \/ HostGoto(r, "caught") \/ HostGoto(r, "escaping")
    BY <1>2, RaiseOnce
  <2> QED BY <2>1, <2>2 DEF OutcomesAreLast, HostGoto, TypeOK
<1>3. ASSUME NEW r \in Runs, EnterRun(r) PROVE OutcomesAreLast'
  BY <1>3 DEF EnterRun, HostGoto, OutcomesAreLast, TypeOK
<1>4. ASSUME NEW w \in Workers, WorkerStep(w) \/ AgentEnds(w) PROVE OutcomesAreLast'
  BY <1>4, WorkerMoves DEF OutcomesAreLast, hostVars
<1>5. CASE UNCHANGED vars
  BY <1>5 DEF OutcomesAreLast, vars, hostVars
<1> QED BY <1>1, <1>2, <1>3, <1>4, <1>5 DEF Next, Sigint, Sigterm

(* A turn whose wait was cut short ends there.                             *)
LEMMA CutStep ==
  ASSUME OneSignal, RunInv, CutTurnsStopped, [Next]_vars
  PROVE  CutTurnsStopped'
<1> USE DEF RunInv, TypeInv
<1>1. ASSUME NEW w \in Workers, WorkerStep(w) \/ AgentEnds(w) PROVE CutTurnsStopped'
  <2>1. /\ pc[w] \notin Over
        /\ \A v \in Workers \ {w} : pc'[v] = pc[v]
    BY <1>1, OtherTurnsStay
  <2>2. w \notin cut
    BY <2>1 DEF CutTurnsStopped, Over
  <2>3. cut' = cut \/ (cut' = cut \cup {w} /\ pc'[w] = "stopped")
    <3>1. CASE EndWait(w)
      BY <3>1 DEF EndWait, Goto, TypeOK
    <3>2. CASE ~EndWait(w)
      BY <1>1, <3>2 DEF WorkerStep, StartTurn, CheckInterrupted, Spawn, RegisterProcess, AgentKilled,
                        AgentEnds, Reserve, RegisterWait, CheckSlice, SleepSlice, ReplayTurn, waitVars
    <3> QED BY <3>1, <3>2
  <2> QED BY <2>1, <2>2, <2>3 DEF CutTurnsStopped, TypeOK
<1>2. ASSUME NEW r \in Runs, HostStep(r) PROVE CutTurnsStopped'
  <2>1. UNCHANGED cut /\ (UNCHANGED pc \/ BeginJoin(r))
    BY <1>2, HostMoves
  <2> QED BY <2>1, JoinMoves DEF CutTurnsStopped, TypeOK
<1>3. ASSUME NEW r \in Runs, Raise(r) PROVE CutTurnsStopped'
  <2>1. CASE UNCHANGED <<pc, cut>>
    BY <2>1 DEF CutTurnsStopped
  <2>2. ASSUME NEW w \in Crew[r], pc[w] \notin Over,
               \/ cut' = cut \cup {w} /\ Goto(w, "stopped")
               \/ Goto(w, "aborted") /\ UNCHANGED cut
        PROVE  CutTurnsStopped'
    <3>1. w \in Workers /\ w \notin cut
      BY <2>2, CrewAssumption DEF CutTurnsStopped, Over
    <3>2. \A v \in Workers \ {w} : pc'[v] = pc[v]
      BY <2>2 DEF Goto, TypeOK
    <3>3. UNCHANGED cut \/ (cut' = cut \cup {w} /\ pc'[w] = "stopped")
      BY <2>2, <3>1 DEF Goto, TypeOK
    <3> QED BY <3>1, <3>2, <3>3 DEF CutTurnsStopped, TypeOK
  <2> QED BY <1>3, <2>1, <2>2, RaiseOnce, Zenon
<1>4. ASSUME NEW r \in Runs, EnterRun(r) PROVE CutTurnsStopped'
  BY <1>4 DEF EnterRun, waitVars, CutTurnsStopped
<1>5. CASE UNCHANGED vars
  BY <1>5 DEF CutTurnsStopped, vars, waitVars
<1> QED BY <1>1, <1>2, <1>3, <1>4, <1>5 DEF Next, Sigint, Sigterm

(* Once a wait of a live command is cut short, the message that turns its  *)
(* interrupt into a quota stop stays set until the command has ended.      *)
LEMMA ToldStep ==
  ASSUME OneSignal, CommandsAreAlone, RunInv, CutInv, [Next]_vars
  PROVE  CutIsTold'
<1> USE DEF RunInv, TypeInv, CutInv
<1> DEFINE Told(q) == Crew[q] \cap cut # {} => (q \in LiveRuns => message) /\ outcome[q] # "interrupt"
<1>1. Cli \subseteq Runs /\ \A q \in Cli : Told(q)
  BY HostAssumption DEF CutIsTold
<1>2. ASSUME NEW w \in Workers, WorkerStep(w) \/ AgentEnds(w) PROVE CutIsTold'
  <2>1. UNCHANGED <<at, outcome>> /\ pc[w] \notin Over /\ (pc[w] = "queued" => at[RunOf(w)] = "watching")
    BY <1>2, WorkerMoves DEF hostVars
  <2>2. UNCHANGED <<cut, message>> \/ (cut' = cut \cup {w} /\ message' = TRUE)
    <3>1. CASE EndWait(w)
      BY <3>1 DEF EndWait, latch_interrupted
    <3>2. CASE ~EndWait(w)
      BY <1>2, <3>2 DEF WorkerStep, StartTurn, CheckInterrupted, Spawn, RegisterProcess, AgentKilled,
                        AgentEnds, Reserve, RegisterWait, CheckSlice, SleepSlice, ReplayTurn, waitVars,
                        latchVars
    <3> QED BY <3>1, <3>2
  <2>3. ASSUME NEW q \in Runs, w \in Crew[q] PROVE outcome[q] = "none"
    BY <2>1, <2>3 DEF CrewsAreOver, OutcomesAreLast
  <2>4. LiveRuns' = LiveRuns
    BY <2>1 DEF LiveRuns
  <2>5. ASSUME NEW q \in Cli, (Crew[q] \cap cut # {})' PROVE (q \in LiveRuns => message)' /\ outcome'[q] # "interrupt"
    BY <1>1, <2>1, <2>2, <2>3, <2>4, <2>5
  <2> QED BY <2>5 DEF CutIsTold
<1>3. ASSUME NEW r \in Runs, EnterRun(r) \/ LeaveCli(r) PROVE CutIsTold'
  <2>1. UNCHANGED <<cut, outcome>> /\ \A s \in Runs \ {r} : at'[s] = at[s]
    BY <1>3 DEF EnterRun, LeaveCli, HostGoto, waitVars, TypeOK
  <2>2. at'[r] = "gone" \/ Crew[r] \cap cut = {}
    <3>1. CASE LeaveCli(r)
      BY <3>1 DEF LeaveCli, HostGoto, TypeOK
    <3>2. CASE EnterRun(r)
      <4>1. \A w \in Crew[r] : pc[w] = "queued"
        BY <3>2 DEF EnterRun, CrewsAreOver
      <4> QED BY <4>1 DEF CutTurnsStopped
    <3> QED BY <1>3, <3>1, <3>2
  <2>3. CASE UNCHANGED latchVars
    <3>1. ASSUME NEW q \in Cli, Crew[q] \cap cut # {} PROVE (q \in LiveRuns => message)' /\ outcome'[q] # "interrupt"
      BY <1>1, <2>1, <2>2, <2>3, <3>1 DEF LiveRuns, latchVars
    <3> QED BY <2>1, <3>1 DEF CutIsTold
  <2>4. CASE \A s \in Runs \ {r} : at[s] \in {"unborn", "closed", "gone"}
    <3>1. ASSUME NEW q \in Cli, Crew[q] \cap cut # {} PROVE (q \in LiveRuns => message)' /\ outcome'[q] # "interrupt"
      BY <1>1, <2>1, <2>2, <2>4, <3>1 DEF LiveRuns
    <3> QED BY <2>1, <3>1 DEF CutIsTold
  <2> QED BY <1>3, <2>3, <2>4, ClearedWhenIdle
<1>4. ASSUME NEW r \in Runs, HostStep(r), ~LeaveCli(r) PROVE CutIsTold'
  <2>1. UNCHANGED cut /\ (message => message') /\ LiveRuns' \subseteq LiveRuns
    <3>1. UNCHANGED cut /\ at[r] # "unborn" /\ \A s \in Runs \ {r} : at'[s] = at[s]
      BY <1>4, HostMoves, PlacesMove
    <3>2. message => message'
      BY <1>4 DEF HostStep, CollectResults, ClassifyInterrupt, ExitRun, LatchMessage, SetCancelEvent,
                  RefuseSpawns, KillAgent, ShutDown, JoinWorkers, latchVars
    <3>3. at[r] \in {"closed", "gone"} => FALSE
      BY <1>4 DEF HostStep, CollectResults, ClassifyInterrupt, ExitRun, LatchMessage, SetCancelEvent,
                  RefuseSpawns, KillAgent, ShutDown, JoinWorkers
    <3> QED BY <3>1, <3>2, <3>3 DEF LiveRuns
  <2>2. \A q \in Cli \ {r} : outcome'[q] = outcome[q]
    <3>1. UNCHANGED outcome \/ \E o \in {"ok", "error", "quota", "interrupt"} :
                                  outcome' = [outcome EXCEPT ![r] = o]
      BY <1>4, HostMoves, Zenon
    <3> QED BY <1>1, <3>1 DEF TypeOK
  <2>3. ASSUME r \in Cli, Crew[r] \cap cut # {} PROVE outcome'[r] # "interrupt"
    <3>1. CASE ClassifyInterrupt(r)
      <4>1. message
        BY <1>1, <2>3, <3>1 DEF ClassifyInterrupt, LiveRuns
      <4> QED BY <2>3, <3>1, <4>1 DEF ClassifyInterrupt, TypeOK
    <3>2. CASE CollectResults(r)
      BY <3>2 DEF CollectResults, TypeOK
    <3>3. CASE UNCHANGED outcome
      BY <1>1, <2>3, <3>3
    <3> QED BY <1>4, <3>1, <3>2, <3>3 DEF HostStep, ExitRun, LatchMessage, SetCancelEvent, RefuseSpawns,
                                          KillAgent, ShutDown, JoinWorkers, hostVars
  <2>4. ASSUME NEW q \in Cli, Crew[q] \cap cut # {} PROVE (q \in LiveRuns => message)' /\ outcome'[q] # "interrupt"
    BY <1>1, <2>1, <2>2, <2>3, <2>4
  <2> QED BY <2>1, <2>4 DEF CutIsTold
<1>5. ASSUME NEW r \in Runs, Raise(r) PROVE CutIsTold'
  <2>1. UNCHANGED outcome /\ at[r] = "watching"
    BY <1>5, RaiseOnce
  <2>2. UNCHANGED <<cut, message>> \/ (message' = TRUE /\ \E w \in Crew[r] : cut' = cut \cup {w})
    BY <1>5, RaiseOnce
  <2>3. LiveRuns' = LiveRuns
    <3>1. UNCHANGED at \/ HostGoto(r, "caught") \/ HostGoto(r, "escaping")
      BY <1>5, RaiseOnce
    <3> QED BY <2>1, <3>1 DEF HostGoto, LiveRuns, TypeOK
  <2>4. outcome[r] = "none"
    BY <2>1 DEF OutcomesAreLast
  <2>5. \A q \in Cli : q # r => Crew[q] \cap Crew[r] = {}
    BY <1>1, CrewAssumption
  <2>6. ASSUME NEW q \in Cli, (Crew[q] \cap cut # {})' PROVE (q \in LiveRuns => message)' /\ outcome'[q] # "interrupt"
    BY <1>1, <2>1, <2>2, <2>3, <2>4, <2>5, <2>6
  <2> QED BY <2>6 DEF CutIsTold
<1>6. CASE UNCHANGED vars
  BY <1>6 DEF CutIsTold, LiveRuns, vars, hostVars, waitVars, latchVars
<1> QED BY <1>2, <1>3, <1>4, <1>5, <1>6, Zenon DEF Next, HostStep, Sigint, Sigterm

(* A command one of whose waits was cut short never ends as a plain        *)
(* interrupt: it says that the quota wait was interrupted and leaves with  *)
(* the resumable exit code (cli.main's except KeyboardInterrupt).          *)
THEOREM CutWaitsAreQuotaStops ==
  ASSUME OneSignal, CommandsAreAlone PROVE Spec => []CutWaitIsAQuotaStop
<1> DEFINE Inv == RunInv /\ CutInv
<1>1. Init => Inv
  <2>1. Init => OutcomesAreLast /\ CutTurnsStopped
    BY DEF Init, OutcomesAreLast, CutTurnsStopped
  <2>2. Init => CutIsTold
    BY DEF Init, CutIsTold
  <2> QED BY <2>1, <2>2, RunInit DEF CutInv
<1>2. Inv /\ [Next]_vars => Inv'
  BY RunStep, OutcomeStep, CutStep, ToldStep DEF CutInv
<1>3. Inv => CutWaitIsAQuotaStop
  BY DEF CutInv, CutIsTold, CutWaitIsAQuotaStop
<1> QED BY <1>1, <1>2, <1>3, PTL DEF Spec

-----------------------------------------------------------------------------
(* The budget of a run *)

(* What a run was granted is what its budget has used, while it is open.   *)
LEMMA BudgetStep ==
  ASSUME OneSignal, RunInv, BudgetIsKept, [Next]_vars
  PROVE  BudgetIsKept'
<1> USE DEF RunInv, TypeInv
<1>1. ASSUME NEW w \in Workers, NEW reset \in Resets, Reserve(w, reset) PROVE BudgetIsKept'
  <2> DEFINE r == RunOf(w)
             s == reset + Margin
             b == [waits |-> budget[r].waits + 1, seconds |-> budget[r].seconds + s]
             g == [waits |-> granted[r].waits + 1, seconds |-> granted[r].seconds + s]
  <2>1. UNCHANGED at /\ pc[w] = "limited"
    BY <1>1 DEF Reserve, hostVars
  <2>2. r \in Runs /\ w \in Crew[r]
    BY OneRun
  <2>3. granted[r] = budget[r]
    BY <2>1, <2>2 DEF CrewsAreOver, BudgetIsKept, Over
  <2>4. CASE UNCHANGED <<budget, granted>>
    BY <2>1, <2>4 DEF BudgetIsKept
  <2>5. CASE Fits(budget[r], s) /\ budget' = [budget EXCEPT ![r] = b] /\ granted' = [granted EXCEPT ![r] = g]
    <3>1. budget[r] \in [waits : Nat, seconds : Nat] /\ MaxWaits \in Nat /\ Limit \in Nat /\ s \in Nat
      BY <2>2, WaitAssumption DEF TypeOK
    <3>2. b = g /\ Within(b)
      BY <2>3, <2>5, <3>1 DEF Fits, Within
    <3> HIDE DEF b, g
    <3>3. budget'[r] = b /\ granted'[r] = b /\ \A q \in Runs \ {r} : budget'[q] = budget[q] /\ granted'[q] = granted[q]
      BY <2>2, <2>5, <3>2 DEF TypeOK
    <3> QED BY <2>1, <3>2, <3>3 DEF BudgetIsKept
  <2> QED BY <1>1, <2>4, <2>5 DEF Reserve
<1>2. ASSUME NEW w \in Workers, WorkerStep(w) \/ AgentEnds(w), ~\E reset \in Resets : Reserve(w, reset)
      PROVE  BudgetIsKept'
  <2>1. UNCHANGED <<at, budget, granted>>
    BY <1>2 DEF WorkerStep, StartTurn, CheckInterrupted, Spawn, RegisterProcess, AgentKilled, AgentEnds,
                RegisterWait, CheckSlice, SleepSlice, EndWait, ReplayTurn, waitVars, hostVars
  <2> QED BY <2>1 DEF BudgetIsKept
<1>3. ASSUME NEW r \in Runs, HostStep(r) PROVE BudgetIsKept'
  <2>1. /\ \A q \in Runs \ {r} : at'[q] = at[q]
        /\ at'[r] \notin {"closing", "closed", "gone"} => at[r] \notin {"closing", "closed", "gone"}
    BY <1>3, PlacesMove
  <2>2. UNCHANGED granted
    BY <1>3, HostMoves
  <2>3. CASE UNCHANGED budget /\ (at'[r] \notin {"closed", "gone"} => at[r] \notin {"closed", "gone"})
    BY <2>1, <2>2, <2>3 DEF BudgetIsKept
  <2>4. CASE budget' = [budget EXCEPT ![r] = Unused] /\ at'[r] \in {"closed", "gone"}
    <3>1. Within(Unused)
      BY WaitAssumption DEF Within, Unused
    <3>2. budget'[r] = Unused /\ \A q \in Runs \ {r} : budget'[q] = budget[q]
      BY <2>4 DEF TypeOK
    <3> QED BY <2>1, <2>2, <2>4, <3>1, <3>2 DEF BudgetIsKept
  <2>5. at'[r] \notin {"closed", "gone"} => at[r] \notin {"closed", "gone"}
    BY <1>3, HostMoves DEF HostGoto, BeginJoin, Handling, TypeOK
  <2>6. UNCHANGED budget \/ (budget' = [budget EXCEPT ![r] = Unused] /\ at'[r] \in {"closed", "gone"})
    <3>1. CASE ExitRun(r)
      BY <3>1 DEF ExitRun, HostGoto, TypeOK
    <3>2. CASE ~ExitRun(r)
      BY <1>3, <3>2 DEF HostStep, CollectResults, ClassifyInterrupt, LeaveCli, LatchMessage, SetCancelEvent,
                        RefuseSpawns, KillAgent, ShutDown, JoinWorkers, waitVars
    <3> QED BY <3>1, <3>2
  <2> QED BY <2>3, <2>4, <2>5, <2>6
<1>4. ASSUME NEW r \in Runs, Raise(r) PROVE BudgetIsKept'
  <2>1. UNCHANGED <<budget, granted>> /\ at[r] = "watching"
    BY <1>4, RaiseOnce
  <2>2. \A q \in Runs : at[q] \in {"closed", "gone"} => at'[q] = at[q]
    <3>1. UNCHANGED at \/ HostGoto(r, "caught") \/ HostGoto(r, "escaping")
      BY <1>4, RaiseOnce
    <3> QED BY <2>1, <3>1 DEF HostGoto, TypeOK
  <2> QED BY <2>1, <2>2 DEF BudgetIsKept
<1>5. ASSUME NEW r \in Runs, EnterRun(r) PROVE BudgetIsKept'
  <2>1. UNCHANGED <<budget, granted>> /\ \A q \in Runs : at[q] \in {"closed", "gone"} => at'[q] = at[q]
    BY <1>5 DEF EnterRun, HostGoto, waitVars, TypeOK
  <2> QED BY <2>1 DEF BudgetIsKept
<1>6. CASE UNCHANGED vars
  BY <1>6 DEF BudgetIsKept, vars, hostVars, waitVars
<1> QED BY <1>1, <1>2, <1>3, <1>4, <1>5, <1>6 DEF Next, Sigint, Sigterm

(* A run, all its turns together, is granted at most MaxWaits waits and at *)
(* most Limit seconds of waiting, however its turns race for the budget    *)
(* and however often the limit comes back (try_reserve): the finalizer     *)
(* drops the budget of a run only when no turn of it can ask again.        *)
THEOREM BudgetIsNeverOverdrawn == ASSUME OneSignal PROVE Spec => []BudgetHolds
<1> DEFINE Inv == RunInv /\ BudgetIsKept
<1>1. Init => Inv
  <2>1. Init => BudgetIsKept
    BY WaitAssumption DEF Init, BudgetIsKept, Within, Unused
  <2> QED BY <2>1, RunInit
<1>2. Inv /\ [Next]_vars => Inv'
  BY RunStep, BudgetStep
<1>3. Inv => BudgetHolds
  BY DEF BudgetIsKept, BudgetHolds, Within
<1> QED BY <1>1, <1>2, <1>3, PTL DEF Spec
=============================================================================
