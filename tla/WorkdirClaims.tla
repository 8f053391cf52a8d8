--------------------------- MODULE WorkdirClaims ---------------------------
(***************************************************************************)
(* Run-scoped claims on agent checkouts (workdir_claims.py).               *)
(*                                                                         *)
(* A run claims every checkout it uses before it resets, cleans or         *)
(* dispatches anything in it.  A claim is a non-blocking flock on a lock   *)
(* file per checkout, a holder record written next to it, and an entry in  *)
(* the registry of the hosting process.  The registry is guarded by a      *)
(* mutex of the process; the lock files and the holder records are shared  *)
(* by every process of the host, so the steps of two processes interleave  *)
(* between the flock, the write of the record, its removal and the unlock. *)
(*                                                                         *)
(* A crash releases the flocks of a process (the kernel closes its         *)
(* descriptors) and leaves its holder records on disk.                     *)
(***************************************************************************)
EXTENDS Sequences, FiniteSets, Integers

CONSTANTS
  Runs,     \* logical runs (ClaimOwner); run_id is unique, so a run never recurs
  Procs,    \* operating-system processes
  Paths,    \* resolved checkout paths (claim keys)
  Host,     \* the process that hosts each run
  Wants,    \* the claim lists a run may ask for, in agent-name order
  MaxCalls, \* bound on the claim calls of one run (the CLI's and the nested loops')
  NoRun     \* no holder

ASSUME RunsAssumption == IsFiniteSet(Runs)
ASSUME HostAssumption == Host \in [Runs -> Procs]
ASSUME WantsAssumption == Wants \in [Runs -> SUBSET Seq(Paths)]
ASSUME MaxCallsAssumption == MaxCalls \in Nat
ASSUME NoRunAssumption == NoRun \notin Runs

VARIABLES
  flock,     \* holder of each lock file: <<"claim" or "probe", run>>
  meta,      \* the run named by each holder record on disk
  registry,  \* _registry of each process: the owner of each claimed path
  mutex,     \* _registry_lock of each process
  pc,        \* where each run is
  want,      \* the paths the current claim_agent_workdirs call has still to claim
  taken,     \* the paths that call has newly taken
  releasing, \* the path a run is between unlinking the record of and unlocking
  probing,   \* the path a run probes
  live,      \* _live_runs of each process
  calls,     \* how many claim calls each run has made (bounded by MaxCalls)
  before     \* history: what a run owned when its current claim call began

history == <<calls, before>>
claimVars == <<flock, meta, registry, mutex, want, taken, releasing, history>>
vars == <<flock, meta, registry, mutex, pc, want, taken, releasing, probing,
          live, history>>

Free == <<"free", NoRun>>
Claim(r) == <<"claim", r>>
Probe(r) == <<"probe", r>>

(* The runs of a process inside their outermost scope.                     *)
Open(h) == {r \in Runs : Host[r] = h /\ pc[r] \notin {"idle", "done", "crashed"}}

(* The keys of the registry that belong to a run.                          *)
Owned(r) == {p \in Paths : registry[Host[r]][p] = r}

MutexFree(r) == mutex[Host[r]] = NoRun
MutexMine(r) == mutex[Host[r]] = r

Goto(r, label) == pc' = [pc EXCEPT ![r] = label]

Init ==
  /\ flock = [p \in Paths |-> Free]
  /\ meta = [p \in Paths |-> NoRun]
  /\ registry = [h \in Procs |-> [p \in Paths |-> NoRun]]
  /\ mutex = [h \in Procs |-> NoRun]
  /\ pc = [r \in Runs |-> "idle"]
  /\ want = [r \in Runs |-> <<>>]
  /\ taken = [r \in Runs |-> {}]
  /\ releasing = [r \in Runs |-> {}]
  /\ probing = [r \in Runs |-> {}]
  /\ live = [h \in Procs |-> 0]
  /\ calls = [r \in Runs |-> 0]
  /\ before = [r \in Runs |-> {}]

(***************************************************************************)
(* The outermost scope: entry counts a live run.                           *)
(***************************************************************************)
EnterScope(r) ==
  /\ pc[r] = "idle"
  /\ live' = [live EXCEPT ![Host[r]] = @ + 1]
  /\ Goto(r, "entered")
  /\ UNCHANGED <<claimVars, probing>>

(***************************************************************************)
(* claim_agent_workdirs.  A nested call (a loop that claims the config's   *)
(* checkouts again, or more of them) joins the active owner.               *)
(***************************************************************************)
BeginClaims(r) ==
  /\ pc[r] \in {"entered", "body"}
  /\ probing[r] = {}
  /\ \E list \in Wants[r] : want' = [want EXCEPT ![r] = list]
  /\ taken' = [taken EXCEPT ![r] = {}]
  /\ calls[r] < MaxCalls
  /\ calls' = [calls EXCEPT ![r] = @ + 1]
  /\ before' = [before EXCEPT ![r] = Owned(r)]
  /\ Goto(r, "claiming")
  /\ UNCHANGED <<flock, meta, registry, mutex, releasing, probing, live>>

(* The path is already claimed by the same owner: nothing to do.           *)
AcquireAgain(r) ==
  /\ pc[r] = "claiming" /\ want[r] # <<>> /\ MutexFree(r)
  /\ registry[Host[r]][Head(want[r])] = r
  /\ want' = [want EXCEPT ![r] = Tail(@)]
  /\ UNCHANGED <<flock, meta, registry, mutex, pc, taken, releasing, probing,
                 live, history>>

(* Another owner of this process, or any holder of the lock file.          *)
AcquireRefused(r) ==
  /\ pc[r] = "claiming" /\ want[r] # <<>> /\ MutexFree(r)
  /\ LET p == Head(want[r])
     IN \/ registry[Host[r]][p] \notin {r, NoRun}
        \/ registry[Host[r]][p] = NoRun /\ flock[p] # Free
  /\ Goto(r, "rollback")
  /\ UNCHANGED <<claimVars, probing, live>>

(* Mutant of AcquireLock: the registry alone decides, as if one process.    *)
AcquireWithoutFlock(r) ==
  /\ pc[r] = "claiming" /\ want[r] # <<>> /\ MutexFree(r)
  /\ registry[Host[r]][Head(want[r])] = NoRun
  /\ flock' = [flock EXCEPT ![Head(want[r])] = Claim(r)]
  /\ mutex' = [mutex EXCEPT ![Host[r]] = r]
  /\ Goto(r, "writing")
  /\ UNCHANGED <<meta, registry, want, taken, releasing, probing, live, history>>

(* The flock is taken; the registry mutex stays held until the record is.  *)
AcquireLock(r) ==
  /\ pc[r] = "claiming" /\ want[r] # <<>> /\ MutexFree(r)
  /\ LET p == Head(want[r])
     IN /\ registry[Host[r]][p] = NoRun
        /\ flock[p] = Free
        /\ flock' = [flock EXCEPT ![p] = Claim(r)]
  /\ mutex' = [mutex EXCEPT ![Host[r]] = r]
  /\ Goto(r, "writing")
  /\ UNCHANGED <<meta, registry, want, taken, releasing, probing, live, history>>

(* The holder record is replaced atomically and the claim is registered.   *)
AcquireRegister(r) ==
  /\ pc[r] = "writing"
  /\ LET p == Head(want[r])
     IN /\ meta' = [meta EXCEPT ![p] = r]
        /\ registry' = [registry EXCEPT ![Host[r]][p] = r]
        /\ taken' = [taken EXCEPT ![r] = @ \union {p}]
  /\ want' = [want EXCEPT ![r] = Tail(@)]
  /\ mutex' = [mutex EXCEPT ![Host[r]] = NoRun]
  /\ Goto(r, "claiming")
  /\ UNCHANGED <<flock, releasing, probing, live, history>>

(* The record cannot be written: the handle is closed and OSError raised.  *)
AcquireWriteFails(r) ==
  /\ pc[r] = "writing"
  /\ flock' = [flock EXCEPT ![Head(want[r])] = Free]
  /\ mutex' = [mutex EXCEPT ![Host[r]] = NoRun]
  /\ Goto(r, "rollback")
  /\ UNCHANGED <<meta, registry, want, taken, releasing, probing, live, history>>

ClaimsTaken(r) ==
  /\ pc[r] = "claiming" /\ want[r] = <<>>
  /\ Goto(r, "body")
  /\ UNCHANGED <<claimVars, probing, live>>

(***************************************************************************)
(* _release_claim, under the mutex: the registry entry goes, then the      *)
(* holder record if it still names this run, and only then the flock.      *)
(***************************************************************************)
ReleaseRecord(r, p) ==
  /\ MutexFree(r) \/ MutexMine(r)
  /\ releasing[r] = {}
  /\ registry' = [registry EXCEPT ![Host[r]][p] = NoRun]
  /\ meta' = [meta EXCEPT ![p] = IF @ = r THEN NoRun ELSE @]
  /\ mutex' = [mutex EXCEPT ![Host[r]] = r]
  /\ releasing' = [releasing EXCEPT ![r] = {p}]
  /\ UNCHANGED <<flock, pc, want, probing, live, history>>

ReleaseUnlock(r) ==
  /\ \E p \in releasing[r] : flock' = [flock EXCEPT ![p] = Free]
  /\ releasing' = [releasing EXCEPT ![r] = {}]
  /\ UNCHANGED <<meta, registry, mutex, pc, want, taken, probing, live, history>>

(* The failed claim call releases what it took and raises.                 *)
RollbackOne(r) ==
  /\ pc[r] = "rollback"
  /\ \E p \in taken[r] :
       /\ ReleaseRecord(r, p)
       /\ taken' = [taken EXCEPT ![r] = @ \ {p}]

(* Mutant of RollbackDone: the failed call raises without a rollback.      *)
RaiseWithoutRollback(r) ==
  /\ pc[r] = "rollback" /\ releasing[r] = {}
  /\ MutexFree(r) \/ MutexMine(r)
  /\ mutex' = [mutex EXCEPT ![Host[r]] = NoRun]
  /\ Goto(r, "finalizing")
  /\ UNCHANGED <<flock, meta, registry, want, taken, releasing, probing, live,
                 history>>

RollbackDone(r) ==
  /\ pc[r] = "rollback" /\ taken[r] = {} /\ releasing[r] = {}
  /\ MutexFree(r) \/ MutexMine(r)
  /\ mutex' = [mutex EXCEPT ![Host[r]] = NoRun]
  /\ Goto(r, "finalizing")
  /\ UNCHANGED <<flock, meta, registry, want, taken, releasing, probing, live,
                 history>>

(***************************************************************************)
(* The end of the outermost scope: finalizers first, then every claim of   *)
(* the owner, then the live-run count.                                     *)
(***************************************************************************)
EndBody(r) ==
  /\ pc[r] = "body" /\ probing[r] = {}
  /\ Goto(r, "finalizing")
  /\ UNCHANGED <<claimVars, probing, live>>

RunFinalizers(r) ==
  /\ pc[r] = "finalizing"
  /\ Goto(r, "releasing")
  /\ UNCHANGED <<claimVars, probing, live>>

ReleaseOne(r) ==
  /\ pc[r] = "releasing"
  /\ \E p \in Owned(r) : ReleaseRecord(r, p)
  /\ UNCHANGED taken

(* Mutant of ReleaseDone: the owner's claims are not all released.         *)
LeaveClaimsBehind(r) ==
  /\ pc[r] = "releasing" /\ releasing[r] = {}
  /\ MutexFree(r) \/ MutexMine(r)
  /\ mutex' = [mutex EXCEPT ![Host[r]] = NoRun]
  /\ Goto(r, "exiting")
  /\ UNCHANGED <<flock, meta, registry, want, taken, releasing, probing, live,
                 history>>

(* Mutant of ReleaseDone: the registry mutex is never released.            *)
KeepMutex(r) ==
  /\ pc[r] = "releasing" /\ Owned(r) = {} /\ releasing[r] = {}
  /\ MutexFree(r) \/ MutexMine(r)
  /\ mutex' = [mutex EXCEPT ![Host[r]] = r]
  /\ Goto(r, "exiting")
  /\ UNCHANGED <<flock, meta, registry, want, taken, releasing, probing, live,
                 history>>

ReleaseDone(r) ==
  /\ pc[r] = "releasing" /\ Owned(r) = {} /\ releasing[r] = {}
  /\ MutexFree(r) \/ MutexMine(r)
  /\ mutex' = [mutex EXCEPT ![Host[r]] = NoRun]
  /\ Goto(r, "exiting")
  /\ UNCHANGED <<flock, meta, registry, want, taken, releasing, probing, live,
                 history>>

(* Mutant of ExitScope: a nested scope counts down as well.                *)
ExitScopeTwice(r) ==
  /\ pc[r] = "exiting"
  /\ live' = [live EXCEPT ![Host[r]] = @ - 2]
  /\ Goto(r, "done")
  /\ UNCHANGED <<claimVars, probing>>

ExitScope(r) ==
  /\ pc[r] = "exiting"
  /\ live' = [live EXCEPT ![Host[r]] = @ - 1]
  /\ Goto(r, "done")
  /\ UNCHANGED <<claimVars, probing>>

(***************************************************************************)
(* probe_free_claim: the registry is consulted under the mutex, the lock   *)
(* file is tried after the mutex is released and held for the block.       *)
(***************************************************************************)
ProbeRegistry(r, p) ==
  /\ pc[r] = "body" /\ probing[r] = {} /\ MutexFree(r)
  /\ registry[Host[r]][p] = NoRun
  /\ probing' = [probing EXCEPT ![r] = {p}]
  /\ UNCHANGED <<claimVars, pc, live>>

ProbeLock(r) ==
  /\ \E p \in probing[r] : /\ flock[p] = Free
                           /\ flock' = [flock EXCEPT ![p] = Probe(r)]
  /\ UNCHANGED <<meta, registry, mutex, pc, want, taken, releasing, probing,
                 live, history>>

ProbeBusy(r) ==
  /\ \E p \in probing[r] : flock[p] \notin {Free, Probe(r)}
  /\ probing' = [probing EXCEPT ![r] = {}]
  /\ UNCHANGED <<claimVars, pc, live>>

ProbeEnd(r) ==
  /\ \E p \in probing[r] : /\ flock[p] = Probe(r)
                           /\ flock' = [flock EXCEPT ![p] = Free]
  /\ probing' = [probing EXCEPT ![r] = {}]
  /\ UNCHANGED <<meta, registry, mutex, pc, want, taken, releasing, live, history>>

(* The process dies: its descriptors close, its records stay on disk.      *)
Crash(h) ==
  /\ Open(h) # {}
  /\ flock' = [p \in Paths |->
                 IF flock[p][2] # NoRun /\ Host[flock[p][2]] = h
                   THEN Free ELSE flock[p]]
  /\ registry' = [registry EXCEPT ![h] = [p \in Paths |-> NoRun]]
  /\ mutex' = [mutex EXCEPT ![h] = NoRun]
  /\ live' = [live EXCEPT ![h] = 0]
  /\ pc' = [r \in Runs |-> IF Host[r] = h THEN "crashed" ELSE pc[r]]
  /\ taken' = [r \in Runs |-> IF Host[r] = h THEN {} ELSE taken[r]]
  /\ releasing' = [r \in Runs |-> IF Host[r] = h THEN {} ELSE releasing[r]]
  /\ probing' = [r \in Runs |-> IF Host[r] = h THEN {} ELSE probing[r]]
  /\ UNCHANGED <<meta, want, history>>

(* The steps of a run that the code takes without waiting for an agent.    *)
Unwind(r) ==
  \/ RollbackOne(r) \/ RollbackDone(r) \/ RunFinalizers(r)
  \/ ReleaseOne(r) \/ ReleaseUnlock(r) \/ ReleaseDone(r) \/ ExitScope(r)

Acquire(r) ==
  \/ AcquireAgain(r) \/ AcquireRefused(r) \/ AcquireLock(r)
  \/ AcquireRegister(r) \/ AcquireWriteFails(r) \/ ClaimsTaken(r)

ProbeStep(r) == ProbeLock(r) \/ ProbeBusy(r) \/ ProbeEnd(r)

Next ==
  \/ \E r \in Runs : \/ EnterScope(r) \/ BeginClaims(r) \/ Acquire(r)
                    \/ EndBody(r) \/ Unwind(r) \/ ProbeStep(r)
  \/ \E r \in Runs, p \in Paths : ProbeRegistry(r, p)
  \/ \E h \in Procs : Crash(h)

(* Claim calls, unwinding and probes run to their end unless the process   *)
(* dies; nothing is assumed of the body of a run, which waits for agents.  *)
Fairness == \A r \in Runs : WF_vars(Acquire(r)) /\ WF_vars(Unwind(r))

Spec == Init /\ [][Next]_vars
FairSpec == Spec /\ Fairness

-----------------------------------------------------------------------------
Labels == {"idle", "entered", "claiming", "writing", "rollback", "body",
           "finalizing", "releasing", "exiting", "done", "crashed"}

TypeOK ==
  /\ flock \in [Paths -> {Free} \union ({"claim", "probe"} \X Runs)]
  /\ meta \in [Paths -> Runs \union {NoRun}]
  /\ registry \in [Procs -> [Paths -> Runs \union {NoRun}]]
  /\ mutex \in [Procs -> Runs \union {NoRun}]
  /\ pc \in [Runs -> Labels]
  /\ want \in [Runs -> Seq(Paths)]
  /\ taken \in [Runs -> SUBSET Paths]
  /\ releasing \in [Runs -> SUBSET Paths]
  /\ probing \in [Runs -> SUBSET Paths]
  /\ live \in [Procs -> Nat]
  /\ calls \in [Runs -> Nat]
  /\ before \in [Runs -> SUBSET Paths]

(* A path registered to a run is locked by that run and by no other        *)
(* process, run or probe: two runs never work in one checkout.             *)
ClaimsAreLocked ==
  \A r \in Runs : \A p \in Owned(r) : flock[p] = Claim(r)

(* The holder record of a registered claim names its holder: neither an    *)
(* earlier holder's release nor a contender removes or replaces it.        *)
HolderIsNamed ==
  \A r \in Runs : \A p \in Owned(r) : meta[p] = r

(* A registered claim is its run's alone, in the lock and on the record    *)
(* that names its holder (acquire_workdir_claim, _release_claim).          *)
ClaimsAreExclusive == ClaimsAreLocked /\ HolderIsNamed

(* A run that failed to claim everything ends up with exactly what it      *)
(* owned before the call, and keeps that while its finalizers run.         *)
AllOrNothing ==
  \A r \in Runs :
    pc[r] = "finalizing" /\ want[r] # <<>> => Owned(r) = before[r]

(* A run that left its scope holds no lock file, and the live-run count    *)
(* of a process is the number of its open scopes.                          *)
NothingLeaks ==
  /\ \A p \in Paths : flock[p] # Free =>
       pc[flock[p][2]] \notin {"idle", "exiting", "done", "crashed"}
  /\ \A h \in Procs : live[h] = Cardinality(Open(h))

(* A refused or finished run always gets out of its scope: no run waits    *)
(* for ever for the registry of its process.  (A run unwinds once, so all   *)
(* of them end exactly if again and again none is unwinding.)               *)
UnwindingEnds ==
  []<>(\A r \in Runs : pc[r] \notin {"rollback", "finalizing", "releasing", "exiting"})
=============================================================================
