----------------------------- MODULE AgentTurn -----------------------------
(***************************************************************************)
(* One validated turn of an agent: the program sends a prompt, judges what  *)
(* comes back and decides whether to send another one.  Six recoveries nest *)
(* in the same loop, each with an allowance of its own: ordinary retries,   *)
(* one correction of the reviewer, coder or planner, one replay after the   *)
(* executable was replaced, one resumption of a backgrounded completion,    *)
(* waits for a quota reset, and (Antigravity) the fallback chain of models. *)
(* Modelled:                                                                *)
(*   validated_agent.py   _run_validated_agent_in_scope                     *)
(*   antigravity.py       AntigravityAttemptState and the quota memory      *)
(*   quota_wait.py        the budget of waits, without their threads (see   *)
(*                        Interrupt)                                        *)
(* An answer is what the loop makes of it.  Normalisations and the repair   *)
(* chain are part of the judgement of the answer they start from.           *)
(***************************************************************************)
EXTENDS Naturals, Sequences

CONSTANTS
  Groups,    \* quota groups of the provider's models
  Chains,    \* the model chains, as the groups of their models
  Retries,   \* agent_max_retries
  MaxWaits,  \* quota waits of a logical run (2 in the code)
  MaxPeers   \* quota groups that other turns of the run find exhausted

ASSUME RetriesAssumption == Retries \in Nat
ASSUME MaxWaitsAssumption == MaxWaits \in Nat
ASSUME MaxPeersAssumption == MaxPeers \in Nat
ASSUME ChainsAssumption == \A c \in Chains : c \in Seq(Groups)

VARIABLES
  chain,     \* the chain of an Antigravity turn, <<>> for another backend
  kind,      \* what the turn is for
  pc,
  attempt,   \* prompts sent so far, the current one included
  ceiling,   \* max_attempts
  retries,   \* ordinary retries spent
  used,      \* one-shot recoveries spent
  pending,   \* what the next prompt has to say beyond the turn's own
  replay,    \* the dispatch to be repeated after a quota wait
  dispatch,  \* the last dispatch
  time,      \* timeout of the next dispatch
  reopened,  \* quota_dispatches_since_wait
  waits,     \* waits that the run's budget has granted to the turn
  model,     \* index in the chain
  jumps,     \* cross-group fallbacks since the last wait
  memory,    \* what the run knows of each quota group
  peers,     \* exhaustions found by other turns
  capture,   \* attempt whose plan candidate is kept for a later replan
  outcome

vars == <<chain, kind, pc, attempt, ceiling, retries, used, pending, replay,
          dispatch, time, reopened, waits, model, jumps, memory, peers, capture,
          outcome>>

fixed == <<chain, kind>>
quota == <<waits, reopened, ceiling, replay, jumps, memory>>

Kinds == {"plan", "review", "coder", "other"}
NoDispatch == [ask |-> "none", session |-> "own", time |-> "full"]

(* The correction a caller opts in to, outside the retries.                 *)
Correction(k) ==
  CASE k = "plan" -> "matrix"
    [] k = "review" -> "reask"
    [] k = "coder" -> "evidence"
    [] OTHER -> "none"

Corrections == {"matrix", "reask", "evidence"}

\* Turns whose answer must carry the architecture-impact contract.
Contracted == {"plan", "coder"}

\* The groups of the turn's own chain.
Mine == {chain[i] : i \in DOMAIN chain}

(***************************************************************************)
(* The fallback chain.                                                     *)
(***************************************************************************)
Eligible == {i \in DOMAIN chain : memory[chain[i]] = "open"}
First(S) == CHOOSE i \in S : \A j \in S : i <= j
AllParsed(m) == \A g \in Mine : m[g] = "parsed"

\* Every group that may serve by now does when the sleeper wakes, one at least.
Woken(m) ==
  {[g \in Groups |-> IF g \in S THEN "open" ELSE m[g]] : S \in SUBSET Mine \ {{}}}

(***************************************************************************)
(* The end of an iteration.                                                *)
(***************************************************************************)
Finish(o) == pc' = "done" /\ outcome' = o

Again == pc' = "loop" /\ UNCHANGED outcome

(* Mutant of NextAfterFailure: one retry too many.                          *)
RetryOnceMore(capacity) ==
  /\ IF retries <= Retries
     THEN retries' = retries + 1 /\ Again
     ELSE UNCHANGED retries /\ Finish("failed")
  /\ UNCHANGED model

(* A retryable failure: the retries first, then the later models of the     *)
(* chain, and these only when the provider had no capacity.                 *)
NextAfterFailure(capacity) ==
  LET later == {i \in Eligible : i > model}
  IN IF retries < Retries
     THEN retries' = retries + 1 /\ Again /\ UNCHANGED model
     ELSE /\ UNCHANGED retries
          /\ IF capacity /\ later # {}
             THEN model' = First(later) /\ Again
             ELSE Finish("failed") /\ UNCHANGED model

(* A wait renews the attempts that ran into the quota.                      *)
WaitForReset(count) ==
  /\ waits < MaxWaits
  /\ waits' = waits + 1
  /\ ceiling' = ceiling + count
  /\ reopened' = 0

(* Mutant of Allowance: no slot for the correction.                         *)
AllowanceShared == Len(chain) + Retries + 2

(* max_attempts: every model, the retries, the replay after a replacement   *)
(* and the correction.                                                      *)
Allowance == Len(chain) + Retries + 2 + (IF kind = "other" THEN 0 ELSE 1)

-----------------------------------------------------------------------------
Init ==
  /\ chain \in Chains
  /\ kind \in Kinds
  /\ pc = "loop"
  /\ attempt = 0
  /\ ceiling = Allowance
  /\ retries = 0
  /\ used = {}
  /\ pending = {}
  /\ replay = NoDispatch
  /\ dispatch = NoDispatch
  /\ time = "full"
  /\ reopened = 0
  /\ waits = 0
  /\ memory \in [Groups -> {"open", "parsed", "cooldown"}]
  /\ \A g \in Groups \ Mine : memory[g] = "open"
  /\ model = IF Eligible = {} THEN 1 ELSE First(Eligible)
  /\ jumps = 0
  /\ peers = 0
  /\ capture = 0
  /\ outcome = "none"

(* while attempt < max_attempts                                             *)
Begin ==
  /\ pc = "loop"
  /\ attempt < ceiling
  /\ attempt' = attempt + 1
  /\ pc' = "begun"
  /\ UNCHANGED <<fixed, quota, retries, used, pending, dispatch, time, model,
                 peers, capture, outcome>>

CutOff ==
  /\ pc = "loop"
  /\ attempt >= ceiling
  /\ Finish("cutoff")
  /\ UNCHANGED <<fixed, quota, attempt, retries, used, pending, dispatch, time,
                 model, peers, capture>>

Unreachable == chain # <<>> /\ Eligible = {}

StopError == IF AllParsed(memory) THEN "quota" ELSE "unavailable"

(* No group serves: wait once without having sent anything, or stop.        *)
WaitBeforeDispatch ==
  /\ pc = "begun"
  /\ Unreachable
  /\ AllParsed(memory)
  /\ WaitForReset(reopened)
  /\ memory' \in Woken(memory)
  /\ pc' = "woken"
  /\ UNCHANGED <<fixed, attempt, retries, used, pending, replay, dispatch, time,
                 model, jumps, peers, capture, outcome>>

(* Mutant of StopBeforeDispatch: after the wait it waits on.                *)
StopUnlessWoken ==
  /\ pc = "begun"
  /\ Unreachable
  /\ Finish(StopError)
  /\ UNCHANGED <<fixed, quota, attempt, retries, used, pending, dispatch, time,
                 model, peers, capture>>

StopBeforeDispatch ==
  /\ pc \in {"begun", "woken"}
  /\ Unreachable
  /\ Finish(StopError)
  /\ UNCHANGED <<fixed, quota, attempt, retries, used, pending, dispatch, time,
                 model, peers, capture>>

(* The corrections build on the turn's own prompt, and only the evidence    *)
(* correction resumes the session of the rejected answer.                   *)
Ask ==
  IF "evidence" \in pending THEN "evidence"
  ELSE IF "matrix" \in pending THEN "matrix"
  ELSE IF "reask" \in pending THEN "reask"
  ELSE IF "contract" \in pending THEN "contract"
  ELSE "own"

(* Mutant of Send: builds the prompt of a replay again.                     *)
SendAnew ==
  /\ pc \in {"begun", "woken"}
  /\ ~Unreachable
  /\ model' = IF chain = <<>> \/ model \in Eligible THEN model ELSE First(Eligible)
  /\ dispatch' = [ask |-> Ask,
                  session |-> IF Ask = "evidence" THEN "rejected" ELSE "own",
                  time |-> time]
  /\ pending' = IF replay # NoDispatch THEN pending \ {"contract"} ELSE {}
  /\ replay' = NoDispatch
  /\ time' = "full"
  /\ pc' = "running"
  /\ UNCHANGED <<fixed, attempt, ceiling, retries, used, reopened, waits, jumps,
                 memory, peers, capture, outcome>>

Send ==
  /\ pc \in {"begun", "woken"}
  /\ ~Unreachable
  /\ model' = IF chain = <<>> \/ model \in Eligible THEN model ELSE First(Eligible)
  /\ dispatch' = IF replay # NoDispatch THEN replay
                 ELSE [ask |-> Ask,
                       session |-> IF Ask = "evidence" THEN "rejected" ELSE "own",
                       time |-> time]
  /\ pending' = IF replay # NoDispatch THEN pending \ {"contract"} ELSE {}
  /\ replay' = NoDispatch
  /\ time' = "full"
  /\ pc' = "running"
  /\ UNCHANGED <<fixed, attempt, ceiling, retries, used, reopened, waits, jumps,
                 memory, peers, capture, outcome>>

-----------------------------------------------------------------------------
(***************************************************************************)
(* What comes back.  Each answer drops the plan candidate of the one before.*)
(***************************************************************************)
Returned == pc = "running" /\ UNCHANGED <<fixed, attempt, dispatch, peers>>

\* The lock on the shared settings of Antigravity: waited for once more.
LockWaitExpires ==
  /\ Returned
  /\ chain # <<>>
  /\ IF "lock" \in used
     THEN Finish("unavailable") /\ UNCHANGED used
     ELSE used' = used \cup {"lock"} /\ UNCHANGED <<pc, outcome>>
  /\ UNCHANGED <<quota, retries, pending, time, model, capture>>

(* A valid response, the artifact of a failed command and a text that the   *)
(* normalisations or the repair make valid included.                        *)
Accept ==
  /\ Returned
  /\ capture' = 0
  /\ Finish("accepted")
  /\ UNCHANGED <<quota, retries, used, pending, time, model>>

(* Mutant of FailForGood: keeps the candidate of an earlier answer.         *)
FailKeepingCandidate ==
  /\ Returned
  /\ Finish("failed")
  /\ UNCHANGED <<quota, retries, used, pending, time, model, capture>>

(* Exhausted resources, an unconfirmed cleanup, a timeout, a provider that  *)
(* refuses for good, an answer that its canonical form contradicts.         *)
FailForGood ==
  /\ Returned
  /\ capture' = 0
  /\ Finish("failed")
  /\ UNCHANGED <<quota, retries, used, pending, time, model>>

(* The executable changed under the command.  A stable one is tried again   *)
(* at once, Claude in the time that is left; otherwise it is one more       *)
(* retryable failure.                                                       *)
ReplaceExecutable ==
  /\ Returned
  /\ "replacement" \notin used
  /\ used' = used \cup {"replacement"}
  /\ capture' = 0
  /\ \/ /\ pending' = {"replacement"}
        /\ time' \in IF chain = <<>> THEN {"full", "rest"} ELSE {"full"}
        /\ Again
        /\ UNCHANGED <<retries, model>>
     \/ NextAfterFailure(FALSE) /\ UNCHANGED <<pending, time>>
  /\ UNCHANGED quota

(* Transient errors, and answers that only a new one can replace: no review *)
(* in a review, no recommendation in a plan, a patch that nothing repairs.  *)
FailTransiently ==
  /\ Returned
  /\ capture' = 0
  /\ NextAfterFailure(FALSE)
  /\ UNCHANGED <<quota, used, pending, time>>

LoseCapacity ==
  /\ Returned
  /\ chain # <<>>
  /\ capture' = 0
  /\ NextAfterFailure(TRUE)
  /\ UNCHANGED <<quota, used, pending, time>>

(* The quota of another backend resets late: wait for it and repeat the     *)
(* dispatch, or stop (the wait is off, does not fit or is interrupted).     *)
HitQuota ==
  /\ Returned
  /\ chain = <<>>
  /\ capture' = 0
  /\ \/ WaitForReset(reopened + 1) /\ replay' = dispatch /\ Again
     \/ Finish("quota") /\ UNCHANGED <<waits, ceiling, reopened, replay>>
  /\ UNCHANGED <<retries, used, pending, time, model, jumps, memory>>

(* The quota group of the model is exhausted: jump to another group once,   *)
(* then wait for all of them or stop.                                       *)
ExhaustGroup ==
  /\ Returned
  /\ chain # <<>>
  /\ capture' = 0
  /\ \E source \in {"parsed", "cooldown"} :
       LET group == chain[model]
           known == [memory EXCEPT ![group] = source]
           others == {i \in Eligible : chain[i] # group}
       IN IF jumps = 0 /\ others # {}
          THEN /\ model' = First(others)
               /\ jumps' = 1
               /\ reopened' = reopened + 1
               /\ memory' = known
               /\ Again
               /\ UNCHANGED <<waits, ceiling, replay>>
          ELSE /\ UNCHANGED model
               /\ \/ /\ AllParsed(known)
                     /\ WaitForReset(reopened + 1)
                     /\ memory' \in Woken(known)
                     /\ replay' = dispatch
                     /\ jumps' = 0
                     /\ Again
                  \/ /\ memory' = known
                     /\ Finish(IF AllParsed(known) THEN "quota" ELSE "unavailable")
                     /\ UNCHANGED <<waits, ceiling, reopened, replay, jumps>>
  /\ UNCHANGED <<retries, used, pending, time>>

\* Only a plan's candidate is kept for a replan, and not an artifact's.
Captured == IF kind = "plan" THEN {0, attempt} ELSE {0}

(* Only the contract of the answer is missing: one ordinary retry that      *)
(* names the field.                                                         *)
RefuseContract ==
  /\ Returned
  /\ kind \in Contracted
  /\ capture' \in Captured
  /\ pending' = {"contract"}
  /\ NextAfterFailure(FALSE)
  /\ UNCHANGED <<quota, used, time>>

(* Judgement or evidence is missing that no repair may supply: the agent is *)
(* asked once more, outside the retries.                                    *)
CorrectOnce ==
  /\ Returned
  /\ kind # "other"
  /\ Correction(kind) \notin used
  /\ used' = used \cup {Correction(kind)}
  /\ pending' = {Correction(kind)}
  /\ capture' \in Captured
  /\ Again
  /\ UNCHANGED <<quota, retries, time, model>>

(* An invalid answer that neither repair nor a correction helps.  A repair  *)
(* that fails itself takes the candidate with it.                           *)
RejectAnswer ==
  /\ Returned
  /\ capture' \in Captured
  /\ Finish("failed")
  /\ UNCHANGED <<quota, retries, used, pending, time, model>>

(* The coder left its work in the background: resume the session once.      *)
ResumeCompletion ==
  /\ Returned
  /\ kind = "coder"
  /\ chain = <<>>
  /\ "recovery" \notin used
  /\ used' = used \cup {"recovery"}
  /\ capture' = 0
  /\ \/ Finish("accepted") /\ UNCHANGED <<pending, retries, model>>
     \/ Finish("failed") /\ UNCHANGED <<pending, retries, model>>
     \/ pending' = {"contract"} /\ NextAfterFailure(FALSE)
  /\ UNCHANGED <<quota, time>>

-----------------------------------------------------------------------------
(* Time passes, and other turns of the run share the memory of the groups.  *)
GroupReopens(g) ==
  /\ pc # "done"
  /\ memory[g] # "open"
  /\ memory' = [memory EXCEPT ![g] = "open"]
  /\ UNCHANGED <<fixed, pc, attempt, ceiling, retries, used, pending, replay,
                 dispatch, time, reopened, waits, model, jumps, peers, capture,
                 outcome>>

PeerExhausts(g) ==
  /\ pc # "done"
  /\ peers < MaxPeers
  /\ peers' = peers + 1
  /\ memory[g] = "open"
  /\ \E source \in {"parsed", "cooldown"} :
       memory' = [memory EXCEPT ![g] = source]
  /\ UNCHANGED <<fixed, pc, attempt, ceiling, retries, used, pending, replay,
                 dispatch, time, reopened, waits, model, jumps, capture, outcome>>

Turn ==
  \/ Begin \/ CutOff \/ WaitBeforeDispatch \/ StopBeforeDispatch \/ Send
  \/ LockWaitExpires \/ Accept \/ FailForGood \/ ReplaceExecutable
  \/ FailTransiently \/ LoseCapacity \/ HitQuota \/ ExhaustGroup
  \/ RefuseContract \/ CorrectOnce \/ RejectAnswer \/ ResumeCompletion

Memory == \E g \in Mine : GroupReopens(g) \/ PeerExhausts(g)

Next == Turn \/ Memory

Spec == Init /\ [][Next]_vars

\* The program goes on, and every agent answers or is stopped at its timeout.
FairSpec == Spec /\ WF_vars(Turn)

-----------------------------------------------------------------------------
Asks == Corrections \cup {"own", "contract"}
Dispatches ==
  [ask : Asks \cup {"none"}, session : {"own", "rejected"}, time : {"full", "rest"}]

(* Every variable has its type.                                             *)
TypeOK ==
  /\ chain \in Chains
  /\ kind \in Kinds
  /\ pc \in {"loop", "begun", "woken", "running", "done"}
  /\ attempt \in Nat /\ ceiling \in Nat
  /\ retries \in 0 .. Retries
  /\ used \subseteq Corrections \cup {"replacement", "recovery", "lock"}
  /\ pending \subseteq Corrections \cup {"contract", "replacement"}
  /\ replay \in Dispatches /\ dispatch \in Dispatches
  /\ time \in {"full", "rest"}
  /\ reopened \in Nat
  /\ waits \in 0 .. MaxWaits
  /\ model \in Nat
  /\ jumps \in 0 .. 1
  /\ memory \in [Groups -> {"open", "parsed", "cooldown"}]
  /\ peers \in 0 .. MaxPeers
  /\ capture \in Nat
  /\ outcome \in {"none", "accepted", "failed", "quota", "unavailable", "cutoff"}

(* The bound of the loop cuts nothing off: whatever retry, correction or     *)
(* replay was granted has an attempt left, and on any backend so has the     *)
(* dispatch that is repeated after a wait for the quota (max_attempts of     *)
(* _run_validated_agent_in_scope, #1601).  The fallback chain of Antigravity *)
(* may use an attempt that a retry or a correction was granted.              *)
NothingIsCutOff == outcome = "cutoff" => chain # <<>> /\ replay = NoDispatch

(* What is sent after the wait is what ran into the quota, a correction and *)
(* its session included (docs/local_agent_loop.md:10024, "the same effective*)
(* prompt, session ID, timeout and settings").                              *)
ReplayIsExact == [][replay # NoDispatch /\ pc' = "running" => dispatch' = dispatch]_vars

(* The candidate handed to the replan is the answer of the last attempt     *)
(* (plan_validation_capture_eligible, "prevents a stale typed candidate").  *)
CaptureIsLast ==
  outcome \in {"failed", "cutoff"} /\ capture # 0 => capture = attempt

(* A turn ends, however its recoveries nest.                                *)
TurnEnds == <>(pc = "done")
=============================================================================
