---------------------------- MODULE ServicesProofs ----------------------------
(***************************************************************************)
(* Proofs about managed exact-head CI, for any heads, intents, runs,       *)
(* attempts, polls and restarts: the ledger of intents stays sound, an     *)
(* attachment is durable, a rerun is judged by its own attempt, and a head *)
(* is merged on a success that was published for it.  At the end, what     *)
(* PlanLoopProofs proves of planning is carried over to the behaviours of  *)
(* MCServices.                                                             *)
(***************************************************************************)
EXTENDS MCServices, TLAPS, WellFoundedInduction

-----------------------------------------------------------------------------
(* The invariant *)

Keys == Attempts \union {None}
States == {"none", "attached", "completed"} \union Early
Entry == [head : Heads \union {NoHead}, gen : Nat, state : States, key : Keys,
          terminals : SUBSET Attempts, last : Keys, noStatus : BOOLEAN]
Contract == [nonce : 0..MaxIntents, head : Heads \union {NoHead}, key : Keys,
             terminals : SUBSET Attempts, last : Keys, noStatus : BOOLEAN, state : States]
Run == [nonce : 0..MaxIntents, head : Heads \union {NoHead}, attempt : 0..MaxAttempts,
        state : {"none", "active", "completed", "cancelled"}, visible : BOOLEAN, again : BOOLEAN]
Status == [head : Heads \union {NoHead}, nonce : 0..MaxIntents, key : Attempts,
           verdict : {"success", "failure"}]
Wait == [polls : 0..MaxPolls, least : Nat, snap : Keys, done : BOOLEAN, key : Keys, seen : BOOLEAN]
Failure == [head : Heads \union {NoHead}, nonce : 0..MaxIntents, key : Keys, cleared : BOOLEAN]

(* The labels at which the contract has an intent, and those at which the  *)
(* qualification of a head is not over.                                    *)
Holding == {"intent", "discovering", "requested", "dispatched", "waiting", "reading", "rereading"}
Qualifying == Holding \union {"ensuring", "routing"}
Labels == Qualifying \union {"off", "stopped", "ready", "historical", "qualified", "merging", "merged"}

CiTypes ==
  /\ scoped \in BOOLEAN /\ live \in Heads /\ moved \subseteq Heads
  /\ ledger \in [Intents -> Entry] /\ runs \in [1..MaxRuns -> Run] /\ statuses \subseteq Status
  /\ merged \in Heads \union {NoHead} /\ starts \in 0..MaxRestarts
  /\ c \in Contract /\ wait \in Wait /\ reruns \subseteq Heads
  /\ outcome \in {"none", "passed", "failed", "head_changed", "terminal_without_status", "timeout"}
  /\ proof \in Keys /\ failed \in Failure /\ pc \in Labels
  /\ pc \in Holding \union {"ensuring"} => wait.polls > 0
  /\ pc \in Qualifying => c.head \in Heads

(* What the base workflow requires of one record.                          *)
Valid(e) ==
  /\ e.state \in Early <=> e.key = None
  /\ e.last # None => e.last \in e.terminals
  /\ e.state = "prepared" => (e.terminals = {} /\ ~e.noStatus)
  /\ (e.state = "dispatch-requested" /\ e.last # None) => e.noStatus
  /\ e.state = "attached" => ~e.noStatus
  /\ (e.state = "completed" /\ e.noStatus) => e.key = e.last
  /\ (e.state \in {"attached", "completed"} /\ ~e.noStatus) => e.key \notin e.terminals

(* An attempt that was seen of a run of intent i.                          *)
Owns(i, key) ==
  /\ key[1] \in Created /\ runs[key[1]].nonce = i
  /\ key[2] <= runs[key[1]].attempt

(* Attempts on record belong to the intent, and of the run that is         *)
(* attached none after the attached attempt was given up.                  *)
Keyed(i, key, terminals) ==
  /\ \A t \in terminals : Owns(i, t)
  /\ key # None => Owns(i, key) /\ \A t \in terminals : t[1] = key[1] => t[2] <= key[2]

RunsAreBorn ==
  /\ \A r \in Created : runs[r].attempt > 0 /\ runs[r].nonce \in Intents
  /\ \A s \in statuses : s.key[1] \in Created /\ runs[s.key[1]].nonce = s.nonce

EntryIsSound(i) ==
  \/ ledger[i] = NoIntent
  \/ /\ ledger[i].state # "none" /\ Valid(ledger[i])
     /\ Keyed(i, ledger[i].key, ledger[i].terminals)

(* What the process holds of an intent is what its comment says, but for   *)
(* an attachment that ended without a status, which is dropped.            *)
Mirrors ==
  LET e == ledger[c.nonce] IN
  /\ e.state # "none" /\ e.head = c.head /\ e.gen = Generation
  /\ e.terminals = c.terminals /\ e.last = c.last
  /\ e.key = c.key \/ (c.key = None /\ e.key \in e.terminals)

MemoryIsSound ==
  /\ c.nonce = 0 => c.key = None /\ pc \notin Holding
  /\ c.nonce # 0 => Mirrors
  /\ (c.key # None /\ c.key \notin c.terminals) => ~c.noStatus
  /\ (pc \in {"intent", "discovering"} /\ c.key = None /\ c.last # None) => c.noStatus
  /\ pc = "discovering" => c.key = None
  /\ pc = "reading" => (wait.snap # None => c.key = wait.snap) /\ (wait.done => wait.snap # None)

FailureIsOwned ==
  failed.key # None =>
    /\ Owns(failed.nonce, failed.key)
    /\ failed.nonce \in Posted /\ ledger[failed.nonce].head = failed.head

(* The success that head h rests on.                                       *)
Qualified(h) ==
  \E s \in statuses : /\ s.key = proof /\ s.verdict = "success" /\ s.head = h
                      /\ ledger[s.nonce].head = h
                      /\ \A i \in Intents : s.key \notin ledger[i].terminals

Later == proof[1] = failed.key[1] /\ proof[2] > failed.key[2]

Passing == pc \in {"qualified", "merging", "merged"} \/ (pc = "routing" /\ outcome = "passed")

PassIsSound ==
  /\ Passing => Qualified(c.head)
  /\ (Passing /\ failed.head = c.head) => Later
  /\ pc \in Qualifying => failed.head # c.head
  /\ merged # NoHead => pc = "merged" /\ merged = c.head

LedgerInv == RunsAreBorn /\ (\A i \in Intents : EntryIsSound(i)) /\ OneIntentPerHead
CiInv == CiTypes /\ LedgerInv /\ MemoryIsSound /\ FailureIsOwned /\ PassIsSound

(* GitHub forgets no run, starts no attempt over and takes back no status. *)
Growth ==
  /\ \A r \in Created : /\ r \in Created' /\ runs'[r].nonce = runs[r].nonce
                        /\ runs[r].attempt <= runs'[r].attempt
  /\ statuses \subseteq statuses'

(* What a PATCH of contract k to a state has to respect.                   *)
PatchOk(k, state) ==
  /\ k \in Contract /\ k.nonce \in Intents /\ state \in States \ {"none"}
  /\ Valid(Body(k, state)) /\ Keyed(k.nonce, k.key, k.terminals)
  /\ state \in Early => k.key = None
  /\ (k.key # None /\ k.key \notin k.terminals) => ~k.noStatus
  /\ \/ /\ k.nonce \in Posted /\ ledger[k.nonce].head = k.head /\ ledger[k.nonce].gen = Generation
        /\ ledger[k.nonce].terminals \subseteq k.terminals
        /\ ledger[k.nonce].key # None => k.key # None \/ ledger[k.nonce].key \in k.terminals
     \/ /\ ledger[k.nonce] = NoIntent
        /\ \A i \in Posted : ~(ledger[i].head = k.head /\ ledger[i].gen = Generation)

(* A step that writes to the ledger, by a PATCH or a POST.                 *)
Written ==
  /\ pc \in Holding \union {"ensuring"} /\ UNCHANGED <<scoped, starts, runs, statuses>>
  /\ \E k \in Contract, state \in States \ {"none"} :
       PatchOk(k, state) /\ Patch(k, state) /\ k.head = c.head

(* What else becomes of the contract.                                      *)
Calm ==
  \/ c' = NoContract /\ pc' \notin Qualifying
  \/ /\ UNCHANGED <<scoped, starts>>
     /\ \/ UNCHANGED c /\ (pc' \notin Qualifying \/ pc \in Qualifying)
        \/ BeginQualification
        \/ EnsureIntent /\ \E i \in Candidates(c.head) : c' = Restored(i)
        \/ c' = Cleared /\ pc = "waiting" /\ pc' = "reading"
        \/ c' = [NoContract EXCEPT !.head = live] /\ pc' = "historical"

-----------------------------------------------------------------------------
(* Attempts, runs and records *)

(* The bounds are numbers.                                                 *)
LEMMA Bounds ==
  /\ MaxIntents \in Nat /\ MaxRuns \in Nat /\ MaxAttempts \in Nat /\ MaxRestarts \in Nat
  /\ MaxPolls \in Nat /\ MaxPolls > 0 /\ MaxAttempts > 0
  BY BoundAssumption

(* None is no attempt of a run.                                            *)
LEMMA NoneIsNoAttempt ==
  /\ None \notin Attempts /\ None \in Keys
  /\ \A key \in Attempts : key[1] \in 1..MaxRuns /\ key[2] \in 1..MaxAttempts /\ key = <<key[1], key[2]>>
  /\ \A r \in 1..MaxRuns, n \in 1..MaxAttempts : <<r, n>> \in Attempts /\ <<r, n>> # None
  BY Bounds DEF None, Attempts, Keys

(* The constant records are typed.                                         *)
LEMMA Blanks ==
  /\ NoIntent \in Entry /\ NoRun \in Run /\ NoContract \in Contract /\ NoWait \in Wait
  /\ NoFailure \in Failure
<1>1. NoIntent \in Entry
  BY NoneIsNoAttempt DEF NoIntent, Entry, States
<1>2. NoRun \in Run
  BY Bounds DEF NoRun, Run
<1>3. NoContract \in Contract
  BY NoneIsNoAttempt, Bounds DEF NoContract, Contract, States
<1>4. NoWait \in Wait
  BY NoneIsNoAttempt, Bounds DEF NoWait, Wait
<1>5. NoFailure \in Failure
  BY NoneIsNoAttempt, Bounds DEF NoFailure, Failure
<1> QED BY <1>1, <1>2, <1>3, <1>4, <1>5

(* A record carries the fields of the contract.                            *)
LEMMA BodyOf ==
  ASSUME CiTypes, NEW k \in Contract, NEW state \in States
  PROVE  /\ Body(k, state) \in Entry
         /\ Body(k, state).head = k.head /\ Body(k, state).gen = Generation
         /\ Body(k, state).state = state
         /\ state \in Early => Body(k, state).key = None
         /\ state \notin Early => Body(k, state).key = k.key
         /\ Body(k, state).terminals = k.terminals /\ Body(k, state).last = k.last
         /\ Body(k, state).noStatus = k.noStatus
<1>1. Generation \in Nat
  BY Bounds DEF CiTypes, Generation
<1>2. k.head \in Heads \union {NoHead} /\ k.key \in Keys /\ k.terminals \in SUBSET Attempts
      /\ k.last \in Keys /\ k.noStatus \in BOOLEAN
  BY DEF Contract
<1>3. (IF state \in Early THEN None ELSE k.key) \in Keys
  BY <1>2, NoneIsNoAttempt
<1> QED BY <1>1, <1>2, <1>3 DEF Body, Entry

(* A PATCH rewrites the record of the contract's intent and no other.      *)
LEMMA PatchOf ==
  ASSUME CiTypes, NEW k \in Contract, NEW state \in States, k.nonce \in Intents, Patch(k, state)
  PROVE  /\ ledger' \in [Intents -> Entry] /\ c' \in Contract
         /\ ledger'[k.nonce] = Body(k, state) /\ \A i \in Intents \ {k.nonce} : ledger'[i] = ledger[i]
         /\ c'.nonce = k.nonce /\ c'.head = k.head /\ c'.key = k.key /\ c'.terminals = k.terminals
         /\ c'.last = k.last /\ c'.noStatus = k.noStatus /\ c'.state = state
<1>1. Body(k, state) \in Entry
  BY BodyOf
<1>2. ledger' = [ledger EXCEPT ![k.nonce] = Body(k, state)] /\ ledger \in [Intents -> Entry]
  BY DEF Patch, CiTypes
<1>3. c' = [k EXCEPT !.state = state]
  BY DEF Patch
<1>4. c' \in Contract /\ c'.nonce = k.nonce /\ c'.head = k.head /\ c'.key = k.key /\ c'.terminals = k.terminals
      /\ c'.last = k.last /\ c'.noStatus = k.noStatus /\ c'.state = state
  BY <1>3 DEF Contract
<1> HIDE DEF Body
<1> QED BY <1>1, <1>2, <1>4

(* Attaching a contract to a run.                                          *)
LEMMA AttachedTo ==
  ASSUME CiTypes, RunsAreBorn, NEW k \in Contract, NEW r \in Created
  PROVE  /\ Attached(k, r) \in Contract /\ Attached(k, r).key = <<r, runs[r].attempt>>
         /\ <<r, runs[r].attempt>> \in Attempts /\ ~Attached(k, r).noStatus
         /\ Attached(k, r).nonce = k.nonce /\ Attached(k, r).head = k.head
         /\ Attached(k, r).terminals = k.terminals /\ Attached(k, r).last = k.last
<1>1. r \in 1..MaxRuns /\ runs[r].attempt \in 0..MaxAttempts /\ runs[r].attempt > 0
  BY DEF RunsAreBorn, Created, CiTypes, Run
<1>2. <<r, runs[r].attempt>> \in Attempts
  BY <1>1, Bounds DEF Attempts
<1> QED BY <1>2 DEF Attached, Contract, Keys

(* The contract without an attachment that is on record as ended.          *)
LEMMA ClearedOf ==
  ASSUME CiTypes
  PROVE  /\ Cleared \in Contract /\ Cleared.nonce = c.nonce /\ Cleared.head = c.head
         /\ Cleared.terminals = c.terminals /\ Cleared.last = c.last /\ Cleared.noStatus = c.noStatus
         /\ Cleared.key = IF c.key \in c.terminals THEN None ELSE c.key
  BY NoneIsNoAttempt DEF CiTypes, Cleared, Contract

(* The newest of some runs is one of them.                                 *)
LEMMA NewestOf ==
  ASSUME NEW rs \in SUBSET (1..MaxRuns), rs # {}
  PROVE  Newest(rs) \in rs
<1> DEFINE Less == OpToRel(<, Nat)
           T == {n \in Nat : MaxRuns - n \in rs}
<1>1. T \subseteq Nat /\ \A r \in rs : MaxRuns - r \in T
  BY Bounds
<1>2. \E n \in T : \A m \in T : ~(<<m, n>> \in Less)
  <2>1. IsWellFoundedOn(Less, Nat)
    BY NatLessThanWellFounded
  <2>2. T # {}
    BY <1>1
  <2> HIDE DEF T, Less
  <2> QED BY <1>1, <2>1, <2>2, WFMin
<1>3. PICK n \in T : \A m \in T : ~(m < n)
  BY <1>2 DEF OpToRel
<1>4. MaxRuns - n \in rs /\ \A q \in rs : q <= MaxRuns - n
  BY <1>1, <1>3, Bounds
<1> QED BY <1>4 DEF Newest

-----------------------------------------------------------------------------
(* Runs and statuses *)

(* Attempts are counted.                                                   *)
LEMMA AttemptsCount ==
  /\ \A v \in Run : v.attempt \in Nat
  /\ \A n \in 1..MaxAttempts : n \in Nat
  BY Bounds DEF Run

(* An attempt that was seen stays an attempt of its intent.                *)
LEMMA OwnsStays ==
  ASSUME CiTypes, CiTypes', Growth, NEW i \in Intents, NEW key \in Attempts, Owns(i, key)
  PROVE  Owns(i, key)'
<1>1. key[1] \in Created /\ runs[key[1]].nonce = i /\ key[2] <= runs[key[1]].attempt
  BY DEF Owns
<1>2. key[1] \in Created' /\ runs'[key[1]].nonce = i /\ runs[key[1]].attempt <= runs'[key[1]].attempt
  BY <1>1 DEF Growth
<1>3. key[1] \in 1..MaxRuns /\ key[2] \in 1..MaxAttempts
  BY NoneIsNoAttempt
<1>a. runs[key[1]] \in Run /\ runs'[key[1]] \in Run
  BY <1>3 DEF CiTypes
<1>4. key[2] \in Nat /\ runs[key[1]].attempt \in Nat /\ runs'[key[1]].attempt \in Nat
  BY <1>3, <1>a, AttemptsCount
<1>5. key[2] <= runs'[key[1]].attempt
  BY <1>1, <1>2, <1>4
<1> QED BY <1>2, <1>5 DEF Owns

(* So what is on record of them stays well keyed.                          *)
LEMMA KeyedStays ==
  ASSUME CiTypes, CiTypes', Growth, NEW i \in Intents, NEW key \in Keys, NEW terminals \in SUBSET Attempts,
         Keyed(i, key, terminals)
  PROVE  Keyed(i, key, terminals)'
<1>1. \A t \in terminals : Owns(i, t)'
  BY OwnsStays DEF Keyed
<1>2. key # None => Owns(i, key)' /\ \A t \in terminals : t[1] = key[1] => t[2] <= key[2]
  BY OwnsStays DEF Keyed, Keys
<1> QED BY <1>1, <1>2 DEF Keyed

(* A run is changed in one entry, and never into an older one.             *)
LEMMA RunChanges ==
  ASSUME CiTypes, RunsAreBorn, NEW r \in Created, NEW v \in Run,
         v.nonce = runs[r].nonce, v.state # "none", runs[r].attempt <= v.attempt,
         runs' = [runs EXCEPT ![r] = v], UNCHANGED statuses
  PROVE  runs' \in [1..MaxRuns -> Run] /\ Growth /\ RunsAreBorn'
<1>1. r \in 1..MaxRuns /\ runs \in [1..MaxRuns -> Run]
  BY DEF Created, CiTypes
<1>2. runs' \in [1..MaxRuns -> Run] /\ runs'[r] = v /\ \A q \in 1..MaxRuns \ {r} : runs'[q] = runs[q]
  BY <1>1
<1>3. Created' = Created
  BY <1>1, <1>2 DEF Created
<1>4. \A q \in Created : runs[q].attempt \in Nat
  BY <1>1, Bounds DEF Created, Run
<1>5. Growth
  BY <1>1, <1>2, <1>3, <1>4 DEF Growth, Created
<1>6. \A q \in Created : runs'[q].nonce = runs[q].nonce
  BY <1>1, <1>2 DEF Created
<1>7. \A q \in Created : runs'[q].attempt > 0
  BY <1>1, <1>2, <1>4, Bounds DEF Created, RunsAreBorn, Run
<1> QED BY <1>2, <1>3, <1>5, <1>6, <1>7 DEF RunsAreBorn

(* What is done to one run, by GitHub, by a person or by the loop.         *)
LEMMA RunStep ==
  ASSUME CiTypes, RunsAreBorn, UNCHANGED statuses, NEW r \in Created
  PROVE  (\/ runs' = [runs EXCEPT ![r].visible = TRUE]
          \/ runs' = [runs EXCEPT ![r].state = "completed"]
          \/ runs' = [runs EXCEPT ![r].state = "cancelled"]
          \/ runs' = [runs EXCEPT ![r].again = TRUE]
          \/ /\ runs[r].attempt < MaxAttempts
             /\ runs' = [runs EXCEPT ![r].attempt = @ + 1, ![r].state = "active", ![r].again = FALSE])
         => runs' \in [1..MaxRuns -> Run] /\ Growth /\ RunsAreBorn'
<1> DEFINE Goal == runs' \in [1..MaxRuns -> Run] /\ Growth /\ RunsAreBorn'
<1>1. r \in 1..MaxRuns /\ runs \in [1..MaxRuns -> Run] /\ runs[r] \in Run /\ runs[r].state # "none"
  BY DEF Created, CiTypes
<1>2. runs[r].attempt \in Nat
  BY <1>1, AttemptsCount
<1>3. ASSUME runs' = [runs EXCEPT ![r].visible = TRUE] PROVE Goal
  <2> DEFINE v == [runs[r] EXCEPT !.visible = TRUE]
  <2>a. v \in Run /\ v.nonce = runs[r].nonce /\ v.state # "none" /\ v.attempt = runs[r].attempt
    BY <1>1 DEF Run
  <2>1. v \in Run /\ v.nonce = runs[r].nonce /\ v.state # "none" /\ runs[r].attempt <= v.attempt
    BY <1>2, <2>a
  <2>2. runs' = [runs EXCEPT ![r] = v]
    BY <1>1, <1>3
  <2> HIDE DEF v
  <2> QED BY <1>1, <2>1, <2>2, RunChanges
<1>4. ASSUME runs' = [runs EXCEPT ![r].state = "completed"] PROVE Goal
  <2> DEFINE v == [runs[r] EXCEPT !.state = "completed"]
  <2>a. v \in Run /\ v.nonce = runs[r].nonce /\ v.state # "none" /\ v.attempt = runs[r].attempt
    BY <1>1 DEF Run
  <2>1. v \in Run /\ v.nonce = runs[r].nonce /\ v.state # "none" /\ runs[r].attempt <= v.attempt
    BY <1>2, <2>a
  <2>2. runs' = [runs EXCEPT ![r] = v]
    BY <1>1, <1>4
  <2> HIDE DEF v
  <2> QED BY <1>1, <2>1, <2>2, RunChanges
<1>5. ASSUME runs' = [runs EXCEPT ![r].state = "cancelled"] PROVE Goal
  <2> DEFINE v == [runs[r] EXCEPT !.state = "cancelled"]
  <2>a. v \in Run /\ v.nonce = runs[r].nonce /\ v.state # "none" /\ v.attempt = runs[r].attempt
    BY <1>1 DEF Run
  <2>1. v \in Run /\ v.nonce = runs[r].nonce /\ v.state # "none" /\ runs[r].attempt <= v.attempt
    BY <1>2, <2>a
  <2>2. runs' = [runs EXCEPT ![r] = v]
    BY <1>1, <1>5
  <2> HIDE DEF v
  <2> QED BY <1>1, <2>1, <2>2, RunChanges
<1>6. ASSUME runs' = [runs EXCEPT ![r].again = TRUE] PROVE Goal
  <2> DEFINE v == [runs[r] EXCEPT !.again = TRUE]
  <2>a. v \in Run /\ v.nonce = runs[r].nonce /\ v.state # "none" /\ v.attempt = runs[r].attempt
    BY <1>1 DEF Run
  <2>1. v \in Run /\ v.nonce = runs[r].nonce /\ v.state # "none" /\ runs[r].attempt <= v.attempt
    BY <1>2, <2>a
  <2>2. runs' = [runs EXCEPT ![r] = v]
    BY <1>1, <1>6
  <2> HIDE DEF v
  <2> QED BY <1>1, <2>1, <2>2, RunChanges
<1>7. ASSUME runs[r].attempt < MaxAttempts,
             runs' = [runs EXCEPT ![r].attempt = @ + 1, ![r].state = "active", ![r].again = FALSE]
      PROVE  Goal
  <2> DEFINE v == [runs[r] EXCEPT !.attempt = @ + 1, !.state = "active", !.again = FALSE]
  <2>a. runs[r].attempt + 1 \in 0..MaxAttempts
    BY <1>2, <1>7, Bounds
  <2>1. v \in Run /\ v.nonce = runs[r].nonce /\ v.state # "none" /\ v.attempt = runs[r].attempt + 1
    BY <1>1, <2>a DEF Run
  <2>2. runs' = [runs EXCEPT ![r] = v]
    BY <1>1, <1>7
  <2>3. runs[r].attempt <= v.attempt
    BY <1>2, <2>1
  <2> HIDE DEF v
  <2> QED BY <1>1, <2>1, <2>2, <2>3, RunChanges
<1> QED BY <1>3, <1>4, <1>5, <1>6, <1>7

(* A dispatch creates a run of the contract's intent.                      *)
LEMMA DispatchGrows ==
  ASSUME CiTypes, RunsAreBorn, Dispatch, c.nonce \in Intents
  PROVE  runs' \in [1..MaxRuns -> Run] /\ Growth /\ RunsAreBorn'
<1> DEFINE v == [NoRun EXCEPT !.nonce = c.nonce, !.head = c.head, !.attempt = 1, !.state = "active"]
<1>1. PICK r \in 1..MaxRuns \ Created : runs' = [runs EXCEPT ![r] = v]
  BY DEF Dispatch
<1>2. c.nonce \in 0..MaxIntents /\ c.head \in Heads \union {NoHead} /\ 1 \in 0..MaxAttempts
  BY Bounds DEF CiTypes, Contract
<1>3. v \in Run /\ v.nonce = c.nonce /\ v.state = "active" /\ v.attempt = 1
  BY <1>2, Blanks DEF NoRun, Run
<1> HIDE DEF v
<1>4. runs \in [1..MaxRuns -> Run]
  BY DEF CiTypes
<1>5. runs' \in [1..MaxRuns -> Run] /\ runs'[r] = v /\ \A q \in 1..MaxRuns \ {r} : runs'[q] = runs[q]
  BY <1>1, <1>3, <1>4
<1>6. Created' = Created \union {r} /\ \A q \in Created : q # r /\ q \in 1..MaxRuns /\ runs'[q] = runs[q]
  BY <1>3, <1>5 DEF Created
<1>7. UNCHANGED statuses
  BY DEF Dispatch
<1>8. \A q \in Created : runs[q].attempt \in Nat
  BY <1>4, AttemptsCount DEF Created
<1>9. Growth
  BY <1>6, <1>7, <1>8 DEF Growth
<1>10. RunsAreBorn'
  BY <1>3, <1>5, <1>6, <1>7 DEF RunsAreBorn
<1> QED BY <1>5, <1>9, <1>10

(* A publisher reports of an attempt that was made.                        *)
LEMMA StatusGrows ==
  ASSUME CiTypes, RunsAreBorn, StatusPublished
  PROVE  statuses' \subseteq Status /\ Growth /\ RunsAreBorn'
<1>a. PICK r \in Created : \E n \in 1..runs[r].attempt, v \in {"success", "failure"} :
        /\ Unpublished(r, n)
        /\ statuses' = statuses \union {[head |-> runs[r].head, nonce |-> runs[r].nonce,
                                         key |-> <<r, n>>, verdict |-> v]}
  BY Zenon DEF StatusPublished
<1>1. PICK n \in 1..runs[r].attempt, v \in {"success", "failure"} :
        statuses' = statuses \union {[head |-> runs[r].head, nonce |-> runs[r].nonce,
                                      key |-> <<r, n>>, verdict |-> v]}
  BY <1>a, Zenon
<1> DEFINE s == [head |-> runs[r].head, nonce |-> runs[r].nonce, key |-> <<r, n>>, verdict |-> v]
<1>2. r \in 1..MaxRuns /\ runs[r] \in Run
  BY DEF Created, CiTypes
<1>3. runs[r].attempt \in 0..MaxAttempts /\ runs[r].head \in Heads \union {NoHead} /\ runs[r].nonce \in 0..MaxIntents
  BY <1>2 DEF Run
<1>4. n \in 1..MaxAttempts
  BY <1>3, Bounds
<1>5. <<r, n>> \in Attempts
  BY <1>2, <1>4, NoneIsNoAttempt
<1>6. s \in Status /\ s.key = <<r, n>> /\ s.nonce = runs[r].nonce
  BY <1>3, <1>5 DEF Status
<1> HIDE DEF s
<1>7. statuses' = statuses \union {s} /\ UNCHANGED runs
  BY <1>1 DEF s, StatusPublished
<1>8. Created' = Created
  BY <1>7 DEF Created
<1>9. \A q \in Created : runs[q].attempt \in Nat
  BY AttemptsCount DEF CiTypes, Created
<1>10. Growth
  BY <1>7, <1>8, <1>9 DEF Growth
<1>11. RunsAreBorn'
  BY <1>6, <1>7, <1>8 DEF RunsAreBorn
<1> QED BY <1>6, <1>7, <1>10, <1>11 DEF CiTypes

(* Every step keeps runs and statuses as they were, or grows them.         *)
LEMMA GrowthOfSteps ==
  ASSUME CiInv, [Next]_vars
  PROVE  /\ runs' \in [1..MaxRuns -> Run] /\ statuses' \subseteq Status
         /\ Growth /\ RunsAreBorn'
<1>1. CiTypes /\ RunsAreBorn
  BY DEF CiInv, LedgerInv
<1>2. CASE UNCHANGED <<runs, statuses>>
  <2>1. \A r \in Created : runs[r].attempt \in Nat
    BY <1>1, AttemptsCount DEF CiTypes, Created
  <2>2. Created' = Created
    BY <1>2 DEF Created
  <2> QED BY <1>1, <1>2, <2>1, <2>2 DEF Growth, RunsAreBorn, CiTypes
<1>3. CASE RunAdvances
  <2>1. UNCHANGED statuses
    BY <1>3 DEF RunAdvances
  <2>2. PICK r \in Created :
          \/ runs' = [runs EXCEPT ![r].visible = TRUE]
          \/ runs' = [runs EXCEPT ![r].state = "completed"]
          \/ runs' = [runs EXCEPT ![r].state = "cancelled"]
          \/ /\ runs[r].attempt < MaxAttempts
             /\ runs' = [runs EXCEPT ![r].attempt = @ + 1, ![r].state = "active", ![r].again = FALSE]
    BY <1>3, Zenon DEF RunAdvances
  <2>3. runs' \in [1..MaxRuns -> Run] /\ Growth /\ RunsAreBorn'
    BY <1>1, <2>1, <2>2, RunStep, Zenon
  <2> QED BY <1>1, <2>1, <2>3 DEF CiTypes
<1>4. CASE PersonReruns
  <2>1. UNCHANGED statuses
    BY <1>4 DEF PersonReruns
  <2>2. PICK r \in Created : runs' = [runs EXCEPT ![r].again = TRUE]
    BY <1>4 DEF PersonReruns
  <2>3. runs' \in [1..MaxRuns -> Run] /\ Growth /\ RunsAreBorn'
    BY <1>1, <2>1, <2>2, RunStep, Zenon
  <2> QED BY <1>1, <2>1, <2>3 DEF CiTypes
<1>5. CASE StatusPublished
  <2>1. UNCHANGED runs
    BY <1>5 DEF StatusPublished
  <2> QED BY <1>1, <1>5, <2>1, StatusGrows DEF CiTypes
<1>6. CASE Dispatch
  <2>1. UNCHANGED statuses /\ c.nonce # 0
    BY <1>6 DEF Dispatch, CiInv, MemoryIsSound, Holding
  <2>2. c.nonce \in Intents
    BY <1>1, <2>1, Bounds DEF CiTypes, Contract, Intents
  <2> QED BY <1>1, <1>6, <2>1, <2>2, DispatchGrows DEF CiTypes
<1>7. CASE Rerun
  <2>1. UNCHANGED statuses /\ runs' = [runs EXCEPT ![c.key[1]].again = TRUE] /\ c.key # None
    BY <1>7 DEF Rerun, RerunRecorded
  <2>2. c.nonce # 0
    BY <2>1 DEF CiInv, MemoryIsSound
  <2>3. c.nonce \in Intents
    BY <1>1, <2>2, Bounds DEF CiTypes, Contract, Intents
  <2>4. Mirrors /\ EntryIsSound(c.nonce)
    BY <2>2, <2>3 DEF CiInv, MemoryIsSound, LedgerInv
  <2>5. ledger[c.nonce].key = c.key /\ Keyed(c.nonce, ledger[c.nonce].key, ledger[c.nonce].terminals)
    BY <2>1, <2>4 DEF Mirrors, EntryIsSound, NoIntent
  <2>6. c.key[1] \in Created
    BY <2>1, <2>5 DEF Keyed, Owns
  <2>7. runs' \in [1..MaxRuns -> Run] /\ Growth /\ RunsAreBorn'
    BY <1>1, <2>1, <2>6, RunStep, Zenon
  <2> QED BY <1>1, <2>1, <2>7 DEF CiTypes
<1>8. \/ UNCHANGED <<runs, statuses>> \/ RunAdvances \/ PersonReruns \/ StatusPublished
      \/ Dispatch \/ Rerun
  BY DEF Next, vars, github, GitHubStep, DispatchStep, WaitStep, LoopStep, HeadMoves, Activate, Crash,
     BeginQualification, EnsureIntent, QualificationRefused, RetainAttachment, BeginDispatch,
     Discover, RequestDispatch, WaitForVisibility, PollHead, PollRun, PollRunBlind, PollStatus,
     ConfirmFirst, ConfirmSecond, Condemn, PollAgain, EarlyFailure, RecordObligation, StopLoop,
     ReviewAgain, Accept, Reconcile, HistoricalOutcome, HistoricalLost, PrepareMerge,
     PrepareRefused, Merge, MergeRefused
<1> QED BY <1>2, <1>3, <1>4, <1>5, <1>6, <1>7, <1>8

-----------------------------------------------------------------------------
(* Patches *)

(* A contract that holds an intent mirrors a record of the ledger.         *)
LEMMA Held ==
  ASSUME CiInv, c.nonce # 0
  PROVE  /\ c \in Contract /\ c.nonce \in Intents /\ c.nonce \in Posted
         /\ ledger[c.nonce].head = c.head /\ ledger[c.nonce].gen = Generation
         /\ ledger[c.nonce].terminals = c.terminals /\ ledger[c.nonce].last = c.last
         /\ ledger[c.nonce].key = c.key \/ (c.key = None /\ ledger[c.nonce].key \in c.terminals)
         /\ Valid(ledger[c.nonce]) /\ Keyed(c.nonce, ledger[c.nonce].key, c.terminals)
         /\ Keyed(c.nonce, c.key, c.terminals) /\ (c.last # None => c.last \in c.terminals)
<1>1. c \in Contract /\ CiTypes
  BY DEF CiInv, CiTypes
<1>2. c.nonce \in Intents
  BY <1>1, Bounds DEF Contract, Intents
<1>3. Mirrors /\ EntryIsSound(c.nonce)
  BY <1>2 DEF CiInv, MemoryIsSound, LedgerInv
<1>4. ledger[c.nonce].state # "none" /\ ledger[c.nonce] # NoIntent
  BY <1>3 DEF Mirrors, NoIntent
<1>5. Valid(ledger[c.nonce]) /\ Keyed(c.nonce, ledger[c.nonce].key, ledger[c.nonce].terminals)
  BY <1>3, <1>4 DEF EntryIsSound
<1>6. Keyed(c.nonce, c.key, c.terminals)
  BY <1>3, <1>5 DEF Keyed, Mirrors
<1>7. c.last # None => c.last \in c.terminals
  BY <1>3, <1>5 DEF Valid, Mirrors
<1> QED BY <1>1, <1>2, <1>3, <1>4, <1>5, <1>6, <1>7 DEF Mirrors, Posted

(* An intent is posted for a head that has none.                           *)
LEMMA NewIntentIsOk ==
  ASSUME CiInv, NEW i \in Intents \ Posted, Candidates(c.head) = {}
  PROVE  PatchOk([NoContract EXCEPT !.nonce = i, !.head = c.head], "prepared")
<1> DEFINE k == [NoContract EXCEPT !.nonce = i, !.head = c.head]
<1>1. CiTypes /\ c \in Contract /\ i \in 0..MaxIntents
  BY Bounds DEF CiInv, CiTypes, Intents
<1>2. c.head \in Heads \union {NoHead}
  BY <1>1 DEF Contract
<1>3. /\ k \in Contract /\ k.nonce = i /\ k.head = c.head /\ k.key = None /\ k.terminals = {}
      /\ k.last = None /\ ~k.noStatus
  BY <1>1, <1>2, Blanks DEF NoContract, Contract
<1> HIDE DEF k
<1>4. "prepared" \in States \ {"none"} /\ "prepared" \in Early
  BY DEF States, Early
<1>5. /\ Body(k, "prepared").state = "prepared" /\ Body(k, "prepared").key = None
      /\ Body(k, "prepared").terminals = {} /\ Body(k, "prepared").last = None /\ ~Body(k, "prepared").noStatus
  BY <1>1, <1>3, <1>4, BodyOf
<1>6. Valid(Body(k, "prepared"))
  BY <1>4, <1>5 DEF Valid
<1>7. Keyed(k.nonce, k.key, k.terminals)
  BY <1>3 DEF Keyed
<1>8. EntryIsSound(i) /\ ledger[i].state = "none"
  BY DEF Posted, CiInv, LedgerInv
<1>9. ledger[i] = NoIntent
  BY <1>8 DEF EntryIsSound
<1>10. \A j \in Posted : ~(ledger[j].head = k.head /\ ledger[j].gen = Generation)
  BY <1>3 DEF Candidates
<1> QED BY <1>3, <1>4, <1>6, <1>7, <1>9, <1>10 DEF PatchOk, k

(* A dispatch is asked for by a contract that is attached to nothing.      *)
LEMMA RequestIsOk ==
  ASSUME CiInv, pc \in {"intent", "discovering"}, c.key = None
  PROVE  PatchOk(c, "dispatch-requested")
<1>1. CiTypes /\ c.nonce # 0 /\ (c.last # None => c.noStatus)
  BY DEF CiInv, MemoryIsSound, Holding
<1>2. "dispatch-requested" \in States \ {"none"} /\ "dispatch-requested" \in Early
  BY DEF States, Early
<1> DEFINE e == Body(c, "dispatch-requested")
<1>3. c \in Contract
  BY <1>1, Held
<1>4. e.state = "dispatch-requested" /\ e.key = None /\ e.terminals = c.terminals /\ e.last = c.last /\ e.noStatus = c.noStatus
  BY <1>1, <1>2, <1>3, BodyOf
<1> HIDE DEF e
<1>5. Valid(e)
  BY <1>1, <1>2, <1>4, Held DEF Valid
<1>6. ledger[c.nonce].key # None => ledger[c.nonce].key \in c.terminals
  BY <1>1, Held
<1> QED BY <1>1, <1>2, <1>3, <1>5, <1>6, Held DEF PatchOk, e

(* The attached run is one of the intent, seen in an attempt that did not  *)
(* end without a status.                                                   *)
LEMMA AttachIsOk ==
  ASSUME CiInv, NEW k \in Contract, c.nonce # 0, NEW r \in Created,
         k.nonce = c.nonce, k.head = c.head, k.terminals = c.terminals, k.last = c.last,
         runs[r].nonce = c.nonce, <<r, runs[r].attempt>> \notin c.terminals
  PROVE  PatchOk(Attached(k, r), "attached")
<1> DEFINE a == Attached(k, r)
           e == Body(a, "attached")
<1>1. CiTypes /\ RunsAreBorn
  BY DEF CiInv, LedgerInv
<1>2. /\ a \in Contract /\ a.key = <<r, runs[r].attempt>> /\ a.key \in Attempts /\ ~a.noStatus
      /\ a.nonce = c.nonce /\ a.head = c.head /\ a.terminals = c.terminals /\ a.last = c.last
  BY <1>1, AttachedTo
<1> HIDE DEF a
<1>3. "attached" \in States \ {"none"} /\ "attached" \notin Early
  BY DEF States, Early
<1>4. e.state = "attached" /\ e.key = a.key /\ e.terminals = a.terminals /\ e.last = a.last /\ e.noStatus = a.noStatus
  BY <1>1, <1>2, <1>3, BodyOf
<1> HIDE DEF e
<1>5. a.key # None /\ a.key \notin a.terminals
  BY <1>2, NoneIsNoAttempt
<1>6. Valid(e)
  BY <1>2, <1>3, <1>4, <1>5, Held DEF Valid
<1>7. Keyed(c.nonce, c.key, c.terminals) /\ c.terminals \subseteq Attempts
  BY Held DEF Contract
<1>8. runs[r].attempt \in Nat
  BY <1>1, AttemptsCount DEF CiTypes, Created
<1>9. Owns(c.nonce, a.key)
  BY <1>2, <1>8 DEF Owns
<1>10. \A t \in c.terminals : t[1] = r => t[2] <= runs[r].attempt
  BY <1>7 DEF Keyed, Owns
<1>11. Keyed(a.nonce, a.key, a.terminals)
  BY <1>2, <1>7, <1>9, <1>10 DEF Keyed
<1>12. /\ c.nonce \in Posted /\ c.nonce \in Intents
       /\ ledger[c.nonce].head = a.head /\ ledger[c.nonce].gen = Generation
       /\ ledger[c.nonce].terminals \subseteq a.terminals
  BY <1>2, Held
<1> QED BY <1>2, <1>3, <1>5, <1>6, <1>11, <1>12 DEF PatchOk, a, e

(* A status completes the attachment that published it.                    *)
LEMMA CompletionIsOk ==
  ASSUME CiInv, c.key # None, c.key \notin c.terminals
  PROVE  PatchOk(c, "completed")
<1> DEFINE e == Body(c, "completed")
<1>1. CiTypes /\ c.nonce # 0 /\ ~c.noStatus
  BY DEF CiInv, MemoryIsSound
<1>2. "completed" \in States \ {"none"} /\ "completed" \notin Early
  BY DEF States, Early
<1>3. c \in Contract
  BY <1>1, Held
<1>4. e.state = "completed" /\ e.key = c.key /\ e.terminals = c.terminals /\ e.last = c.last /\ e.noStatus = c.noStatus
  BY <1>1, <1>2, <1>3, BodyOf
<1> HIDE DEF e
<1>5. Valid(e)
  BY <1>1, <1>2, <1>4, Held DEF Valid
<1> QED BY <1>1, <1>2, <1>3, <1>5, Held DEF PatchOk, e

(* An attempt that ended without a status is put on record as ended.       *)
LEMMA CondemnationIsOk ==
  ASSUME CiInv, NEW snap, snap = c.key, c.key # None
  PROVE  PatchOk([c EXCEPT !.last = snap, !.noStatus = TRUE, !.terminals = @ \union {snap}], "completed")
<1> DEFINE k == [c EXCEPT !.last = snap, !.noStatus = TRUE, !.terminals = @ \union {snap}]
           e == Body(k, "completed")
<1>1. CiTypes /\ c.nonce # 0
  BY DEF CiInv, MemoryIsSound
<1>2. "completed" \in States \ {"none"} /\ "completed" \notin Early
  BY DEF States, Early
<1>3. c \in Contract /\ c.key \in Attempts
  BY <1>1, Held DEF Contract, Keys
<1>4. /\ k \in Contract /\ k.nonce = c.nonce /\ k.head = c.head /\ k.key = c.key /\ k.last = c.key
      /\ k.noStatus /\ k.terminals = c.terminals \union {c.key}
  BY <1>3 DEF Contract, Keys
<1> HIDE DEF k
<1>5. e.state = "completed" /\ e.key = k.key /\ e.terminals = k.terminals /\ e.last = k.last /\ e.noStatus = k.noStatus
  BY <1>1, <1>2, <1>4, BodyOf
<1> HIDE DEF e
<1>6. Valid(e)
  BY <1>2, <1>4, <1>5 DEF Valid
<1>7. Keyed(c.nonce, c.key, c.terminals)
  BY <1>1, Held
<1>8. c.key[2] <= c.key[2]
  BY <1>3, NoneIsNoAttempt, AttemptsCount
<1>9. Keyed(k.nonce, k.key, k.terminals)
  BY <1>4, <1>7, <1>8 DEF Keyed
<1>10. /\ c.nonce \in Posted /\ c.nonce \in Intents
       /\ ledger[c.nonce].head = k.head /\ ledger[c.nonce].gen = Generation
       /\ ledger[c.nonce].terminals \subseteq k.terminals
  BY <1>1, <1>4, Held
<1>11. k.key # None /\ k.key \in k.terminals
  BY <1>4
<1> QED BY <1>2, <1>4, <1>6, <1>9, <1>10, <1>11 DEF PatchOk, e, k

(* The run a poll attaches: found by the nonce, or the attached one in a   *)
(* later attempt.                                                          *)
LEMMA PollAttaches ==
  ASSUME CiInv, pc = "waiting", NEW r \in Found(Cleared), Attached(Cleared, r).key # Cleared.key
  PROVE  PatchOk(Attached(Cleared, r), "attached")
<1>1. CiTypes /\ RunsAreBorn /\ c.nonce # 0
  BY DEF CiInv, LedgerInv, MemoryIsSound, Holding
<1>2. r \in Created
  BY DEF Found, Survivors
<1>3. Attached(Cleared, r).key = <<r, runs[r].attempt>>
  BY <1>1, <1>2, ClearedOf, AttachedTo
<1>4. runs[r].nonce = c.nonce /\ <<r, runs[r].attempt>> \notin c.terminals
  <2>1. CASE Cleared.key = None
    BY <1>1, <2>1, ClearedOf DEF Found, Survivors
  <2>2. CASE Cleared.key # None
    <3>1. Cleared.key = c.key /\ c.key # None /\ r = c.key[1]
      BY <1>1, <2>2, ClearedOf DEF Found
    <3>2. Keyed(c.nonce, c.key, c.terminals) /\ c.key \in Attempts
      BY <1>1, <3>1, Held DEF Contract, Keys
    <3>3. runs[r].nonce = c.nonce /\ c.key[2] <= runs[r].attempt
      BY <3>1, <3>2 DEF Keyed, Owns
    <3>4. c.key = <<r, c.key[2]>> /\ c.key[2] \in Nat /\ runs[r].attempt \in Nat
      BY <1>1, <1>2, <3>1, <3>2, NoneIsNoAttempt, AttemptsCount DEF CiTypes, Created
    <3>5. runs[r].attempt # c.key[2]
      BY <1>3, <3>1, <3>4
    <3>6. ASSUME <<r, runs[r].attempt>> \in c.terminals PROVE FALSE
      BY <3>1, <3>2, <3>3, <3>4, <3>5, <3>6 DEF Keyed
    <3> QED BY <3>3, <3>6
  <2> QED BY <2>1, <2>2
<1> QED BY <1>1, <1>2, <1>4, ClearedOf, AttachIsOk

(* Whatever is written is a PATCH that respects what is on record, and     *)
(* nothing else touches the ledger.                                        *)
LEMMA LedgerMoves ==
  ASSUME CiInv, [Next]_vars
  PROVE  Written \/ (UNCHANGED ledger /\ Calm)
<1> DEFINE Put(k, state) == PatchOk(k, state) /\ Patch(k, state) /\ k.head = c.head
<1>1. \A k, state : Put(k, state) /\ pc \in Holding \union {"ensuring"} /\ UNCHANGED <<scoped, starts, runs, statuses>>
                  => Written
  BY DEF Written, PatchOk
<1>2. CiTypes /\ c \in Contract /\ RunsAreBorn
  BY DEF CiInv, CiTypes, LedgerInv
<1>3. ASSUME EnsureIntent PROVE Written \/ (UNCHANGED ledger /\ Calm)
  <2>1. \/ UNCHANGED ledger /\ \E i \in Candidates(c.head) : c' = Restored(i)
        \/ /\ Candidates(c.head) = {}
           /\ \E i \in Intents \ Posted : Patch([NoContract EXCEPT !.nonce = i, !.head = c.head], "prepared")
    BY <1>3, Zenon DEF EnsureIntent
  <2>2. pc = "ensuring" /\ UNCHANGED <<scoped, starts, runs, statuses>>
    BY <1>3 DEF EnsureIntent
  <2>3. CASE UNCHANGED ledger /\ \E i \in Candidates(c.head) : c' = Restored(i)
    BY <1>3, <2>2, <2>3, Zenon DEF Calm
  <2>4. ASSUME Candidates(c.head) = {}, NEW i \in Intents \ Posted,
               Patch([NoContract EXCEPT !.nonce = i, !.head = c.head], "prepared")
        PROVE  Written
    <3>1. [NoContract EXCEPT !.nonce = i, !.head = c.head].head = c.head
      BY DEF NoContract
    <3>2. PatchOk([NoContract EXCEPT !.nonce = i, !.head = c.head], "prepared")
      BY <2>4, NewIntentIsOk
    <3> QED BY <1>1, <2>2, <2>4, <3>1, <3>2
  <2> QED BY <2>1, <2>3, <2>4
<1>4. ASSUME BeginDispatch PROVE Written \/ (UNCHANGED ledger /\ Calm)
  <2>1. \/ UNCHANGED <<ledger, c>>
        \/ Patch([c EXCEPT !.key = None], "dispatch-requested")
    BY <1>4, Zenon DEF BeginDispatch
  <2>2. /\ pc = "intent" /\ c.key = None /\ UNCHANGED <<scoped, starts, runs, statuses>>
    BY <1>4 DEF BeginDispatch, Retained
  <2>3. [c EXCEPT !.key = None] = c
    BY <1>2, <2>2 DEF Contract
  <2>4. PatchOk(c, "dispatch-requested")
    BY <2>2, RequestIsOk
  <2> QED BY <1>1, <2>1, <2>2, <2>3, <2>4 DEF Holding, Qualifying, Calm
<1>5. ASSUME Discover PROVE Written
  <2>1. Survivors(c, FALSE) # {} /\ Survivors(c, FALSE) \subseteq 1..MaxRuns /\ c.nonce # 0
    BY <1>5 DEF Discover, Survivors, Created, CiInv, MemoryIsSound, Holding
  <2>2. PICK r \in Survivors(c, FALSE) : r = Newest(Survivors(c, FALSE))
    BY <2>1, NewestOf
  <2>3. /\ Patch(Attached(c, r), "attached") /\ pc \in {"discovering", "dispatched"}
        /\ UNCHANGED <<scoped, starts, runs, statuses>>
    BY <1>5, <2>2 DEF Discover
  <2>4. r \in Created /\ runs[r].nonce = c.nonce /\ <<r, runs[r].attempt>> \notin c.terminals
    BY <2>2 DEF Survivors
  <2>5. PatchOk(Attached(c, r), "attached") /\ Attached(c, r).head = c.head
    BY <1>2, <2>1, <2>4, AttachIsOk, AttachedTo
  <2> QED BY <1>1, <2>3, <2>5 DEF Holding
<1>6. ASSUME RequestDispatch PROVE Written
  <2>1. /\ pc = "discovering" /\ c.key = None /\ Patch(c, "dispatch-requested")
        /\ UNCHANGED <<scoped, starts, runs, statuses>>
    BY <1>6 DEF RequestDispatch, CiInv, MemoryIsSound
  <2> QED BY <1>1, <2>1, RequestIsOk DEF Holding
<1>7. ASSUME PollRun PROVE Written \/ (UNCHANGED ledger /\ Calm)
  <2>1. PICK r \in Found(Cleared) : \/ UNCHANGED ledger /\ c' = Cleared
                                   \/ /\ Attached(Cleared, r).key # Cleared.key
                                      /\ Patch(Attached(Cleared, r), "attached")
    BY <1>7, Zenon DEF PollRun
  <2>2. pc = "waiting" /\ pc' = "reading" /\ UNCHANGED <<scoped, starts, runs, statuses>>
    BY <1>7 DEF PollRun, Goto
  <2>3. ASSUME Attached(Cleared, r).key # Cleared.key, Patch(Attached(Cleared, r), "attached") PROVE Written
    <3>1. r \in Created
      BY DEF Found, Survivors
    <3>2. PatchOk(Attached(Cleared, r), "attached") /\ Attached(Cleared, r).head = c.head
      BY <1>2, <2>2, <2>3, <3>1, PollAttaches, ClearedOf, AttachedTo
    <3> QED BY <1>1, <2>2, <2>3, <3>2 DEF Holding
  <2> QED BY <2>1, <2>2, <2>3 DEF Calm
<1>8. ASSUME PollStatus PROVE Written
  <2>1. PICK s \in statuses, board \in BOOLEAN : Judge(s, board)
    BY <1>8 DEF PollStatus
  <2>2. c.key # None /\ c.key \notin c.terminals /\ Patch(c, "completed")
    BY <2>1 DEF Judge, Correlated
  <2>3. pc \in {"reading", "rereading"} /\ UNCHANGED <<scoped, starts, runs, statuses>>
    BY <1>8 DEF PollStatus
  <2> QED BY <1>1, <2>2, <2>3, CompletionIsOk DEF Holding
<1>9. ASSUME Condemn PROVE Written
  <2>1. /\ Patch([c EXCEPT !.last = wait.snap, !.noStatus = TRUE, !.terminals = @ \union {wait.snap}], "completed")
        /\ UNCHANGED <<scoped, starts, runs, statuses>>
    BY <1>9 DEF Condemn
  <2>2. pc = "reading" /\ wait.done
    BY <1>9 DEF Condemn, Finished
  <2>3. wait.snap = c.key /\ c.key # None
    BY <2>2 DEF CiInv, MemoryIsSound
  <2>4. [c EXCEPT !.last = wait.snap, !.noStatus = TRUE, !.terminals = @ \union {wait.snap}].head = c.head
    BY <1>2 DEF Contract
  <2> QED BY <1>1, <2>1, <2>2, <2>3, <2>4, CondemnationIsOk DEF Holding
<1>10. \/ EnsureIntent \/ BeginDispatch \/ Discover \/ RequestDispatch \/ PollRun \/ PollStatus \/ Condemn
       \/ UNCHANGED ledger /\ (HeadMoves \/ RunAdvances \/ PersonReruns \/ StatusPublished \/ UNCHANGED vars)
       \/ UNCHANGED ledger /\ (Activate \/ Crash \/ QualificationRefused \/ StopLoop \/ HistoricalLost
                              \/ PrepareRefused \/ MergeRefused)
       \/ UNCHANGED ledger /\ (BeginQualification \/ PollRunBlind \/ Reconcile \/ Rerun)
       \/ UNCHANGED ledger /\ (RetainAttachment \/ Dispatch \/ WaitForVisibility \/ PollHead \/ ConfirmFirst
                              \/ ConfirmSecond \/ PollAgain \/ EarlyFailure \/ RecordObligation \/ ReviewAgain
                              \/ Accept \/ HistoricalOutcome \/ PrepareMerge \/ Merge)
  BY DEF Next, vars, github, GitHubStep, DispatchStep, WaitStep, LoopStep, HeadMoves, RunAdvances,
     PersonReruns, StatusPublished, Activate, Crash, BeginQualification, QualificationRefused,
     RetainAttachment, Dispatch, WaitForVisibility, PollHead, PollRunBlind, ConfirmFirst,
     ConfirmSecond, PollAgain, EarlyFailure, Rerun, RecordObligation, StopLoop, ReviewAgain,
     Accept, Reconcile, HistoricalOutcome, HistoricalLost, PrepareMerge, PrepareRefused, Merge,
     MergeRefused
<1>11. HeadMoves \/ RunAdvances \/ PersonReruns \/ StatusPublished \/ UNCHANGED vars => Calm
  BY DEF Calm, HeadMoves, RunAdvances, PersonReruns, StatusPublished, vars
<1>12. Activate \/ Crash \/ QualificationRefused \/ StopLoop \/ HistoricalLost \/ PrepareRefused \/ MergeRefused
       => Calm
  BY DEF Calm, Activate, Crash, QualificationRefused, StopLoop, HistoricalLost, PrepareRefused, MergeRefused,
     Forget, Goto, Qualifying, Holding
<1>13. BeginQualification \/ PollRunBlind \/ Reconcile \/ Rerun => Calm
  BY DEF Calm, BeginQualification, PollRunBlind, Reconcile, Rerun, Goto, Qualifying, Holding
<1>14. RetainAttachment \/ Dispatch \/ WaitForVisibility \/ PollHead \/ ConfirmFirst
       \/ ConfirmSecond \/ PollAgain \/ EarlyFailure \/ RecordObligation \/ ReviewAgain
       \/ Accept \/ HistoricalOutcome \/ PrepareMerge \/ Merge => Calm
  BY DEF Calm, RetainAttachment, Dispatch, WaitForVisibility, PollHead, ConfirmFirst,
     ConfirmSecond, PollAgain, EarlyFailure, RecordObligation, ReviewAgain, Accept, HistoricalOutcome,
     PrepareMerge, Merge, Goto, Ends, NextPoll, Qualifying, Holding
<1> QED BY <1>3, <1>4, <1>5, <1>6, <1>7, <1>8, <1>9, <1>10, <1>11, <1>12, <1>13, <1>14

(* A PATCH keeps every record sound, takes no second intent for a head and *)
(* gives up no attempt that ended without a status.                        *)
LEMMA PatchKeeps ==
  ASSUME CiInv, NEW k \in Contract, NEW state \in States \ {"none"}, PatchOk(k, state), Patch(k, state),
         UNCHANGED <<scoped, starts, runs, statuses>>
  PROVE  /\ \A i \in Intents : EntryIsSound(i)'
         /\ OneIntentPerHead'
         /\ c'.nonce # 0 /\ Mirrors'
         /\ \A i \in Posted : i \in Posted' /\ ledger'[i].head = ledger[i].head
         /\ \A i \in Intents :
              /\ ledger[i].terminals \subseteq ledger'[i].terminals
              /\ ledger[i].key # None /\ ledger'[i].key = None => ledger[i].key \in ledger'[i].terminals
<1> DEFINE n == k.nonce
           e == Body(k, state)
<1>1. CiTypes /\ n \in Intents /\ Generation' = Generation /\ Created' = Created /\ n # 0
  BY Bounds DEF CiInv, PatchOk, Generation, Created, Intents
<1>2. /\ ledger'[n] = e /\ \A i \in Intents \ {n} : ledger'[i] = ledger[i]
      /\ c'.nonce = n /\ c'.head = k.head /\ c'.key = k.key /\ c'.terminals = k.terminals /\ c'.last = k.last
  BY <1>1, PatchOf
<1>3. /\ e.head = k.head /\ e.gen = Generation /\ e.state = state /\ e.terminals = k.terminals /\ e.last = k.last
      /\ (state \in Early => e.key = None) /\ (state \notin Early => e.key = k.key)
  BY <1>1, BodyOf
<1>4. e.key = k.key /\ Valid(e) /\ Keyed(n, k.key, k.terminals) /\ state # "none"
  BY <1>3 DEF PatchOk
<1> HIDE DEF e, n
<1>5. \A i \in Intents : EntryIsSound(i)'
  <2>1. \A i \in Intents \ {n} : EntryIsSound(i) /\ ledger'[i] = ledger[i]
    BY <1>2 DEF CiInv, LedgerInv
  <2>2. \A i \in Intents \ {n} : EntryIsSound(i)'
    BY <1>1, <2>1 DEF EntryIsSound, Keyed, Owns
  <2>3. Keyed(n, k.key, k.terminals)'
    BY <1>1, <1>4 DEF Keyed, Owns
  <2>4. EntryIsSound(n)'
    BY <1>2, <1>3, <1>4, <2>3 DEF EntryIsSound, Keyed
  <2> QED BY <2>2, <2>4
<1>6. Mirrors'
  BY <1>1, <1>2, <1>3, <1>4 DEF Mirrors
<1>7. Posted' = Posted \union {n}
  BY <1>1, <1>2, <1>3, <1>4 DEF Posted
<1>8. \/ /\ n \in Posted /\ ledger[n].head = k.head /\ ledger[n].gen = Generation
         /\ ledger[n].terminals \subseteq k.terminals
         /\ ledger[n].key # None => k.key # None \/ ledger[n].key \in k.terminals
      \/ /\ ledger[n] = NoIntent
         /\ \A i \in Posted : ~(ledger[i].head = k.head /\ ledger[i].gen = Generation)
  BY DEF PatchOk, n
<1>9. OneIntentPerHead'
  <2>1. \A i, j \in Posted : ledger[i].head = ledger[j].head /\ ledger[i].gen = ledger[j].gen => i = j
    BY DEF CiInv, LedgerInv, OneIntentPerHead
  <2>2. \A i \in Posted : i \in Intents
    BY DEF Posted
  <2>3. CASE n \in Posted /\ ledger[n].head = k.head /\ ledger[n].gen = Generation
    <3>1. \A i \in Posted : ledger'[i].head = ledger[i].head /\ ledger'[i].gen = ledger[i].gen
      BY <1>2, <1>3, <2>2, <2>3
    <3> QED BY <1>7, <2>1, <2>3, <3>1 DEF OneIntentPerHead
  <2>4. CASE n \notin Posted /\ \A i \in Posted : ~(ledger[i].head = k.head /\ ledger[i].gen = Generation)
    <3>1. \A i \in Posted : i # n /\ ledger'[i].head = ledger[i].head /\ ledger'[i].gen = ledger[i].gen
      BY <1>2, <2>2, <2>4
    <3> QED BY <1>2, <1>3, <1>7, <2>1, <2>4, <3>1 DEF OneIntentPerHead
  <2>5. ledger[n] = NoIntent => n \notin Posted
    BY DEF Posted, NoIntent
  <2> QED BY <1>8, <2>3, <2>4, <2>5
<1>10. \A i \in Posted : i \in Posted' /\ ledger'[i].head = ledger[i].head
  <2>1. ledger[n] = NoIntent => n \notin Posted
    BY DEF Posted, NoIntent
  <2> QED BY <1>2, <1>3, <1>7, <1>8, <2>1 DEF Posted
<1>11. /\ ledger[n].terminals \subseteq ledger'[n].terminals
       /\ ledger[n].key # None /\ ledger'[n].key = None => ledger[n].key \in ledger'[n].terminals
  BY <1>2, <1>3, <1>4, <1>8 DEF NoIntent
<1> QED BY <1>1, <1>2, <1>5, <1>6, <1>9, <1>10, <1>11

-----------------------------------------------------------------------------
(* Types *)

(* A restored contract carries the fields of its record.                   *)
LEMMA RestoredOf ==
  ASSUME CiInv, NEW i \in Posted
  PROVE  /\ Restored(i) \in Contract /\ Restored(i).nonce = i /\ Restored(i).head = ledger[i].head
         /\ Restored(i).terminals = ledger[i].terminals /\ Restored(i).last = ledger[i].last
         /\ Restored(i).key = IF ledger[i].key \in ledger[i].terminals THEN None ELSE ledger[i].key
         /\ Restored(i).noStatus <=> ledger[i].noStatus /\ (Restored(i).key = None)
<1>1. i \in Intents /\ ledger[i] \in Entry /\ i \in 0..MaxIntents
  BY Bounds DEF Posted, CiInv, CiTypes, Intents
<1>2. Restored(i).key \in Keys
  BY <1>1, NoneIsNoAttempt DEF Restored, Entry
<1>3. Restored(i).noStatus \in BOOLEAN
  BY <1>1 DEF Restored, Entry
<1>4. Restored(i) \in Contract
  BY <1>1, <1>2, <1>3 DEF Restored, Entry, Contract
<1>5. Restored(i).noStatus <=> ledger[i].noStatus /\ (Restored(i).key = None)
  BY <1>1 DEF Restored, Entry
<1> QED BY <1>4, <1>5 DEF Restored

(* The contract stays typed, and of the head that is being qualified.      *)
LEMMA ContractTyped ==
  ASSUME CiInv, [Next]_vars
  PROVE  ledger' \in [Intents -> Entry] /\ c' \in Contract /\ (pc' \in Qualifying => c'.head \in Heads)
<1>1. /\ CiTypes /\ ledger \in [Intents -> Entry] /\ c \in Contract /\ live \in Heads
      /\ (pc \in Qualifying => c.head \in Heads)
  BY DEF CiInv, CiTypes
<1>2. CASE Written
  <2>1. PICK k \in Contract, state \in States \ {"none"} :
               PatchOk(k, state) /\ Patch(k, state) /\ k.head = c.head
    BY <1>2 DEF Written
  <2>2. ledger' \in [Intents -> Entry] /\ c' \in Contract /\ c'.head = c.head
    BY <1>1, <2>1, PatchOf DEF PatchOk
  <2>3. pc \in Qualifying
    BY <1>2 DEF Written, Qualifying
  <2> QED BY <1>1, <2>2, <2>3
<1>3. CASE UNCHANGED ledger /\ c' = NoContract /\ pc' \notin Qualifying
  BY <1>1, <1>3, Blanks
<1>4. CASE UNCHANGED ledger /\ UNCHANGED c /\ (pc' \notin Qualifying \/ pc \in Qualifying)
  BY <1>1, <1>4
<1>5. CASE UNCHANGED ledger /\ BeginQualification
  <2>1. c' = [Released(live) EXCEPT !.head = live] /\ Released(live) \in Contract
    BY <1>1, <1>5, Blanks DEF BeginQualification, Released
  <2>2. c' \in Contract /\ c'.head = live
    BY <1>1, <2>1 DEF Contract
  <2> QED BY <1>1, <1>5, <2>2
<1>6. CASE UNCHANGED ledger /\ EnsureIntent /\ \E i \in Candidates(c.head) : c' = Restored(i)
  <2>1. PICK i \in Candidates(c.head) : c' = Restored(i)
    BY <1>6
  <2>2. i \in Posted /\ ledger[i].head = c.head /\ pc = "ensuring"
    BY <1>6 DEF Candidates, EnsureIntent
  <2> QED BY <1>1, <1>6, <2>1, <2>2, RestoredOf DEF Qualifying
<1>7. CASE UNCHANGED ledger /\ c' = Cleared /\ pc = "waiting"
  BY <1>1, <1>7, ClearedOf DEF Qualifying, Holding
<1>8. CASE UNCHANGED ledger /\ c' = [NoContract EXCEPT !.head = live] /\ pc' = "historical"
  BY <1>1, <1>8, Blanks DEF Contract, Qualifying, Holding
<1> QED BY <1>2, <1>3, <1>4, <1>5, <1>6, <1>7, <1>8, LedgerMoves DEF Calm

(* A poll that was not the last leaves some.                               *)
LEMMA PollsLeft ==
  ASSUME CiInv, NEW w \in Wait, w.polls > 0, NextPoll(w)
  PROVE  /\ wait' \in Wait /\ ((pc' = "waiting" /\ wait'.polls > 0) \/ pc' = "routing")
         /\ outcome' = outcome \/ outcome' = "timeout"
<1>1. w.polls \in 0..MaxPolls
  BY DEF Wait
<1>2. w.polls - 1 \in 0..MaxPolls /\ (w.polls > 1 => w.polls - 1 > 0)
  BY <1>1, Bounds
<1>3. wait' = [w EXCEPT !.polls = w.polls - 1, !.snap = None, !.done = FALSE]
  BY DEF NextPoll
<1>4. wait' \in Wait /\ wait'.polls = w.polls - 1
  BY <1>2, <1>3, NoneIsNoAttempt DEF Wait
<1> QED BY <1>2, <1>4 DEF NextPoll, Ends, Goto

(* The wait stays typed, and goes on only while polls are left.            *)
LEMMA WaitTyped ==
  ASSUME CiInv, [Next]_vars
  PROVE  wait' \in Wait /\ (pc' \in Holding \union {"ensuring"} => wait'.polls > 0)
<1> DEFINE Goal == wait' \in Wait /\ (pc' \in Holding \union {"ensuring"} => wait'.polls > 0)
<1>1. CiTypes /\ wait \in Wait /\ (pc \in Holding \union {"ensuring"} => wait.polls > 0) /\ c \in Contract
  BY DEF CiInv, CiTypes
<1>2. ASSUME UNCHANGED wait, pc' \notin Holding \union {"ensuring"} \/ pc \in Holding \union {"ensuring"} PROVE Goal
  BY <1>1, <1>2
<1>3. ASSUME wait' = NoWait, pc' \notin Holding \union {"ensuring"} PROVE Goal
  BY <1>3, Blanks
<1>4. ASSUME BeginQualification PROVE Goal
  <2>1. wait' = [NoWait EXCEPT !.polls = MaxPolls] /\ MaxPolls \in 0..MaxPolls
    BY <1>4, Bounds DEF BeginQualification
  <2>2. wait' \in Wait /\ wait'.polls = MaxPolls
    BY <2>1, Blanks DEF NoWait, Wait
  <2> QED BY <2>2, Bounds
<1>5. ASSUME PollRun PROVE Goal
  <2>1. PICK r \in Found(Cleared) : wait' = [wait EXCEPT !.snap = Attached(Cleared, r).key,
                                                         !.done = runs[r].state \in {"completed", "cancelled"}]
    BY <1>5, Zenon DEF PollRun
  <2>2. r \in Created /\ RunsAreBorn
    BY DEF Found, Survivors, CiInv, LedgerInv
  <2>3. Attached(Cleared, r).key \in Keys
    BY <1>1, <2>2, ClearedOf, AttachedTo DEF Keys
  <2>b. (runs[r].state \in {"completed", "cancelled"}) \in BOOLEAN
    OBVIOUS
  <2>a. PICK snap \in Keys, done \in BOOLEAN : wait' = [wait EXCEPT !.snap = snap, !.done = done]
    BY <2>1, <2>3, <2>b, Zenon
  <2>4. wait' \in Wait /\ wait'.polls = wait.polls
    BY <1>1, <2>a DEF Wait
  <2>5. pc = "waiting"
    BY <1>5 DEF PollRun
  <2> QED BY <1>1, <2>4, <2>5 DEF Holding
<1>6. ASSUME PollRunBlind PROVE Goal
  <2>1. wait' = [wait EXCEPT !.snap = None, !.done = FALSE] /\ pc = "waiting"
    BY <1>6 DEF PollRunBlind
  <2>2. wait' \in Wait /\ wait'.polls = wait.polls
    BY <1>1, <2>1, NoneIsNoAttempt DEF Wait
  <2> QED BY <1>1, <2>1, <2>2 DEF Holding
<1>7. ASSUME ConfirmFirst PROVE Goal
  <2>1. wait' = [wait EXCEPT !.key = wait.snap, !.seen = FALSE] /\ pc = "reading"
    BY <1>7 DEF ConfirmFirst
  <2>2. wait' \in Wait /\ wait'.polls = wait.polls
    BY <1>1, <2>1 DEF Wait
  <2> QED BY <1>1, <2>1, <2>2 DEF Holding
<1>8. ASSUME ConfirmSecond PROVE Goal
  <2>1. pc = "rereading" /\ NextPoll([wait EXCEPT !.seen = TRUE])
    BY <1>8 DEF ConfirmSecond
  <2>2. [wait EXCEPT !.seen = TRUE] \in Wait /\ [wait EXCEPT !.seen = TRUE].polls = wait.polls
    BY <1>1 DEF Wait
  <2>3. wait.polls > 0
    BY <1>1, <2>1 DEF Holding
  <2>4. wait' \in Wait /\ ((pc' = "waiting" /\ wait'.polls > 0) \/ pc' = "routing")
    BY <2>1, <2>2, <2>3, PollsLeft
  <2> QED BY <2>4 DEF Holding
<1>9. ASSUME PollAgain PROVE Goal
  <2>1. pc \in {"reading", "rereading"} /\ NextPoll(wait)
    BY <1>9 DEF PollAgain
  <2>2. wait.polls > 0
    BY <1>1, <2>1 DEF Holding
  <2>3. wait' \in Wait /\ ((pc' = "waiting" /\ wait'.polls > 0) \/ pc' = "routing")
    BY <1>1, <2>1, <2>2, PollsLeft
  <2> QED BY <2>3 DEF Holding
<1>10. ASSUME Rerun PROVE Goal
  <2>1. /\ wait' = [NoWait EXCEPT !.polls = wait.polls - 1, !.least = ledger[c.nonce].key[2] + 1]
        /\ wait.polls > 1 /\ c.key # None /\ ledger[c.nonce].key[1] = c.key[1]
    BY <1>10 DEF Rerun, RerunAllowed, RerunRecorded
  <2>2. c.nonce # 0
    BY <2>1 DEF CiInv, MemoryIsSound
  <2>3. ledger[c.nonce].key = c.key /\ c.key \in Attempts
    BY <1>1, <2>1, <2>2, Held DEF Contract, Keys
  <2>4. ledger[c.nonce].key[2] + 1 \in Nat
    BY <2>3, NoneIsNoAttempt, AttemptsCount
  <2>5. wait.polls \in 0..MaxPolls
    BY <1>1 DEF Wait
  <2>6. wait.polls - 1 \in 0..MaxPolls /\ wait.polls - 1 > 0
    BY <2>1, <2>5, Bounds
  <2>7. wait' \in Wait /\ wait'.polls = wait.polls - 1
    BY <2>1, <2>4, <2>6, Blanks DEF NoWait, Wait
  <2> QED BY <2>6, <2>7
<1>11. \/ UNCHANGED wait /\ (pc' \notin Holding \union {"ensuring"} \/ pc \in Holding \union {"ensuring"})
       \/ wait' = NoWait /\ pc' \notin Holding \union {"ensuring"}
       \/ BeginQualification \/ PollRun \/ PollRunBlind \/ ConfirmFirst \/ ConfirmSecond \/ PollAgain \/ Rerun
  <2>1. CASE UNCHANGED vars
    BY <2>1 DEF vars
  <2>2. CASE GitHubStep
    BY <2>2 DEF GitHubStep, HeadMoves, RunAdvances, PersonReruns, StatusPublished
  <2>3. CASE Activate \/ Crash
    BY <2>3 DEF Activate, Crash, Forget, Goto, Holding
  <2>4. CASE DispatchStep
    BY <2>4 DEF DispatchStep, EnsureIntent, QualificationRefused, RetainAttachment, BeginDispatch, Discover,
       RequestDispatch, Dispatch, WaitForVisibility, Forget, Goto, Holding
  <2>5. CASE WaitStep
    <3>1. ASSUME PollStatus PROVE UNCHANGED wait /\ pc' \notin Holding \union {"ensuring"}
      <4>1. PICK s \in statuses, board \in BOOLEAN : Judge(s, board)
        BY <3>1 DEF PollStatus
      <4> QED BY <4>1 DEF Judge, Ends, Goto, Holding
    <3>2. PollHead \/ Condemn \/ EarlyFailure => UNCHANGED wait /\ pc' \notin Holding \union {"ensuring"}
      BY DEF PollHead, Condemn, EarlyFailure, Ends, Goto, Holding
    <3> QED BY <2>5, <3>1, <3>2 DEF WaitStep
  <2>6. CASE LoopStep
    BY <2>6 DEF LoopStep, RecordObligation, StopLoop, ReviewAgain, Accept, Reconcile, HistoricalOutcome,
       HistoricalLost, PrepareMerge, PrepareRefused, Merge, MergeRefused, Forget, Goto, Holding
  <2> QED BY <2>1, <2>2, <2>3, <2>4, <2>5, <2>6 DEF Next
<1> QED BY <1>2, <1>3, <1>4, <1>5, <1>6, <1>7, <1>8, <1>9, <1>10, <1>11

(* Who moves the head, the process and the obligation.                     *)
LEMMA Frames ==
  ASSUME [Next]_vars
  PROVE  /\ UNCHANGED scoped /\ (UNCHANGED <<live, moved>> \/ HeadMoves) /\ (UNCHANGED merged \/ Merge)
         /\ UNCHANGED starts \/ Activate
         /\ UNCHANGED reruns \/ reruns' = {} \/ Rerun
         /\ \/ UNCHANGED failed \/ RecordObligation
            \/ failed' = [failed EXCEPT !.cleared = TRUE] \/ failed' = [failed EXCEPT !.cleared = FALSE]
         /\ UNCHANGED proof \/ proof' = None \/ PollStatus \/ Reconcile
<1> USE DEF Next, vars, github, GitHubStep, DispatchStep, WaitStep, LoopStep, RunAdvances, PersonReruns,
     StatusPublished, Crash, BeginQualification, EnsureIntent, QualificationRefused, RetainAttachment,
     BeginDispatch, Discover, RequestDispatch, Dispatch, WaitForVisibility, PollHead, PollRun, PollRunBlind,
     ConfirmFirst, ConfirmSecond, Condemn, PollAgain, EarlyFailure, StopLoop, ReviewAgain, Accept,
     HistoricalOutcome, HistoricalLost, PrepareMerge, PrepareRefused, MergeRefused, Forget
<1>1. UNCHANGED scoped
  BY DEF HeadMoves, Activate, PollStatus, Rerun, RecordObligation, Reconcile, Merge
<1>2. UNCHANGED <<live, moved>> \/ HeadMoves
  BY DEF Activate, PollStatus, Rerun, RecordObligation, Reconcile, Merge
<1>3. UNCHANGED merged \/ Merge
  BY DEF HeadMoves, Activate, PollStatus, Rerun, RecordObligation, Reconcile
<1>4. UNCHANGED starts \/ Activate
  BY DEF HeadMoves, PollStatus, Rerun, RecordObligation, Reconcile, Merge
<1>5. UNCHANGED reruns \/ reruns' = {} \/ Rerun
  BY DEF HeadMoves, Activate, PollStatus, RecordObligation, Reconcile, Merge
<1>6. \/ UNCHANGED failed \/ RecordObligation
      \/ failed' = [failed EXCEPT !.cleared = TRUE] \/ failed' = [failed EXCEPT !.cleared = FALSE]
  BY DEF HeadMoves, Activate, PollStatus, Rerun, Reconcile, Merge
<1>7. UNCHANGED proof \/ proof' = None \/ PollStatus \/ Reconcile
  BY DEF HeadMoves, Activate, Rerun, RecordObligation, Merge
<1> QED BY <1>1, <1>2, <1>3, <1>4, <1>5, <1>6, <1>7

(* The head, the process and the obligation stay typed.                    *)
LEMMA OthersTyped ==
  ASSUME CiInv, [Next]_vars
  PROVE  /\ scoped' \in BOOLEAN /\ live' \in Heads /\ moved' \subseteq Heads
         /\ merged' \in Heads \union {NoHead} /\ starts' \in 0..MaxRestarts /\ reruns' \subseteq Heads
         /\ outcome' \in {"none", "passed", "failed", "head_changed", "terminal_without_status", "timeout"}
         /\ proof' \in Keys /\ failed' \in Failure /\ pc' \in Labels
<1>1. /\ CiTypes /\ scoped \in BOOLEAN /\ live \in Heads /\ moved \subseteq Heads
      /\ merged \in Heads \union {NoHead} /\ starts \in 0..MaxRestarts /\ reruns \subseteq Heads
      /\ outcome \in {"none", "passed", "failed", "head_changed", "terminal_without_status", "timeout"}
      /\ proof \in Keys /\ failed \in Failure /\ pc \in Labels /\ c \in Contract /\ statuses \subseteq Status
      /\ (pc \in Qualifying => c.head \in Heads)
  BY DEF CiInv, CiTypes
<1>2. scoped' \in BOOLEAN
  BY <1>1, Frames
<1>3. live' \in Heads /\ moved' \subseteq Heads
  BY <1>1, Frames DEF HeadMoves
<1>4. merged' \in Heads \union {NoHead}
  BY <1>1, Frames DEF Merge
<1>5. starts' \in 0..MaxRestarts
  <2>1. UNCHANGED starts \/ (starts < MaxRestarts /\ starts' = starts + 1)
    BY Frames DEF Activate
  <2> QED BY <1>1, <2>1, Bounds
<1>6. reruns' \subseteq Heads
  <2>1. Rerun => reruns' = reruns \union {c.head} /\ c.head \in Heads
    BY <1>1 DEF Rerun, Qualifying
  <2> QED BY <1>1, <2>1, Frames
<1>7. failed' \in Failure
  <2>1. c.head \in Heads \union {NoHead} /\ c.nonce \in 0..MaxIntents /\ c.key \in Keys
    BY <1>1 DEF Contract
  <2>2. [head |-> c.head, nonce |-> c.nonce, key |-> c.key, cleared |-> FALSE] \in Failure
    BY <2>1 DEF Failure
  <2>3. [failed EXCEPT !.cleared = TRUE] \in Failure /\ [failed EXCEPT !.cleared = FALSE] \in Failure
    BY <1>1 DEF Failure
  <2>4. RecordObligation => failed' = [head |-> c.head, nonce |-> c.nonce, key |-> c.key, cleared |-> FALSE]
    BY DEF RecordObligation
  <2> QED BY <1>1, <2>2, <2>3, <2>4, Frames
<1>8. proof' \in Keys
  <2>1. \/ UNCHANGED proof \/ proof' = None
        \/ \E s \in statuses : proof' = s.key
        \/ \E r \in Created, n \in 1..MaxAttempts : proof' = <<r, n>>
    <3>1. ASSUME PollStatus PROVE UNCHANGED proof \/ \E s \in statuses : proof' = s.key
      <4>1. PICK s \in statuses, board \in BOOLEAN : Judge(s, board)
        BY <3>1 DEF PollStatus
      <4> QED BY <4>1 DEF Judge
    <3>2. ASSUME Reconcile PROVE UNCHANGED proof \/ \E r \in Created, n \in 1..MaxAttempts : proof' = <<r, n>>
      BY <3>2, Zenon DEF Reconcile
    <3> QED BY <3>1, <3>2, Frames
  <2>2. \A s \in statuses : s.key \in Keys
    BY <1>1 DEF Status, Keys
  <2>3. \A r \in Created, n \in 1..MaxAttempts : <<r, n>> \in Keys
    BY NoneIsNoAttempt DEF Created, Keys
  <2> QED BY <1>1, <2>1, <2>2, <2>3, NoneIsNoAttempt
<1>9. outcome' \in {"none", "passed", "failed", "head_changed", "terminal_without_status", "timeout"} /\ pc' \in Labels
  <2>1. CASE UNCHANGED vars \/ GitHubStep \/ Activate \/ Crash
    BY <1>1, <2>1 DEF vars, GitHubStep, HeadMoves, RunAdvances, PersonReruns, StatusPublished, Activate, Crash,
       Forget, Goto, Labels
  <2>2. CASE DispatchStep
    BY <1>1, <2>2 DEF DispatchStep, BeginQualification, EnsureIntent, QualificationRefused, RetainAttachment,
       BeginDispatch, Discover, RequestDispatch, Dispatch, WaitForVisibility, Forget, Goto, Labels, Qualifying, Holding
  <2>3. CASE WaitStep
    <3>1. ASSUME PollStatus PROVE outcome' \in {"passed", "failed"} /\ pc' = "routing"
      <4>1. PICK s \in statuses, board \in BOOLEAN : Judge(s, board)
        BY <3>1 DEF PollStatus
      <4> QED BY <4>1 DEF Judge, Ends, Goto
    <3>2. ASSUME ConfirmSecond \/ PollAgain
          PROVE  (UNCHANGED outcome \/ outcome' = "timeout") /\ pc' \in {"waiting", "routing"}
      BY <3>2 DEF ConfirmSecond, PollAgain, NextPoll, Ends, Goto
    <3>3. ASSUME PollHead \/ PollRun \/ PollRunBlind \/ ConfirmFirst \/ Condemn \/ EarlyFailure
          PROVE  /\ UNCHANGED outcome \/ outcome' \in {"head_changed", "terminal_without_status", "failed"}
                 /\ pc' \in {"routing", "reading", "rereading"}
      BY <3>3 DEF PollHead, PollRun, PollRunBlind, ConfirmFirst, Condemn, EarlyFailure, Ends, Goto
    <3> QED BY <1>1, <2>3, <3>1, <3>2, <3>3 DEF WaitStep, Labels, Qualifying, Holding
  <2>4. CASE LoopStep
    BY <1>1, <2>4 DEF LoopStep, Rerun, RecordObligation, StopLoop, ReviewAgain, Accept, Reconcile, HistoricalOutcome,
       HistoricalLost, PrepareMerge, PrepareRefused, Merge, MergeRefused, Forget, Goto, Labels, Qualifying, Holding
  <2> QED BY <2>1, <2>2, <2>3, <2>4 DEF Next
<1> QED BY <1>2, <1>3, <1>4, <1>5, <1>6, <1>7, <1>8, <1>9

(* Every step keeps the types.                                             *)
LEMMA TypesStep ==
  ASSUME CiInv, [Next]_vars
  PROVE  CiTypes'
  BY ContractTyped, WaitTyped, OthersTyped, GrowthOfSteps DEF CiTypes

-----------------------------------------------------------------------------
(* The ledger, the memory and the failure on record *)

(* Every step keeps the records sound and each head to one intent.         *)
LEMMA LedgerStep ==
  ASSUME CiInv, [Next]_vars
  PROVE  LedgerInv'
<1>1. RunsAreBorn' /\ Growth /\ CiTypes /\ CiTypes'
  BY GrowthOfSteps, TypesStep DEF CiInv
<1>2. CASE Written
  <2>1. (\A i \in Intents : EntryIsSound(i)') /\ OneIntentPerHead'
    BY <1>2, PatchKeeps DEF Written
  <2> QED BY <1>1, <2>1 DEF LedgerInv
<1>3. CASE UNCHANGED ledger
  <2>1. ASSUME NEW i \in Intents PROVE EntryIsSound(i)'
    <3>1. EntryIsSound(i) /\ ledger[i].key \in Keys /\ ledger[i].terminals \in SUBSET Attempts
      BY <1>1 DEF CiInv, LedgerInv, CiTypes, Entry
    <3>2. PICK key \in Keys, terminals \in SUBSET Attempts : key = ledger[i].key /\ terminals = ledger[i].terminals
      BY <3>1
    <3>3. Keyed(i, key, terminals) => Keyed(i, key, terminals)'
      BY <1>1, KeyedStays
    <3>4. ledger'[i].key = key /\ ledger'[i].terminals = terminals
      BY <1>3, <3>2
    <3>5. ledger[i] # NoIntent => Keyed(i, key, terminals)' /\ ledger[i].state # "none" /\ Valid(ledger[i])
      BY <3>1, <3>2, <3>3 DEF EntryIsSound
    <3> QED BY <1>3, <3>4, <3>5 DEF EntryIsSound, Keyed, Valid
  <2>2. OneIntentPerHead'
    BY <1>3 DEF CiInv, LedgerInv, OneIntentPerHead, Posted
  <2> QED BY <1>1, <2>1, <2>2 DEF LedgerInv
<1> QED BY <1>2, <1>3, LedgerMoves

(* An intent that is posted stays posted, for its head.                    *)
LEMMA PostedStays ==
  ASSUME CiInv, [Next]_vars, NEW i \in Posted
  PROVE  i \in Posted' /\ ledger'[i].head = ledger[i].head
<1>1. CASE Written
  BY <1>1, PatchKeeps DEF Written
<1>2. CASE UNCHANGED ledger
  BY <1>2 DEF Posted
<1> QED BY <1>1, <1>2, LedgerMoves

(* The failed attempt stays one of the intent of the failed head.          *)
LEMMA FailureStep ==
  ASSUME CiInv, [Next]_vars
  PROVE  FailureIsOwned'
<1>1. CiTypes /\ CiTypes' /\ Growth /\ failed \in Failure
  BY GrowthOfSteps, TypesStep DEF CiInv, CiTypes
<1>2. ASSUME failed'.head = failed.head, failed'.nonce = failed.nonce, failed'.key = failed.key
      PROVE  FailureIsOwned'
  <2> SUFFICES ASSUME failed.key # None PROVE FailureIsOwned'
    BY <1>2 DEF FailureIsOwned
  <2>1. Owns(failed.nonce, failed.key) /\ failed.nonce \in Posted /\ ledger[failed.nonce].head = failed.head
    BY DEF CiInv, FailureIsOwned
  <2>2. failed.key \in Attempts /\ failed.nonce \in Intents
    BY <1>1, <2>1 DEF Failure, Keys, Posted
  <2>a. PICK i \in Intents, key \in Attempts : i = failed.nonce /\ key = failed.key
    BY <2>2
  <2>3. Owns(i, key)'
    BY <1>1, <2>1, <2>a, OwnsStays
  <2>4. i \in Posted' /\ ledger'[i].head = failed.head
    BY <2>1, <2>a, PostedStays
  <2> QED BY <1>2, <2>a, <2>3, <2>4 DEF FailureIsOwned, Owns
<1>3. CASE RecordObligation
  <2>1. /\ failed' = [head |-> c.head, nonce |-> c.nonce, key |-> c.key, cleared |-> FALSE]
        /\ UNCHANGED <<ledger, runs, c>>
    BY <1>3 DEF RecordObligation, github
  <2> SUFFICES ASSUME c.key # None PROVE FailureIsOwned'
    BY <2>1 DEF FailureIsOwned
  <2>2. c.nonce # 0
    BY DEF CiInv, MemoryIsSound
  <2>3. Keyed(c.nonce, c.key, c.terminals) /\ c.nonce \in Posted /\ ledger[c.nonce].head = c.head
    BY <2>2, Held
  <2>4. Owns(c.nonce, c.key)
    BY <2>3 DEF Keyed
  <2> QED BY <2>1, <2>3, <2>4 DEF FailureIsOwned, Owns, Created, Posted
<1>4. failed' = [failed EXCEPT !.cleared = TRUE] \/ failed' = [failed EXCEPT !.cleared = FALSE]
      => failed'.head = failed.head /\ failed'.nonce = failed.nonce /\ failed'.key = failed.key
  BY <1>1 DEF Failure
<1> QED BY <1>2, <1>3, <1>4, Frames

(* How the process comes to the labels at which the contract is used.      *)
LEMMA LabelMoves ==
  ASSUME [Next]_vars
  PROVE  /\ pc' = "intent" => EnsureIntent \/ UNCHANGED <<c, pc>>
         /\ pc' = "discovering" => BeginDispatch \/ UNCHANGED <<c, pc>>
         /\ pc' = "reading" => PollRun \/ PollRunBlind \/ UNCHANGED <<c, wait, pc>>
         /\ pc' \in Holding => pc \in Holding \/ EnsureIntent \/ c'.key # None \/ UNCHANGED <<c, pc>>
<1>1. CASE UNCHANGED vars \/ GitHubStep
  BY <1>1 DEF vars, GitHubStep, HeadMoves, RunAdvances, PersonReruns, StatusPublished
<1>2. CASE Activate \/ Crash
  BY <1>2 DEF Activate, Crash, Goto, Holding
<1>3. CASE DispatchStep
  <2>1. CASE BeginQualification
    BY <2>1 DEF BeginQualification, Goto, Holding
  <2>2. CASE RetainAttachment \/ Dispatch \/ WaitForVisibility \/ QualificationRefused
    BY <2>2 DEF QualificationRefused, RetainAttachment, Dispatch, WaitForVisibility, Goto, Holding
  <2>3. CASE Discover \/ RequestDispatch
    BY <2>3 DEF Discover, RequestDispatch, Goto, Holding
  <2>4. CASE EnsureIntent
    BY <2>4 DEF EnsureIntent, Goto
  <2>5. CASE BeginDispatch
    BY <2>5 DEF BeginDispatch, Goto, Holding
  <2> QED BY <1>3, <2>1, <2>2, <2>3, <2>4, <2>5 DEF DispatchStep
<1>4. CASE WaitStep
  <2>1. PollStatus => pc' = "routing"
    <3>1. ASSUME PollStatus PROVE pc' = "routing"
      <4>1. PICK s \in statuses, board \in BOOLEAN : Judge(s, board)
        BY <3>1 DEF PollStatus
      <4> QED BY <4>1 DEF Judge, Ends, Goto
    <3> QED BY <3>1
  <2> QED BY <1>4, <2>1 DEF WaitStep, PollHead, PollRun, PollRunBlind, ConfirmFirst, ConfirmSecond,
          Condemn, PollAgain, EarlyFailure, NextPoll, Ends, Goto, Holding
<1>5. CASE LoopStep
  BY <1>5 DEF LoopStep, Rerun, RerunRecorded, RecordObligation, StopLoop, ReviewAgain, Accept, Reconcile,
     HistoricalOutcome, HistoricalLost, PrepareMerge, PrepareRefused, Merge, MergeRefused, Goto, Holding
<1> QED BY <1>1, <1>2, <1>3, <1>4, <1>5 DEF Next

(* What the process holds goes on being what the ledger says.              *)
LEMMA MirrorsStep ==
  ASSUME CiInv, [Next]_vars
  PROVE  /\ c'.nonce # 0 => Mirrors'
         /\ c'.nonce = 0 => c'.key = None
         /\ (c'.key # None /\ c'.key \notin c'.terminals) => ~c'.noStatus
<1> DEFINE Goal == /\ c'.nonce # 0 => Mirrors'
                   /\ c'.nonce = 0 => c'.key = None
                   /\ (c'.key # None /\ c'.key \notin c'.terminals) => ~c'.noStatus
<1>1. /\ CiTypes /\ c \in Contract /\ (c.nonce # 0 => Mirrors) /\ (c.nonce = 0 => c.key = None)
      /\ ((c.key # None /\ c.key \notin c.terminals) => ~c.noStatus)
  BY DEF CiInv, CiTypes, MemoryIsSound
<1>2. ASSUME Written PROVE Goal
  <2>1. PICK k \in Contract, state \in States \ {"none"} :
               PatchOk(k, state) /\ Patch(k, state) /\ k.head = c.head
    BY <1>2 DEF Written
  <2>2. c'.nonce # 0 /\ Mirrors'
    BY <1>2, <2>1, PatchKeeps DEF Written
  <2>3. c'.key = k.key /\ c'.terminals = k.terminals /\ c'.noStatus = k.noStatus
    BY <1>1, <2>1, PatchOf DEF PatchOk
  <2>4. (k.key # None /\ k.key \notin k.terminals) => ~k.noStatus
    BY <2>1 DEF PatchOk
  <2> QED BY <2>2, <2>3, <2>4
<1>3. ASSUME UNCHANGED ledger, UNCHANGED <<scoped, starts>> PROVE Generation' = Generation
  BY <1>3 DEF Generation
<1>4. ASSUME c' = NoContract PROVE Goal
  BY <1>4 DEF NoContract
<1>5. ASSUME UNCHANGED <<ledger, c>>, Generation' = Generation PROVE Goal
  BY <1>1, <1>5 DEF Mirrors
<1>6. ASSUME UNCHANGED ledger, Generation' = Generation, BeginQualification PROVE Goal
  <2>1. c' = [Released(live) EXCEPT !.head = live]
    BY <1>6 DEF BeginQualification
  <2>2. CASE c.nonce # 0 /\ c.head # live
    <3>1. c' = [NoContract EXCEPT !.head = live]
      BY <2>1, <2>2 DEF Released
    <3> QED BY <3>1 DEF NoContract
  <2>3. CASE c.nonce # 0 /\ c.head = live
    <3>1. c' = c
      BY <1>1, <2>1, <2>3 DEF Released, Contract
    <3> QED BY <1>5, <1>6, <3>1
  <2>4. CASE c.nonce = 0
    <3>1. c' = [c EXCEPT !.head = live]
      BY <2>1, <2>4 DEF Released
    <3>a. c \in Contract
      BY <1>1
    <3>2. c'.nonce = c.nonce /\ c'.key = c.key
      BY <3>1, <3>a DEF Contract
    <3> QED BY <1>1, <2>4, <3>2
  <2> QED BY <2>2, <2>3, <2>4
<1>7. ASSUME UNCHANGED ledger, Generation' = Generation, NEW i \in Candidates(c.head), c' = Restored(i) PROVE Goal
  <2>1. i \in Posted /\ i \in Intents /\ ledger[i].gen = Generation /\ ledger[i].state # "none"
    BY DEF Candidates, Posted
  <2>2. /\ c'.nonce = i /\ c'.head = ledger[i].head /\ c'.terminals = ledger[i].terminals /\ c'.last = ledger[i].last
        /\ c'.key = IF ledger[i].key \in ledger[i].terminals THEN None ELSE ledger[i].key
        /\ c'.noStatus <=> ledger[i].noStatus /\ (c'.key = None)
    BY <1>7, <2>1, RestoredOf
  <2>3. Mirrors'
    BY <1>7, <2>1, <2>2 DEF Mirrors
  <2>4. i # 0
    BY <2>1, Bounds DEF Intents
  <2> QED BY <2>2, <2>3, <2>4
<1>8. ASSUME UNCHANGED ledger, Generation' = Generation, c' = Cleared PROVE Goal
  <2>1. /\ c'.nonce = c.nonce /\ c'.head = c.head /\ c'.terminals = c.terminals /\ c'.last = c.last
        /\ c'.noStatus = c.noStatus /\ c'.key = IF c.key \in c.terminals THEN None ELSE c.key
    BY <1>1, <1>8, ClearedOf
  <2> QED BY <1>1, <1>8, <2>1 DEF Mirrors
<1>9. ASSUME c' = [NoContract EXCEPT !.head = live] PROVE Goal
  BY <1>9 DEF NoContract
<1> HIDE DEF Goal
<1>10. Goal
  BY <1>2, <1>3, <1>4, <1>5, <1>6, <1>7, <1>8, <1>9, LedgerMoves DEF Calm
<1> QED BY <1>10 DEF Goal

(* A dispatch goes on from an intent that is attached to nothing, whose    *)
(* last attempt is on record as ended without a status.                    *)
LEMMA IntentStep ==
  ASSUME CiInv, [Next]_vars
  PROVE  /\ (pc' \in {"intent", "discovering"} /\ c'.key = None /\ c'.last # None) => c'.noStatus
         /\ pc' = "discovering" => c'.key = None
<1>1. /\ CiTypes /\ c \in Contract
      /\ (pc \in {"intent", "discovering"} /\ c.key = None /\ c.last # None) => c.noStatus
      /\ pc = "discovering" => c.key = None
  BY DEF CiInv, CiTypes, MemoryIsSound
<1>2. CASE UNCHANGED <<c, pc>>
  BY <1>1, <1>2
<1>3. CASE EnsureIntent
  <2>1. \/ \E i \in Candidates(c.head) : c' = Restored(i)
        \/ \E i \in Intents \ Posted : Patch([NoContract EXCEPT !.nonce = i, !.head = c.head], "prepared")
    BY <1>3, Zenon DEF EnsureIntent
  <2>2. pc' = "intent"
    BY <1>3 DEF EnsureIntent, Goto
  <2>3. ASSUME NEW i \in Intents, Patch([NoContract EXCEPT !.nonce = i, !.head = c.head], "prepared")
        PROVE  c'.last = None
    BY <2>3 DEF Patch, NoContract
  <2>4. ASSUME NEW i \in Candidates(c.head), c' = Restored(i), c'.key = None, c'.last # None
        PROVE  c'.noStatus
    <3>1. i \in Posted /\ i \in Intents /\ ledger[i].state # "none"
      BY DEF Candidates, Posted
    <3>2. Valid(ledger[i]) /\ ledger[i].state \in States
      BY <1>1, <3>1 DEF CiInv, LedgerInv, EntryIsSound, NoIntent, CiTypes, Entry
    <3>3. /\ c'.last = ledger[i].last /\ (c'.noStatus <=> ledger[i].noStatus /\ (c'.key = None))
          /\ c'.key = IF ledger[i].key \in ledger[i].terminals THEN None ELSE ledger[i].key
      BY <2>4, <3>1, RestoredOf
    <3>4. ledger[i].noStatus
      BY <2>4, <3>1, <3>2, <3>3 DEF Valid, States, Early
    <3> QED BY <2>4, <3>3, <3>4
  <2> QED BY <2>1, <2>2, <2>3, <2>4
<1>4. CASE BeginDispatch
  <2>1. UNCHANGED c \/ Patch([c EXCEPT !.key = None], "dispatch-requested")
    BY <1>4, Zenon DEF BeginDispatch
  <2>2. pc = "intent" /\ c.key = None
    BY <1>4 DEF BeginDispatch, Retained
  <2>3. c'.key = None /\ c'.last = c.last /\ c'.noStatus = c.noStatus
    BY <1>1, <2>1, <2>2 DEF Patch, Contract
  <2> QED BY <1>1, <2>2, <2>3
<1> QED BY <1>2, <1>3, <1>4, LabelMoves DEF EnsureIntent, BeginDispatch, Goto

(* A poll reads the statuses of the run it looked at.                      *)
LEMMA ReadingStep ==
  ASSUME CiInv, [Next]_vars
  PROVE  pc' = "reading" => (wait'.snap # None => c'.key = wait'.snap) /\ (wait'.done => wait'.snap # None)
<1> SUFFICES ASSUME pc' = "reading"
             PROVE  (wait'.snap # None => c'.key = wait'.snap) /\ (wait'.done => wait'.snap # None)
  OBVIOUS
<1>1. CiTypes /\ RunsAreBorn /\ wait \in Wait
  BY DEF CiInv, CiTypes, LedgerInv
<1>2. CASE UNCHANGED <<c, wait, pc>>
  BY <1>2 DEF CiInv, MemoryIsSound
<1>3. CASE PollRunBlind
  <2>1. wait' = [wait EXCEPT !.snap = None, !.done = FALSE]
    BY <1>3 DEF PollRunBlind
  <2>2. wait'.snap = None /\ ~wait'.done
    BY <1>1, <2>1 DEF Wait
  <2> QED BY <2>2
<1>4. CASE PollRun
  <2> DEFINE k(r) == Attached(Cleared, r)
  <2>1. PICK r \in Found(Cleared) :
          /\ \/ k(r).key = Cleared.key /\ c' = Cleared
             \/ Patch(k(r), "attached")
          /\ \E done : wait' = [wait EXCEPT !.snap = k(r).key, !.done = done]
    BY <1>4, Zenon DEF PollRun
  <2>2. r \in Created
    BY DEF Found, Survivors
  <2>3. k(r) \in Contract /\ k(r).key \in Attempts
    BY <1>1, <2>2, ClearedOf, AttachedTo
  <2> HIDE DEF k
  <2>4. wait'.snap = k(r).key
    BY <1>1, <2>1 DEF Wait
  <2>5. c'.key = k(r).key
    BY <2>1, <2>3 DEF Patch, Contract
  <2> QED BY <2>3, <2>4, <2>5, NoneIsNoAttempt
<1> QED BY <1>2, <1>3, <1>4, LabelMoves

(* Every step keeps the memory of the process sound.                       *)
LEMMA MemoryStep ==
  ASSUME CiInv, [Next]_vars
  PROVE  MemoryIsSound'
<1>1. /\ c'.nonce # 0 => Mirrors'
      /\ c'.nonce = 0 => c'.key = None
      /\ (c'.key # None /\ c'.key \notin c'.terminals) => ~c'.noStatus
  BY MirrorsStep
<1>2. pc' \in Holding => c'.nonce # 0
  <2>1. CASE Written
    BY <2>1, PatchKeeps DEF Written
  <2>2. CASE Calm
    <3>1. CiTypes /\ c \in Contract /\ (c.nonce = 0 => pc \notin Holding)
      BY DEF CiInv, CiTypes, MemoryIsSound
    <3>2. pc' \notin Qualifying => pc' \notin Holding
      BY DEF Qualifying
    <3>3. "waiting" \in Holding /\ "historical" \notin Holding /\ "ensuring" \notin Holding
      BY DEF Holding
    <3>4. \A i \in Intents : i # 0
      BY Bounds DEF Intents
    <3>8. EnsureIntent => c'.nonce # 0
      <4>1. ASSUME NEW i \in Candidates(c.head), c' = Restored(i) PROVE c'.nonce # 0
        BY <3>4, <4>1, RestoredOf DEF Candidates, Posted
      <4>2. ASSUME NEW i \in Intents, Patch([NoContract EXCEPT !.nonce = i, !.head = c.head], "prepared")
            PROVE  c'.nonce # 0
        BY <3>4, <4>2 DEF Patch, NoContract
      <4>3. EnsureIntent => \/ \E i \in Candidates(c.head) : c' = Restored(i)
                            \/ \E i \in Intents \ Posted :
                                 Patch([NoContract EXCEPT !.nonce = i, !.head = c.head], "prepared")
        BY Zenon DEF EnsureIntent
      <4> QED BY <4>1, <4>2, <4>3
    <3>5. ASSUME BeginQualification, pc' \in Holding PROVE c'.key # None
      BY <3>3, <3>5 DEF BeginQualification, Goto
    <3>6. c' = Cleared => c'.nonce = c.nonce
      BY <3>1, ClearedOf
    <3>7. ASSUME UNCHANGED c, pc' \in Holding PROVE c'.nonce # 0
      BY <1>1, <3>1, <3>7, <3>8, LabelMoves
    <3> QED BY <1>1, <2>2, <3>1, <3>2, <3>3, <3>5, <3>6, <3>7, <3>8 DEF Calm
  <2> QED BY <2>1, <2>2, LedgerMoves
<1> QED BY <1>1, <1>2, IntentStep, ReadingStep DEF MemoryIsSound

-----------------------------------------------------------------------------
(* What a pass rests on *)

(* How the process comes to a pass, and from there to the merge.           *)
LEMMA PassMoves ==
  ASSUME [Next]_vars
  PROVE  /\ Passing' => \/ Passing /\ UNCHANGED <<ledger, c, proof, failed>>
                        \/ PollStatus \/ HistoricalOutcome
         /\ pc = "merged" => UNCHANGED <<ledger, c, proof, failed, pc>>
<1>1. CASE UNCHANGED vars \/ GitHubStep
  BY <1>1 DEF vars, github, GitHubStep, HeadMoves, RunAdvances, PersonReruns, StatusPublished, Passing
<1>2. CASE Activate \/ Crash
  BY <1>2 DEF Activate, Crash, Goto, Passing
<1>3. CASE DispatchStep
  BY <1>3 DEF DispatchStep, BeginQualification, EnsureIntent, QualificationRefused, RetainAttachment,
     BeginDispatch, Discover, RequestDispatch, Dispatch, WaitForVisibility, Qualifiable, Goto, Passing
<1>4. CASE WaitStep
  <2>1. PollStatus => pc # "merged"
    BY DEF PollStatus
  <2>2. CASE PollHead \/ PollRun \/ PollRunBlind \/ ConfirmFirst \/ Condemn \/ EarlyFailure
    BY <2>2 DEF PollHead, PollRun, PollRunBlind, ConfirmFirst, Condemn, EarlyFailure, Ends, Goto, Passing
  <2>3. CASE ConfirmSecond \/ PollAgain
    <3>1. pc \in {"reading", "rereading"}
      BY <2>3 DEF ConfirmSecond, PollAgain
    <3>2. pc' = "waiting" \/ (pc' = "routing" /\ outcome' = "timeout")
      BY <2>3 DEF ConfirmSecond, PollAgain, NextPoll, Ends, Goto
    <3> QED BY <3>1, <3>2 DEF Passing
  <2> QED BY <1>4, <2>1, <2>2, <2>3 DEF WaitStep
<1>5. CASE LoopStep
  <2>1. CASE Accept \/ PrepareMerge \/ Merge
    BY <2>1 DEF Accept, PrepareMerge, Merge, github, Goto, Passing
  <2>2. CASE Reconcile
    <3>1. pc = "ready" /\ (pc' = "historical" \/ pc' = pc)
      BY <2>2 DEF Reconcile, Goto
    <3> QED BY <3>1 DEF Passing
  <2>3. CASE HistoricalOutcome
    BY <2>3 DEF HistoricalOutcome
  <2>4. CASE Rerun \/ RecordObligation \/ StopLoop \/ ReviewAgain \/ HistoricalLost \/ PrepareRefused \/ MergeRefused
    BY <2>4 DEF Rerun, RecordObligation, StopLoop, ReviewAgain, HistoricalLost, PrepareRefused, MergeRefused,
       Goto, Passing
  <2> QED BY <1>5, <2>1, <2>2, <2>3, <2>4 DEF LoopStep
<1> QED BY <1>1, <1>2, <1>3, <1>4, <1>5 DEF Next

(* A success is in no intent's terminals when its own intent has none.     *)
LEMMA NoTerminalElsewhere ==
  ASSUME CiInv, NEW s \in statuses
  PROVE  \A i \in Intents : i # s.nonce => s.key \notin ledger[i].terminals
<1>1. runs[s.key[1]].nonce = s.nonce
  BY DEF CiInv, LedgerInv, RunsAreBorn
<1>2. ASSUME NEW i \in Intents, i # s.nonce, s.key \in ledger[i].terminals PROVE FALSE
  <2>1. EntryIsSound(i) /\ ledger[i] # NoIntent
    BY <1>2 DEF CiInv, LedgerInv, NoIntent
  <2>2. Owns(i, s.key)
    BY <1>2, <2>1 DEF EntryIsSound, Keyed
  <2> QED BY <1>1, <1>2, <2>2 DEF Owns
<1> QED BY <1>2

(* The attached attempt published a success: the wait passes on it.        *)
LEMMA PassOfStatus ==
  ASSUME CiInv, PollStatus, outcome' = "passed", [Next]_vars
  PROVE  Qualified(c.head)' /\ c'.head = c.head /\ failed' = failed /\ proof' = c.key /\ ~Stale
<1>1. PICK s \in statuses, board \in BOOLEAN : Judge(s, board)
  BY DEF PollStatus
<1>2. /\ s.head = c.head /\ s.nonce = c.nonce /\ s.key = c.key /\ c.key # None /\ c.key \notin c.terminals
      /\ Patch(c, "completed") /\ ~Stale
  BY <1>1 DEF Judge, Correlated
<1>3. s.verdict = "success" /\ proof' = s.key
  BY <1>1 DEF Judge, Ends
<1>4. c.nonce # 0 /\ CiTypes
  BY <1>2 DEF CiInv, MemoryIsSound
<1>5. c \in Contract /\ c.nonce \in Intents
  BY <1>4, Held
<1>6. "completed" \in States /\ "completed" \notin Early
  BY DEF States, Early
<1>7. /\ ledger'[c.nonce] = Body(c, "completed") /\ \A i \in Intents \ {c.nonce} : ledger'[i] = ledger[i]
      /\ c'.head = c.head
  BY <1>2, <1>4, <1>5, <1>6, PatchOf
<1>8. Body(c, "completed").head = c.head /\ Body(c, "completed").terminals = c.terminals
  BY <1>4, <1>5, <1>6, BodyOf
<1>9. \A i \in Intents : s.key \notin ledger'[i].terminals
  BY <1>2, <1>7, <1>8, NoTerminalElsewhere
<1>10. s \in statuses' /\ failed' = failed
  BY DEF PollStatus
<1>11. ledger'[s.nonce].head = c.head
  BY <1>2, <1>7, <1>8
<1>12. Qualified(c.head)'
  <2>1. s.key = proof' /\ s.verdict = "success" /\ s.head = c'.head /\ ledger'[s.nonce].head = c'.head
    BY <1>2, <1>3, <1>7, <1>11
  <2> QED BY <1>9, <1>10, <2>1 DEF Qualified
<1> QED BY <1>2, <1>3, <1>7, <1>10, <1>12

(* A later attempt of the failed run succeeded: the head passes on it.     *)
LEMMA PassOfHistory ==
  ASSUME CiInv, HistoricalOutcome
  PROVE  Qualified(c.head)' /\ UNCHANGED <<c, failed, proof>> /\ Later
<1>1. /\ live = c.head /\ Verified(proof[1], proof[2]) /\ UNCHANGED <<ledger, statuses, c, failed, proof>>
  BY DEF HistoricalOutcome, github
<1>2. /\ failed.head = live /\ failed.key[1] = proof[1] /\ proof[2] > failed.key[2]
      /\ <<proof[1], proof[2]>> \notin ledger[failed.nonce].terminals
      /\ \E s \in statuses : s.key = <<proof[1], proof[2]>> /\ s.verdict = "success" /\ s.head = live
  BY <1>1 DEF Verified
<1>3. PICK s \in statuses : s.key = <<proof[1], proof[2]>> /\ s.verdict = "success" /\ s.head = live
  BY <1>2
<1>4. s.key \in Attempts /\ proof \in Keys
  BY DEF CiInv, CiTypes, Status
<1>5. proof = <<proof[1], proof[2]>>
  BY <1>4, NoneIsNoAttempt DEF Keys, None
<1>6. failed.key # None
  BY <1>2, <1>3, <1>4, NoneIsNoAttempt DEF None
<1>7. runs[failed.key[1]].nonce = failed.nonce /\ ledger[failed.nonce].head = failed.head
  BY <1>6 DEF CiInv, FailureIsOwned, Owns
<1>8. runs[s.key[1]].nonce = s.nonce
  BY DEF CiInv, LedgerInv, RunsAreBorn
<1>9. s.nonce = failed.nonce
  BY <1>2, <1>3, <1>7, <1>8
<1>10. \A i \in Intents : s.key \notin ledger[i].terminals
  BY <1>2, <1>3, <1>9, NoTerminalElsewhere
<1>11. Qualified(c.head)'
  <2>1. s.key = proof' /\ s.verdict = "success" /\ s.head = c'.head /\ ledger'[s.nonce].head = c'.head /\ s \in statuses'
    BY <1>1, <1>2, <1>3, <1>5, <1>7, <1>9
  <2>2. \A i \in Intents : s.key \notin ledger'[i].terminals
    BY <1>1, <1>10
  <2> QED BY <2>1, <2>2 DEF Qualified
<1> QED BY <1>1, <1>2, <1>11 DEF Later

(* Every step keeps what a pass rests on.                                  *)
LEMMA PassStep ==
  ASSUME CiInv, [Next]_vars
  PROVE  PassIsSound'
<1>1. /\ CiTypes /\ PassIsSound /\ Growth
  BY GrowthOfSteps DEF CiInv
<1>2. Passing' => Qualified(c.head)'
  <2>1. ASSUME Passing, UNCHANGED <<ledger, c, proof, failed>> PROVE Qualified(c.head)'
    BY <1>1, <2>1 DEF PassIsSound, Qualified, Growth
  <2>2. ASSUME PollStatus, Passing' PROVE outcome' = "passed"
    <3>1. PICK s \in statuses, board \in BOOLEAN : Judge(s, board)
      BY <2>2 DEF PollStatus
    <3> QED BY <2>2, <3>1 DEF Judge, Ends, Goto, Passing
  <2> QED BY <2>1, <2>2, PassMoves, PassOfStatus, PassOfHistory
<1>3. (Passing' /\ failed'.head = c'.head) => Later'
  <2>1. ASSUME Passing, UNCHANGED <<ledger, c, proof, failed>>, failed'.head = c'.head PROVE Later'
    BY <1>1, <2>1 DEF PassIsSound, Later
  <2>2. ASSUME PollStatus PROVE failed'.head # c'.head
    <3>1. PICK s \in statuses, board \in BOOLEAN : Judge(s, board)
      BY <2>2 DEF PollStatus
    <3>2. Patch(c, "completed") /\ failed' = failed /\ pc \in Qualifying
      BY <2>2, <3>1 DEF Judge, PollStatus, Qualifying, Holding
    <3>3. c'.head = c.head
      BY <1>1, <3>2 DEF Patch, CiTypes, Contract
    <3> QED BY <1>1, <3>2, <3>3 DEF PassIsSound
  <2>3. HistoricalOutcome => Later'
    BY PassOfHistory DEF Later
  <2> QED BY <2>1, <2>2, <2>3, PassMoves
<1>4. pc' \in Qualifying => failed'.head # c'.head
  <2> SUFFICES ASSUME pc' \in Qualifying PROVE failed'.head # c'.head
    OBVIOUS
  <2>1. failed'.head = failed.head
    <3>1. ~RecordObligation
      BY DEF RecordObligation, Goto, Qualifying, Holding
    <3>2. failed \in Failure
      BY <1>1 DEF CiTypes
    <3> QED BY <3>1, <3>2, Frames DEF Failure
  <2>2. pc \in Qualifying => failed.head # c.head
    BY <1>1 DEF PassIsSound
  <2>3. ASSUME Written PROVE failed.head # c'.head
    <3>1. PICK k \in Contract, state \in States \ {"none"} : Patch(k, state) /\ k.head = c.head
      BY <2>3 DEF Written
    <3>2. c'.head = c.head /\ pc \in Qualifying
      BY <2>3, <3>1 DEF Patch, Contract, Written, Qualifying
    <3> QED BY <2>2, <3>2
  <2>4. ASSUME BeginQualification PROVE failed.head # c'.head
    <3>1. failed.head # live /\ c' = [Released(live) EXCEPT !.head = live] /\ c \in Contract
      BY <1>1, <2>4 DEF BeginQualification, Qualifiable, CiTypes
    <3>2. Released(live) \in Contract
      BY <3>1, Blanks DEF Released
    <3>3. c'.head = live
      BY <3>1, <3>2 DEF Contract
    <3> QED BY <3>1, <3>3
  <2>5. ASSUME EnsureIntent, NEW i \in Candidates(c.head), c' = Restored(i) PROVE failed.head # c'.head
    <3>1. c'.head = c.head /\ pc \in Qualifying
      BY <2>5, RestoredOf DEF Candidates, EnsureIntent, Qualifying
    <3> QED BY <2>2, <3>1
  <2>6. ASSUME c' = Cleared, pc = "waiting" PROVE failed.head # c'.head
    <3>1. c'.head = c.head /\ pc \in Qualifying
      BY <1>1, <2>6, ClearedOf DEF Qualifying, Holding
    <3> QED BY <2>2, <3>1
  <2>7. pc' # "historical"
    BY DEF Qualifying, Holding
  <2> QED BY <2>1, <2>2, <2>3, <2>4, <2>5, <2>6, <2>7, LedgerMoves DEF Calm
<1>5. merged' # NoHead => pc' = "merged" /\ merged' = c'.head
  <2>1. CASE UNCHANGED merged
    BY <1>1, <2>1, PassMoves DEF PassIsSound
  <2>2. CASE Merge
    BY <2>2 DEF Merge, Goto
  <2> QED BY <2>1, <2>2, Frames
<1> QED BY <1>2, <1>3, <1>4, <1>5 DEF PassIsSound

-----------------------------------------------------------------------------
(* Theorems *)

(* The invariant holds when the first process has not started.             *)
LEMMA CiInit ==
  ASSUME Init
  PROVE  CiInv
<1>1. CiTypes
  BY Blanks, Bounds, NoneIsNoAttempt, HeadAssumption DEF Init, CiTypes, Labels, Qualifying, Holding
<1>2. Created = {} /\ Posted = {} /\ statuses = {}
  BY DEF Init, Created, Posted, NoRun, NoIntent
<1>3. LedgerInv
  BY <1>2 DEF Init, LedgerInv, RunsAreBorn, EntryIsSound, OneIntentPerHead
<1>4. c.nonce = 0 /\ c.key = None /\ failed.key = None /\ merged = NoHead /\ pc = "off"
  BY DEF Init, NoContract, NoFailure
<1>5. MemoryIsSound
  BY <1>4 DEF MemoryIsSound, Holding
<1>6. FailureIsOwned /\ PassIsSound
  BY <1>4 DEF FailureIsOwned, PassIsSound, Passing, Qualifying, Holding
<1> QED BY <1>1, <1>3, <1>5, <1>6 DEF CiInv

(* A process that is started again and again, of whose run GitHub tells    *)
(* late, twice or never, keeps the inductive invariant.                    *)
THEOREM CiInvariant == Spec => []CiInv
<1>1. Init => CiInv
  BY CiInit
<1>2. CiInv /\ [Next]_vars => CiInv'
  BY TypesStep, LedgerStep, MemoryStep, FailureStep, PassStep DEF CiInv
<1> QED BY <1>1, <1>2, PTL DEF Spec

(* Managed CI is type correct (ManagedCiContract and its intent records).  *)
THEOREM CiTyping == Spec => []TypeOK
<1>1. CiInv => TypeOK
  <2> SUFFICES ASSUME CiInv PROVE TypeOK
    OBVIOUS
  <2>1. CiTypes
    BY DEF CiInv
  <2>2. \A i \in Intents : /\ ledger[i].state \in States /\ ledger[i].key \in Keys
                           /\ ledger[i].terminals \subseteq Attempts
    BY <2>1 DEF CiTypes, Entry
  <2>3. \A r \in 1..MaxRuns : runs[r] \in Run
    BY <2>1 DEF CiTypes
  <2>4. \A v \in Run : /\ v.nonce \in 0..MaxIntents /\ v.attempt \in 0..MaxAttempts
                       /\ v.state \in {"none", "active", "completed", "cancelled"}
    BY DEF Run
  <2>5. c.nonce \in 0..MaxIntents /\ c.key \in Keys
    BY <2>1 DEF CiTypes, Contract
  <2>6. wait.polls \in 0..MaxPolls
    BY <2>1 DEF CiTypes, Wait
  <2> QED BY <2>1, <2>2, <2>3, <2>4, <2>5, <2>6 DEF TypeOK, CiTypes, States, Keys
<1> QED BY <1>1, CiInvariant, PTL

(* Whatever a process leaves behind when it dies, the next one and the     *)
(* base workflow can read: one intent for a head and an activation, and    *)
(* every record valid (_ensure_v2_intent, validate_intent_record).         *)
THEOREM LedgerSoundness == Spec => []LedgerIsSound
<1>1. CiInv => LedgerIsSound
  <2> SUFFICES ASSUME CiInv PROVE LedgerIsSound
    OBVIOUS
  <2>1. \A i \in Posted : Valid(ledger[i])
    BY DEF CiInv, LedgerInv, EntryIsSound, Posted, NoIntent
  <2>2. RecordsValidate
    BY <2>1 DEF RecordsValidate, Valid
  <2> QED BY <2>2 DEF LedgerIsSound, CiInv, LedgerInv
<1> QED BY <1>1, CiInvariant, PTL

(* An intent gives up its run only to a newer attempt or run, or because   *)
(* it ended without a status, and that stays on record, whichever process  *)
(* writes (_dispatch_v2_qualification).                                    *)
THEOREM AttachmentDurability == Spec => AttachmentIsDurable
<1> DEFINE Durable == \A i \in Intents :
                        /\ ledger[i].terminals \subseteq ledger'[i].terminals
                        /\ ledger[i].key # None /\ ledger'[i].key = None =>
                             ledger[i].key \in ledger'[i].terminals
<1>1. CiInv /\ [Next]_vars => [Durable]_vars
  <2> SUFFICES ASSUME CiInv, [Next]_vars PROVE Durable
    OBVIOUS
  <2>1. CASE Written
    BY <2>1, PatchKeeps DEF Written
  <2>2. CASE UNCHANGED ledger
    BY <2>2
  <2> QED BY <2>1, <2>2, LedgerMoves
<1>2. AttachmentIsDurable <=> [][Durable]_vars
  BY DEF AttachmentIsDurable
<1> HIDE DEF Durable
<1> QED BY <1>1, <1>2, CiInvariant, PTL DEF Spec

(* After its own rerun the loop passes on nothing but the attempt it asked *)
(* for (min_run_attempt).                                                  *)
THEOREM RerunJudged == Spec => RerunIsJudgedAlone
<1> DEFINE Judged == outcome' = "passed" /\ outcome # "passed" /\ pc # "historical" => proof'[2] >= wait.least
<1>1. CiInv /\ [Next]_vars => [Judged]_vars
  <2> SUFFICES ASSUME CiInv, [Next]_vars, outcome' = "passed", outcome # "passed", pc # "historical"
               PROVE  proof'[2] >= wait.least
    OBVIOUS
  <2>1. PollStatus
    <3>1. CASE UNCHANGED vars \/ GitHubStep \/ Activate \/ Crash
      BY <3>1 DEF vars, GitHubStep, HeadMoves, RunAdvances, PersonReruns, StatusPublished, Activate, Crash, Forget
    <3>2. CASE DispatchStep
      BY <3>2 DEF DispatchStep, BeginQualification, EnsureIntent, QualificationRefused, RetainAttachment,
         BeginDispatch, Discover, RequestDispatch, Dispatch, WaitForVisibility, Forget
    <3>3. CASE WaitStep
      BY <3>3 DEF WaitStep, PollHead, PollRun, PollRunBlind, ConfirmFirst, ConfirmSecond, Condemn, PollAgain,
         EarlyFailure, NextPoll, Ends
    <3>4. CASE LoopStep
      BY <3>4 DEF LoopStep, Rerun, RecordObligation, StopLoop, ReviewAgain, Accept, Reconcile, HistoricalOutcome,
         HistoricalLost, PrepareMerge, PrepareRefused, Merge, MergeRefused, Forget
    <3> QED BY <3>1, <3>2, <3>3, <3>4 DEF Next
  <2>2. proof' = c.key /\ ~Stale
    BY <2>1, PassOfStatus
  <2>3. c.key[2] \in Nat /\ wait.least \in Nat
    <3>1. c \in Contract /\ wait \in Wait
      BY DEF CiInv, CiTypes
    <3> QED BY <3>1, NoneIsNoAttempt, AttemptsCount DEF Contract, Wait, Keys, None
  <2> QED BY <2>2, <2>3 DEF Stale
<1>2. RerunIsJudgedAlone <=> [][Judged]_vars
  BY DEF RerunIsJudgedAlone
<1> HIDE DEF Judged
<1> QED BY <1>1, <1>2, CiInvariant, PTL DEF Spec

(* What is merged has qualified: a run authorised for that very head       *)
(* published a success for the attempt the loop relied on, no record gives *)
(* that attempt up, and after a failure of the head it is a later attempt  *)
(* of the run that failed (wait_for_final_qualification,                   *)
(* reconcile_repair_checkpoint).                                           *)
THEOREM MergeQualified == Spec => []MergeIsQualified
<1>1. CiInv => MergeIsQualified
  <2> SUFFICES ASSUME CiInv, merged # NoHead PROVE MergeIsQualified
    BY DEF MergeIsQualified, MergedIsQualified, FailureNeedsLaterAttempt
  <2>1. PassIsSound /\ pc = "merged" /\ merged = c.head
    BY DEF CiInv, PassIsSound
  <2>2. Qualified(merged) /\ (merged = failed.head => Later)
    BY <2>1 DEF PassIsSound, Passing
  <2> QED BY <2>2 DEF MergeIsQualified, MergedIsQualified, FailureNeedsLaterAttempt, Qualified, Later
<1> QED BY <1>1, CiInvariant, PTL

-----------------------------------------------------------------------------
(* Planning in the composition *)

(* The instances of PlanLoop differ in their bounds and begin alike.       *)
LEMMA PlansBegin == MCInit => Plan!Init /\ LongPlan!Init /\ Replan!Init
  BY DEF MCInit, Plan!Init, Plan!NoRun, Plan!NoDemand, LongPlan!Init,
         LongPlan!NoRun, LongPlan!NoDemand, Replan!Init, Replan!NoRun,
         Replan!NoDemand

(* A step of the composition is one of the part it is in.                  *)
LEMMA PlansStep ==
  [MCNext]_<<part, vars, planVars>> =>
    /\ part = "plan" => [Plan!Next]_(Plan!vars)
    /\ part = "long plan" => [LongPlan!Next]_(LongPlan!vars)
    /\ part = "restarts" => [Replan!Next]_(Replan!vars)
BY DEF MCNext, planVars, Plan!vars, LongPlan!vars, Replan!vars

(* No step leaves the part.                                                *)
LEMMA PartStays ==
  [MCNext]_<<part, vars, planVars>> =>
    /\ (part = "plan" => (part = "plan")')
    /\ (~(part = "plan") => (~(part = "plan"))')
    /\ (part = "long plan" => (part = "long plan")')
    /\ (~(part = "long plan") => (~(part = "long plan"))')
    /\ (part = "restarts" => (part = "restarts")')
    /\ (~(part = "restarts") => (~(part = "restarts"))')
BY DEF MCNext

(* A behaviour is in a part for ever or never.                             *)
LEMMA PartIsFixed ==
  MCSpec => /\ [](part = "plan") \/ []~(part = "plan")
            /\ [](part = "long plan") \/ []~(part = "long plan")
            /\ [](part = "restarts") \/ []~(part = "restarts")
BY PartStays, PTL DEF MCSpec

(* A behaviour of a planning part is one of PlanLoop.                      *)
LEMMA PlanPartsRun ==
  MCSpec => /\ part = "plan" => Plan!Spec
            /\ part = "long plan" => LongPlan!Spec
            /\ part = "restarts" => Replan!Spec
BY PlansBegin, PlansStep, PartStays, PTL
   DEF MCSpec, Plan!Spec, LongPlan!Spec, Replan!Spec

(* The secondaries of every plan wait for the primary                      *)
(* (select_plan_reviewers).                                                *)
THEOREM PlanPanels == MCSpec => []PanelWaits
<1>1. /\ Plan!Spec => []Plan!PanelWaits
      /\ LongPlan!Spec => []LongPlan!PanelWaits
      /\ Replan!Spec => []Replan!PanelWaits
  BY Plan!PlanPanelWaits, LongPlan!PlanPanelWaits,
     Replan!PlanPanelWaits
<1> QED BY <1>1, PlanPartsRun, PartIsFixed, PTL DEF PanelWaits

(* What is executed is the plan that every reviewer last approved, under   *)
(* the requirements of now, with no finding left (the final gate of        *)
(* plan_first_loop.py).                                                    *)
THEOREM PlansAreApproved == MCSpec => []ApprovedPlanIsSound
<1>1. /\ Plan!Spec => []Plan!ApprovedPlanIsSound
      /\ LongPlan!Spec => []LongPlan!ApprovedPlanIsSound
      /\ Replan!Spec => []Replan!ApprovedPlanIsSound
  BY Plan!PlanApprovalSound, LongPlan!PlanApprovalSound,
     Replan!PlanApprovalSound
<1> QED BY <1>1, PlanPartsRun, PartIsFixed, PTL DEF ApprovedPlanIsSound

(* The cross-checks of an approval never refuse one but for a review that  *)
(* the scheduler overlooked (plan_ledger_unreconstructible_items,          *)
(* approval_shortcut_disagreement).                                        *)
THEOREM PlanChecksAgree == MCSpec => []CrossChecksAgree
<1>1. /\ Plan!Spec => []Plan!CrossChecksAgree
      /\ LongPlan!Spec => []LongPlan!CrossChecksAgree
      /\ Replan!Spec => []Replan!CrossChecksAgree
  BY Plan!PlanCrossChecks, LongPlan!PlanCrossChecks,
     Replan!PlanCrossChecks
<1> QED BY <1>1, PlanPartsRun, PartIsFixed, PTL DEF CrossChecksAgree
=============================================================================
