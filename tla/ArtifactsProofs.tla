-------------------------- MODULE ArtifactsProofs --------------------------
(***************************************************************************)
(* The recoveries of one turn, for any retry limit, any number of quota    *)
(* waits and any fallback chains: every attempt of an ordinary backend is  *)
(* paid for by a retry, a one-shot recovery or a wait, so its loop is      *)
(* never cut off; no replay is lost, altered or cut off on any backend; a  *)
(* replan is handed no candidate but that of the last attempt.  At the end *)
(* the turn is put beside the round and the setup that its run leaves for  *)
(* the next one, with their own theorems.                                  *)
(***************************************************************************)
EXTENDS MCArtifacts, TLAPS, WellFoundedInduction

RoundProofs == INSTANCE PublicationProofs WITH pc <- at
StoreProofs == INSTANCE StoreSetupProofs WITH pc <- step, NoRun <- NoRunner

(* What has been granted beyond the first attempt: retries, the one-shot   *)
(* recoveries that send another prompt, and waits.                         *)
Once(x) == IF x \in used THEN 1 ELSE 0
Granted == retries + Once("replacement") + Once(Correction(kind)) + waits
CorrectionSlot == IF kind = "other" THEN 0 ELSE 1

(* On an ordinary backend every attempt but the first has been granted.    *)
AttemptsArePaid ==
  chain = <<>> =>
    /\ reopened = 0
    /\ ceiling = Retries + 2 + CorrectionSlot + waits
    /\ pc = "loop" => attempt <= Granted
    /\ pc \in {"begun", "woken", "running"} => attempt <= Granted + 1

(* A pending replay is the last dispatch, and has an attempt left.         *)
ReplayIsPending ==
  /\ attempt <= ceiling
  /\ replay # NoDispatch => replay = dispatch /\ pc # "running"
  /\ pc = "loop" /\ replay # NoDispatch => attempt < ceiling

(* Between two attempts the candidate is that of the attempt just made.    *)
CandidateIsLast ==
  pc = "loop" \/ outcome \in {"failed", "cutoff"} => capture \in {0, attempt}

Undecided == pc # "done" => outcome = "none"

(* The type invariant in the parts that a step can be asked about.         *)
Counts ==
  /\ attempt \in Nat /\ ceiling \in Nat /\ reopened \in Nat /\ model \in Nat
  /\ retries \in 0 .. Retries /\ waits \in 0 .. MaxWaits /\ jumps \in 0 .. 1
  /\ peers \in 0 .. MaxPeers /\ capture \in Nat
Tags ==
  /\ chain \in Chains /\ kind \in Kinds /\ time \in {"full", "rest"}
  /\ pc \in {"loop", "begun", "woken", "running", "done"}
  /\ used \subseteq Corrections \cup {"replacement", "recovery", "lock"}
  /\ pending \subseteq Corrections \cup {"contract", "replacement"}
  /\ outcome \in {"none", "accepted", "failed", "quota", "unavailable", "cutoff"}
Sent == replay \in Dispatches /\ dispatch \in Dispatches
Remembered == memory \in [Groups -> {"open", "parsed", "cooldown"}]

TurnInv ==
  /\ TypeOK /\ AttemptsArePaid /\ ReplayIsPending /\ CandidateIsLast /\ Undecided
  /\ NothingIsCutOff

-----------------------------------------------------------------------------
(* Lemmas *)

(* The first of some models of the chain is one of them.                   *)
LEMMA FirstIn ==
  ASSUME NEW S \in SUBSET Nat, S # {}
  PROVE  First(S) \in S
<1> DEFINE R == OpToRel(<, Nat)
<1>1. \E x \in S : \A y \in S : ~ (<<y, x>> \in R)
  <2>1. IsWellFoundedOn(R, Nat)
    BY NatLessThanWellFounded
  <2> HIDE DEF R
  <2> QED BY <2>1, WFMin
<1>2. PICK x \in S : \A y \in S : ~ (<<y, x>> \in R)
  BY <1>1
<1>3. \A y \in S : ~ (y < x)
  BY <1>2 DEF OpToRel
<1>4. \A y \in S : x <= y
  BY <1>3
<1> HIDE DEF R
<1> QED BY <1>4 DEF First

(* A model is an index of the chain.                                       *)
LEMMA ModelType ==
  ASSUME TypeOK
  PROVE  \A S \in SUBSET DOMAIN chain : S # {} => First(S) \in Nat /\ chain # <<>>
<1>1. chain \in Seq(Groups) /\ DOMAIN chain \subseteq Nat
  <2>1. chain \in Chains
    BY DEF TypeOK
  <2>2. chain \in Seq(Groups)
    BY <2>1, ChainsAssumption
  <2> QED BY <2>2
<1>2. chain = <<>> => DOMAIN chain = {}
  OBVIOUS
<1>3. \A S \in SUBSET DOMAIN chain : S # {} => First(S) \in S
  BY <1>1, FirstIn
<1> QED BY <1>1, <1>2, <1>3

(* A retryable failure is paid for by a retry or ends the turn, and only a *)
(* chain can be continued without one.                                     *)
LEMMA FailurePays ==
  ASSUME TypeOK, NEW capacity \in BOOLEAN, NextAfterFailure(capacity)
  PROVE  /\ retries' \in 0 .. Retries /\ model' \in Nat
         /\ \/ pc' = "loop" /\ outcome' = outcome /\ retries' = retries + 1
            \/ /\ pc' = "loop" /\ outcome' = outcome /\ retries' = retries
               /\ chain # <<>> /\ capacity
            \/ pc' = "done" /\ outcome' = "failed" /\ retries' = retries
<1> DEFINE later == {i \in Eligible : i > model}
<1>1. later \subseteq DOMAIN chain
  BY DEF Eligible
<1>2. later # {} => First(later) \in Nat /\ chain # <<>>
  BY <1>1, ModelType
<1>3. retries \in Nat /\ Retries \in Nat /\ retries <= Retries /\ model \in Nat
  <2>1. retries \in 0 .. Retries /\ model \in Nat
    BY DEF TypeOK
  <2> QED BY <2>1, RetriesAssumption
<1>4. CASE retries < Retries
  BY <1>3, <1>4 DEF NextAfterFailure, Again
<1>5. CASE ~(retries < Retries) /\ capacity /\ later # {}
  <2>1. retries' = retries /\ model' = First(later) /\ Again
    BY <1>5 DEF NextAfterFailure
  <2> HIDE DEF later
  <2> QED BY <1>2, <1>3, <1>5, <2>1 DEF Again
<1>6. CASE ~(retries < Retries) /\ ~(capacity /\ later # {})
  <2>1. retries' = retries /\ model' = model /\ Finish("failed")
    BY <1>6 DEF NextAfterFailure
  <2> QED BY <1>3, <2>1 DEF Finish
<1> QED BY <1>4, <1>5, <1>6

(* The numbers of a turn are natural.                                      *)
LEMMA Numbers ==
  ASSUME TypeOK
  PROVE  /\ attempt \in Nat /\ ceiling \in Nat /\ retries \in Nat /\ waits \in Nat
         /\ reopened \in Nat /\ model \in Nat /\ capture \in Nat /\ jumps \in Nat
         /\ retries <= Retries /\ waits <= MaxWaits /\ Retries \in Nat /\ MaxWaits \in Nat
<1>1. retries \in 0 .. Retries /\ waits \in 0 .. MaxWaits /\ jumps \in 0 .. 1
  BY DEF TypeOK
<1>2. /\ attempt \in Nat /\ ceiling \in Nat /\ reopened \in Nat /\ model \in Nat
      /\ capture \in Nat
  BY DEF TypeOK
<1> QED BY <1>1, <1>2, RetriesAssumption, MaxWaitsAssumption

(* A replacement is no correction, and each is granted once.               *)
LEMMA OnceBound ==
  /\ \A x : Once(x) \in 0 .. 1
  /\ TypeOK => Correction(kind) # "replacement" /\ Granted <= retries + 1 + CorrectionSlot + waits
<1>1. \A x : Once(x) \in 0 .. 1
  BY DEF Once
<1>2. ASSUME TypeOK
      PROVE  Correction(kind) # "replacement" /\ Granted <= retries + 1 + CorrectionSlot + waits
  <2>1. kind \in Kinds /\ "none" \notin used
    BY <1>2 DEF TypeOK, Corrections
  <2>2. Correction(kind) # "replacement"
    BY <2>1 DEF Kinds, Correction
  <2>3. Once("replacement") \in 0 .. 1 /\ Once(Correction(kind)) \in 0 .. 1
    BY <1>1
  <2>4. CASE kind = "other"
    <3>1. Correction(kind) = "none"
      BY <2>4 DEF Correction
    <3>2. Once(Correction(kind)) = 0 /\ CorrectionSlot = 0
      BY <2>1, <2>4, <3>1 DEF Once, CorrectionSlot
    <3> QED BY <1>2, <2>2, <2>3, <3>2, Numbers DEF Granted
  <2>5. CASE kind # "other"
    BY <1>2, <2>2, <2>3, <2>5, Numbers DEF Granted, CorrectionSlot
  <2> QED BY <2>4, <2>5
<1> QED BY <1>1, <1>2

(* A step that grants something grants it for good.                        *)
LEMMA GrantedGrows ==
  ASSUME TypeOK, TypeOK', UNCHANGED fixed, used \subseteq used', retries' >= retries,
         waits' >= waits
  PROVE  /\ Granted \in Nat /\ Granted' \in Nat /\ Granted' >= Granted
         /\ \/ retries' > retries \/ waits' > waits
            \/ "replacement" \in used' \ used
            \/ Correction(kind) \in used' \ used
            => Granted' >= Granted + 1
<1> DEFINE k == Correction(kind)
<1>1. Correction(kind)' = k
  BY DEF fixed, Correction
<1>2. /\ Once("replacement") \in 0 .. 1 /\ Once(k) \in 0 .. 1
      /\ Once("replacement")' \in 0 .. 1 /\ Once(k)' \in 0 .. 1
  BY DEF Once
<1>3. /\ Once("replacement")' >= Once("replacement")
      /\ "replacement" \in used' \ used => Once("replacement")' >= Once("replacement") + 1
  BY DEF Once
<1>4. Once(k)' >= Once(k) /\ (k \in used' \ used => Once(k)' >= Once(k) + 1)
  BY <1>1 DEF Once, fixed
<1>5. Granted = retries + Once("replacement") + Once(k) + waits
  BY DEF Granted
<1>6. Granted' = retries' + Once("replacement")' + Once(k)' + waits'
  BY <1>1 DEF Granted, Once
<1>7. /\ retries \in Nat /\ waits \in Nat /\ retries' \in Nat /\ waits' \in Nat
  <2>1. retries \in Nat /\ waits \in Nat
    BY Numbers
  <2>2. retries' \in 0 .. Retries /\ waits' \in 0 .. MaxWaits
    BY DEF TypeOK
  <2> QED BY <2>1, <2>2, RetriesAssumption, MaxWaitsAssumption
<1> HIDE DEF k
<1>8. \/ "replacement" \in used' \ used \/ Correction(kind) \in used' \ used
      => Once("replacement")' + Once(k)' >= Once("replacement") + Once(k) + 1
  BY <1>2, <1>3, <1>4 DEF k
<1> QED BY <1>2, <1>3, <1>4, <1>5, <1>6, <1>7, <1>8

(* An attempt that another one follows pays for it.                        *)
LEMMA PaidFor ==
  ASSUME TurnInv, TypeOK', UNCHANGED <<fixed, attempt>>, pc = "running",
         pc' \in {"loop", "done"}, used \subseteq used', retries' >= retries,
         waits' >= waits,
         chain = <<>> => reopened' = 0 /\ ceiling' = ceiling + waits' - waits,
         pc' = "done" \/ chain # <<>> \/ retries' > retries \/ waits' > waits
           \/ "replacement" \in used' \ used \/ Correction(kind) \in used' \ used
  PROVE  AttemptsArePaid'
<1> SUFFICES ASSUME chain = <<>>
             PROVE  /\ reopened' = 0
                    /\ ceiling' = Retries + 2 + CorrectionSlot + waits'
                    /\ pc' = "loop" => attempt <= Granted'
  BY DEF AttemptsArePaid, CorrectionSlot, fixed
<1>1. /\ ceiling = Retries + 2 + CorrectionSlot + waits
      /\ attempt <= Granted + 1
  BY DEF TurnInv, AttemptsArePaid
<1>2. attempt \in Nat /\ waits \in Nat /\ waits' \in Nat /\ Retries \in Nat
      /\ CorrectionSlot \in Nat
  <2>1. attempt \in Nat /\ waits \in Nat /\ Retries \in Nat
    BY Numbers DEF TurnInv
  <2>2. waits' \in 0 .. MaxWaits
    BY DEF TypeOK
  <2> QED BY <2>1, <2>2, MaxWaitsAssumption DEF CorrectionSlot
<1>3. /\ Granted \in Nat /\ Granted' \in Nat
      /\ pc' = "loop" => Granted' >= Granted + 1
  BY GrantedGrows DEF TurnInv
<1> QED BY <1>1, <1>2, <1>3

(* An attempt begins while the allowance lasts.                            *)
LEMMA BeginOK == ASSUME TurnInv, Begin PROVE TurnInv'
<1> USE DEF fixed, quota
<1>n. /\ attempt \in Nat /\ ceiling \in Nat /\ retries \in Nat /\ waits \in Nat
     /\ reopened \in Nat /\ model \in Nat /\ capture \in Nat /\ jumps \in Nat
     /\ retries <= Retries /\ waits <= MaxWaits /\ Retries \in Nat /\ MaxWaits \in Nat
  BY Numbers DEF TurnInv
<1>t. TypeOK /\ Counts /\ Tags /\ Sent /\ Remembered
  BY DEF TurnInv, TypeOK, Counts, Tags, Sent, Remembered
<1>1. TypeOK'
  <2>1. Counts'
    BY <1>n, <1>t DEF Counts, Begin
  <2>2. Tags'
    BY <1>t DEF Tags, Begin, Kinds, Corrections
  <2>3. Sent'
    BY <1>t DEF Sent, Begin, Dispatches, Asks, Ask, Corrections
  <2>4. Remembered'
    BY <1>t DEF Remembered, Begin
  <2> QED BY <2>1, <2>2, <2>3, <2>4 DEF TypeOK, Counts, Tags, Sent, Remembered
<1>2. AttemptsArePaid'
  BY <1>n, <1>t, OnceBound
     DEF TurnInv, AttemptsArePaid, Granted, Once, CorrectionSlot, Begin
<1>3. ReplayIsPending'
  BY <1>n DEF TurnInv, ReplayIsPending, Begin
<1>4. CandidateIsLast' /\ Undecided'
  BY <1>n DEF TurnInv, CandidateIsLast, Undecided, Begin
<1>5. NothingIsCutOff'
  BY <1>n DEF TurnInv, NothingIsCutOff, Undecided, Begin
<1> QED BY <1>1, <1>2, <1>3, <1>4, <1>5 DEF TurnInv

(* Only a chain runs out of attempts, and never with a replay pending.     *)
LEMMA CutOffOK == ASSUME TurnInv, CutOff PROVE TurnInv'
<1> USE DEF fixed, quota
<1>n. /\ attempt \in Nat /\ ceiling \in Nat /\ retries \in Nat /\ waits \in Nat
     /\ reopened \in Nat /\ model \in Nat /\ capture \in Nat /\ jumps \in Nat
     /\ retries <= Retries /\ waits <= MaxWaits /\ Retries \in Nat /\ MaxWaits \in Nat
  BY Numbers DEF TurnInv
<1>t. TypeOK /\ Counts /\ Tags /\ Sent /\ Remembered
  BY DEF TurnInv, TypeOK, Counts, Tags, Sent, Remembered
<1>1. TypeOK'
  <2>1. Counts'
    BY <1>n, <1>t DEF Counts, CutOff, Finish
  <2>2. Tags'
    BY <1>t DEF Tags, CutOff, Finish, Kinds, Corrections
  <2>3. Sent'
    BY <1>t DEF Sent, CutOff, Finish, Dispatches, Asks, Ask, Corrections
  <2>4. Remembered'
    BY <1>t DEF Remembered, CutOff, Finish
  <2> QED BY <2>1, <2>2, <2>3, <2>4 DEF TypeOK, Counts, Tags, Sent, Remembered
<1>2. AttemptsArePaid'
  BY <1>n, <1>t, OnceBound
     DEF TurnInv, AttemptsArePaid, Granted, Once, CorrectionSlot, CutOff, Finish
<1>3. ReplayIsPending'
  BY <1>n DEF TurnInv, ReplayIsPending, CutOff, Finish
<1>4. CandidateIsLast' /\ Undecided'
  BY <1>n DEF TurnInv, CandidateIsLast, Undecided, CutOff, Finish
<1>5. NothingIsCutOff'
  <2>1. pc = "loop" /\ attempt >= ceiling /\ UNCHANGED <<chain, replay>>
    BY Zenon DEF CutOff
  <2>2. chain # <<>>
    <3>1. chain = <<>> => /\ ceiling = Retries + 2 + CorrectionSlot + waits
                         /\ attempt <= Granted
      BY <2>1, Zenon DEF TurnInv, AttemptsArePaid
    <3>2. Granted <= retries + 1 + CorrectionSlot + waits /\ Granted \in Nat
          /\ CorrectionSlot \in Nat
      BY <1>n, <1>t, OnceBound DEF CorrectionSlot, Granted
    <3>3. ~ (ceiling = Retries + 2 + CorrectionSlot + waits /\ attempt <= Granted)
      BY <1>n, <2>1, <3>2
    <3> QED BY <3>1, <3>3, Zenon
  <2>3. replay = NoDispatch
    <3>1. replay # NoDispatch => attempt < ceiling
      BY <2>1, Zenon DEF TurnInv, ReplayIsPending
    <3>2. ~ (attempt < ceiling)
      BY <1>n, <2>1
    <3> QED BY <3>1, <3>2, Zenon
  <2> QED BY <2>1, <2>2, <2>3, Zenon DEF NothingIsCutOff
<1> QED BY <1>1, <1>2, <1>3, <1>4, <1>5 DEF TurnInv

(* A wait before anything was sent renews the attempts it stands for.      *)
LEMMA WaitBeforeDispatchOK == ASSUME TurnInv, WaitBeforeDispatch PROVE TurnInv'
<1> USE DEF fixed, quota
<1>n. /\ attempt \in Nat /\ ceiling \in Nat /\ retries \in Nat /\ waits \in Nat
     /\ reopened \in Nat /\ model \in Nat /\ capture \in Nat /\ jumps \in Nat
     /\ retries <= Retries /\ waits <= MaxWaits /\ Retries \in Nat /\ MaxWaits \in Nat
  BY Numbers DEF TurnInv
<1>t. TypeOK /\ Counts /\ Tags /\ Sent /\ Remembered
  BY DEF TurnInv, TypeOK, Counts, Tags, Sent, Remembered
<1>1. TypeOK'
  <2>1. Counts'
    BY <1>n, <1>t DEF Counts, WaitBeforeDispatch, WaitForReset, Woken, Mine
  <2>2. Tags'
    BY <1>t DEF Tags, WaitBeforeDispatch, WaitForReset, Woken, Mine, Kinds, Corrections
  <2>3. Sent'
    BY <1>t
       DEF Sent, WaitBeforeDispatch, WaitForReset, Woken, Mine, Dispatches, Asks,
           Ask, Corrections
  <2>4. Remembered'
    BY <1>t DEF Remembered, WaitBeforeDispatch, WaitForReset, Woken, Mine
  <2> QED BY <2>1, <2>2, <2>3, <2>4 DEF TypeOK, Counts, Tags, Sent, Remembered
<1>2. AttemptsArePaid'
  BY DEF AttemptsArePaid, WaitBeforeDispatch, Unreachable
<1>3. ReplayIsPending'
  BY <1>n DEF TurnInv, ReplayIsPending, WaitBeforeDispatch, WaitForReset, Woken, Mine
<1>4. CandidateIsLast' /\ Undecided'
  BY <1>n
     DEF TurnInv, CandidateIsLast, Undecided, WaitBeforeDispatch, WaitForReset,
         Woken, Mine
<1>5. NothingIsCutOff'
  BY <1>n
     DEF TurnInv, NothingIsCutOff, Undecided, WaitBeforeDispatch, WaitForReset,
         Woken, Mine
<1> QED BY <1>1, <1>2, <1>3, <1>4, <1>5 DEF TurnInv

(* A stop keeps the count and drops nothing.                               *)
LEMMA StopBeforeDispatchOK == ASSUME TurnInv, StopBeforeDispatch PROVE TurnInv'
<1> USE DEF fixed, quota
<1>n. /\ attempt \in Nat /\ ceiling \in Nat /\ retries \in Nat /\ waits \in Nat
     /\ reopened \in Nat /\ model \in Nat /\ capture \in Nat /\ jumps \in Nat
     /\ retries <= Retries /\ waits <= MaxWaits /\ Retries \in Nat /\ MaxWaits \in Nat
  BY Numbers DEF TurnInv
<1>t. TypeOK /\ Counts /\ Tags /\ Sent /\ Remembered
  BY DEF TurnInv, TypeOK, Counts, Tags, Sent, Remembered
<1>1. TypeOK'
  <2>1. Counts'
    BY <1>n, <1>t DEF Counts, StopBeforeDispatch, Finish, StopError
  <2>2. Tags'
    BY <1>t DEF Tags, StopBeforeDispatch, Finish, StopError, Kinds, Corrections
  <2>3. Sent'
    BY <1>t
       DEF Sent, StopBeforeDispatch, Finish, StopError, Dispatches, Asks, Ask,
           Corrections
  <2>4. Remembered'
    BY <1>t DEF Remembered, StopBeforeDispatch, Finish, StopError
  <2> QED BY <2>1, <2>2, <2>3, <2>4 DEF TypeOK, Counts, Tags, Sent, Remembered
<1>2. AttemptsArePaid'
  BY <1>n, <1>t, OnceBound
     DEF TurnInv, AttemptsArePaid, Granted, Once, CorrectionSlot,
         StopBeforeDispatch, Finish, StopError
<1>3. ReplayIsPending'
  BY <1>n DEF TurnInv, ReplayIsPending, StopBeforeDispatch, Finish, StopError
<1>4. CandidateIsLast' /\ Undecided'
  BY <1>n DEF TurnInv, CandidateIsLast, Undecided, StopBeforeDispatch, Finish, StopError
<1>5. NothingIsCutOff'
  BY <1>n DEF TurnInv, NothingIsCutOff, Undecided, StopBeforeDispatch, Finish, StopError
<1> QED BY <1>1, <1>2, <1>3, <1>4, <1>5 DEF TurnInv

(* What is sent is the pending replay, or a new dispatch.                  *)
LEMMA SendOK == ASSUME TurnInv, Send PROVE TurnInv'
<1> USE DEF fixed, quota
<1>n. /\ attempt \in Nat /\ ceiling \in Nat /\ retries \in Nat /\ waits \in Nat
     /\ reopened \in Nat /\ model \in Nat /\ capture \in Nat /\ jumps \in Nat
     /\ retries <= Retries /\ waits <= MaxWaits /\ Retries \in Nat /\ MaxWaits \in Nat
  BY Numbers DEF TurnInv
<1>t. TypeOK /\ Counts /\ Tags /\ Sent /\ Remembered
  BY DEF TurnInv, TypeOK, Counts, Tags, Sent, Remembered
<1>m. model' \in Nat
  <2>1. Eligible \subseteq DOMAIN chain
    BY DEF Eligible
  <2>2. CASE model' = model
    BY <1>n, <2>2
  <2>3. CASE chain # <<>> /\ Eligible # {} /\ model' = First(Eligible)
    <3>1. First(Eligible) \in Nat
      BY <1>t, <2>1, <2>3, ModelType
    <3> QED BY <2>3, <3>1
  <2> QED BY <2>2, <2>3, Zenon DEF Send, Unreachable
<1>d. dispatch' \in Dispatches
  <2>1. Ask \in Asks
    BY DEF Ask, Asks, Corrections
  <2>2. CASE dispatch' = replay
    BY <1>t, <2>2 DEF Sent
  <2>3. CASE dispatch' = [ask |-> Ask,
                          session |-> IF Ask = "evidence" THEN "rejected" ELSE "own",
                          time |-> time]
    BY <1>t, <2>1, <2>3 DEF Dispatches, Tags
  <2> QED BY <2>2, <2>3, Zenon DEF Send
<1>s. /\ replay' = NoDispatch
     /\ UNCHANGED <<attempt, ceiling, retries, reopened, waits, jumps, peers, capture>>
  BY Zenon DEF Send
<1>r. NoDispatch \in Dispatches
  BY DEF NoDispatch, Dispatches
<1>1. TypeOK'
  <2>1. Counts'
    BY <1>n, <1>t, <1>m, <1>s DEF Counts
  <2>2. Tags'
    BY <1>t DEF Tags, Send, Kinds, Corrections
  <2>3. Sent'
    BY <1>t, <1>d, <1>r, <1>s DEF Sent
  <2>4. Remembered'
    BY <1>t DEF Remembered, Send
  <2> QED BY <2>1, <2>2, <2>3, <2>4 DEF TypeOK, Counts, Tags, Sent, Remembered
<1>2. AttemptsArePaid'
  BY <1>n, <1>t, OnceBound
     DEF TurnInv, AttemptsArePaid, Granted, Once, CorrectionSlot, Send
<1>3. ReplayIsPending'
  BY <1>n DEF TurnInv, ReplayIsPending, Send
<1>4. CandidateIsLast' /\ Undecided'
  BY <1>n DEF TurnInv, CandidateIsLast, Undecided, Send
<1>5. NothingIsCutOff'
  BY <1>n DEF TurnInv, NothingIsCutOff, Undecided, Send
<1> QED BY <1>1, <1>2, <1>3, <1>4, <1>5 DEF TurnInv

(* Only a chain waits for the lock of the settings.                        *)
LEMMA LockWaitExpiresOK == ASSUME TurnInv, LockWaitExpires PROVE TurnInv'
<1> USE DEF fixed, quota
<1>n. /\ attempt \in Nat /\ ceiling \in Nat /\ retries \in Nat /\ waits \in Nat
     /\ reopened \in Nat /\ model \in Nat /\ capture \in Nat /\ jumps \in Nat
     /\ retries <= Retries /\ waits <= MaxWaits /\ Retries \in Nat /\ MaxWaits \in Nat
  BY Numbers DEF TurnInv
<1>t. TypeOK /\ Counts /\ Tags /\ Sent /\ Remembered
  BY DEF TurnInv, TypeOK, Counts, Tags, Sent, Remembered
<1>1. TypeOK'
  <2>1. Counts'
    BY <1>n, <1>t DEF Counts, LockWaitExpires, Returned, Finish
  <2>2. Tags'
    BY <1>t DEF Tags, LockWaitExpires, Returned, Finish, Kinds, Corrections
  <2>3. Sent'
    BY <1>t
       DEF Sent, LockWaitExpires, Returned, Finish, Dispatches, Asks, Ask,
           Corrections
  <2>4. Remembered'
    BY <1>t DEF Remembered, LockWaitExpires, Returned, Finish
  <2> QED BY <2>1, <2>2, <2>3, <2>4 DEF TypeOK, Counts, Tags, Sent, Remembered
<1>2. AttemptsArePaid'
  BY <1>n, <1>t, OnceBound
     DEF TurnInv, AttemptsArePaid, Granted, Once, CorrectionSlot, LockWaitExpires,
         Returned, Finish
<1>3. ReplayIsPending'
  BY <1>n DEF TurnInv, ReplayIsPending, LockWaitExpires, Returned, Finish
<1>4. CandidateIsLast' /\ Undecided'
  BY <1>n DEF TurnInv, CandidateIsLast, Undecided, LockWaitExpires, Returned, Finish
<1>5. NothingIsCutOff'
  BY <1>n DEF TurnInv, NothingIsCutOff, Undecided, LockWaitExpires, Returned, Finish
<1> QED BY <1>1, <1>2, <1>3, <1>4, <1>5 DEF TurnInv

(* An accepted answer leaves no candidate.                                 *)
LEMMA AcceptOK == ASSUME TurnInv, Accept PROVE TurnInv'
<1> USE DEF fixed, quota
<1>n. /\ attempt \in Nat /\ ceiling \in Nat /\ retries \in Nat /\ waits \in Nat
     /\ reopened \in Nat /\ model \in Nat /\ capture \in Nat /\ jumps \in Nat
     /\ retries <= Retries /\ waits <= MaxWaits /\ Retries \in Nat /\ MaxWaits \in Nat
  BY Numbers DEF TurnInv
<1>t. TypeOK /\ Counts /\ Tags /\ Sent /\ Remembered
  BY DEF TurnInv, TypeOK, Counts, Tags, Sent, Remembered
<1>1. TypeOK'
  <2>1. Counts'
    BY <1>n, <1>t DEF Counts, Accept, Returned, Finish
  <2>2. Tags'
    BY <1>t DEF Tags, Accept, Returned, Finish, Kinds, Corrections
  <2>3. Sent'
    BY <1>t DEF Sent, Accept, Returned, Finish, Dispatches, Asks, Ask, Corrections
  <2>4. Remembered'
    BY <1>t DEF Remembered, Accept, Returned, Finish
  <2> QED BY <2>1, <2>2, <2>3, <2>4 DEF TypeOK, Counts, Tags, Sent, Remembered
<1>2. AttemptsArePaid'
  <2>1. pc = "running" /\ UNCHANGED <<fixed, attempt>> /\ used \subseteq used'
    BY  DEF Accept, Returned, Finish
  <2>2. pc' \in {"loop", "done"} /\ retries' >= retries /\ waits' >= waits
    BY <1>n, <1>t DEF Accept, Returned, Finish
  <2>3. chain = <<>> => reopened' = 0 /\ ceiling' = ceiling + waits' - waits
    BY <1>n DEF TurnInv, AttemptsArePaid, Accept, Returned, Finish
  <2>4. pc' = "done" \/ chain # <<>> \/ retries' > retries \/ waits' > waits
           \/ "replacement" \in used' \ used \/ Correction(kind) \in used' \ used
    BY <1>n, <1>t DEF Accept, Returned, Finish
  <2> QED BY <1>1, <2>1, <2>2, <2>3, <2>4, PaidFor
<1>3. ReplayIsPending'
  BY <1>n DEF TurnInv, ReplayIsPending, Accept, Returned, Finish
<1>4. CandidateIsLast' /\ Undecided'
  BY <1>n DEF TurnInv, CandidateIsLast, Undecided, Accept, Returned, Finish
<1>5. NothingIsCutOff'
  BY <1>n DEF TurnInv, NothingIsCutOff, Undecided, Accept, Returned, Finish
<1> QED BY <1>1, <1>2, <1>3, <1>4, <1>5 DEF TurnInv

(* A final failure leaves no candidate.                                    *)
LEMMA FailForGoodOK == ASSUME TurnInv, FailForGood PROVE TurnInv'
<1> USE DEF fixed, quota
<1>n. /\ attempt \in Nat /\ ceiling \in Nat /\ retries \in Nat /\ waits \in Nat
     /\ reopened \in Nat /\ model \in Nat /\ capture \in Nat /\ jumps \in Nat
     /\ retries <= Retries /\ waits <= MaxWaits /\ Retries \in Nat /\ MaxWaits \in Nat
  BY Numbers DEF TurnInv
<1>t. TypeOK /\ Counts /\ Tags /\ Sent /\ Remembered
  BY DEF TurnInv, TypeOK, Counts, Tags, Sent, Remembered
<1>1. TypeOK'
  <2>1. Counts'
    BY <1>n, <1>t DEF Counts, FailForGood, Returned, Finish
  <2>2. Tags'
    BY <1>t DEF Tags, FailForGood, Returned, Finish, Kinds, Corrections
  <2>3. Sent'
    BY <1>t DEF Sent, FailForGood, Returned, Finish, Dispatches, Asks, Ask, Corrections
  <2>4. Remembered'
    BY <1>t DEF Remembered, FailForGood, Returned, Finish
  <2> QED BY <2>1, <2>2, <2>3, <2>4 DEF TypeOK, Counts, Tags, Sent, Remembered
<1>2. AttemptsArePaid'
  <2>1. pc = "running" /\ UNCHANGED <<fixed, attempt>> /\ used \subseteq used'
    BY  DEF FailForGood, Returned, Finish
  <2>2. pc' \in {"loop", "done"} /\ retries' >= retries /\ waits' >= waits
    BY <1>n, <1>t DEF FailForGood, Returned, Finish
  <2>3. chain = <<>> => reopened' = 0 /\ ceiling' = ceiling + waits' - waits
    BY <1>n DEF TurnInv, AttemptsArePaid, FailForGood, Returned, Finish
  <2>4. pc' = "done" \/ chain # <<>> \/ retries' > retries \/ waits' > waits
           \/ "replacement" \in used' \ used \/ Correction(kind) \in used' \ used
    BY <1>n, <1>t DEF FailForGood, Returned, Finish
  <2> QED BY <1>1, <2>1, <2>2, <2>3, <2>4, PaidFor
<1>3. ReplayIsPending'
  BY <1>n DEF TurnInv, ReplayIsPending, FailForGood, Returned, Finish
<1>4. CandidateIsLast' /\ Undecided'
  BY <1>n DEF TurnInv, CandidateIsLast, Undecided, FailForGood, Returned, Finish
<1>5. NothingIsCutOff'
  BY <1>n DEF TurnInv, NothingIsCutOff, Undecided, FailForGood, Returned, Finish
<1> QED BY <1>1, <1>2, <1>3, <1>4, <1>5 DEF TurnInv

(* The one replay after a replacement pays for the next attempt.           *)
LEMMA ReplaceExecutableOK == ASSUME TurnInv, ReplaceExecutable PROVE TurnInv'
<1> USE DEF fixed, quota
<1>n. /\ attempt \in Nat /\ ceiling \in Nat /\ retries \in Nat /\ waits \in Nat
     /\ reopened \in Nat /\ model \in Nat /\ capture \in Nat /\ jumps \in Nat
     /\ retries <= Retries /\ waits <= MaxWaits /\ Retries \in Nat /\ MaxWaits \in Nat
  BY Numbers DEF TurnInv
<1>t. TypeOK /\ Counts /\ Tags /\ Sent /\ Remembered
  BY DEF TurnInv, TypeOK, Counts, Tags, Sent, Remembered
<1>f. /\ retries' \in 0 .. Retries /\ retries' >= retries /\ model' \in Nat
     /\ \/ pc' = "done" /\ outcome' \in {"failed"}
        \/ pc' = "loop" /\ outcome' = outcome /\ (retries' = retries + 1 \/ chain # <<>> \/ "replacement" \in used' \ used)
  <2>1. "replacement" \in used' \ used
    BY DEF ReplaceExecutable
  <2>2. CASE NextAfterFailure(FALSE)
    <3>1. /\ retries' \in 0 .. Retries /\ model' \in Nat
       /\ \/ pc' = "loop" /\ outcome' = outcome /\ retries' = retries + 1
          \/ /\ pc' = "loop" /\ outcome' = outcome /\ retries' = retries
             /\ chain # <<>>
          \/ pc' = "done" /\ outcome' = "failed" /\ retries' = retries
      BY <1>t, <2>2, FailurePays, Zenon
    <3> QED BY <1>n, <3>1
  <2>3. CASE Again /\ UNCHANGED <<retries, model>>
    BY <1>n, <2>1, <2>3 DEF Again
  <2> QED BY <2>2, <2>3 DEF ReplaceExecutable
<1>1. TypeOK'
  <2>1. Counts'
    BY <1>n, <1>t, <1>f DEF Counts, ReplaceExecutable, Returned
  <2>2. Tags'
    BY <1>t, <1>f DEF Tags, ReplaceExecutable, Returned, Kinds, Corrections
  <2>3. Sent'
    BY <1>t, <1>f
       DEF Sent, ReplaceExecutable, Returned, Dispatches, Asks, Ask, Corrections
  <2>4. Remembered'
    BY <1>t DEF Remembered, ReplaceExecutable, Returned, Again
  <2> QED BY <2>1, <2>2, <2>3, <2>4 DEF TypeOK, Counts, Tags, Sent, Remembered
<1>2. AttemptsArePaid'
  <2>1. pc = "running" /\ UNCHANGED <<fixed, attempt>> /\ used \subseteq used'
    BY  DEF ReplaceExecutable, Returned
  <2>2. pc' \in {"loop", "done"} /\ retries' >= retries /\ waits' >= waits
    BY <1>n, <1>t, <1>f DEF ReplaceExecutable, Returned
  <2>3. chain = <<>> => reopened' = 0 /\ ceiling' = ceiling + waits' - waits
    BY <1>n, <1>f DEF TurnInv, AttemptsArePaid, ReplaceExecutable, Returned
  <2>4. pc' = "done" \/ chain # <<>> \/ retries' > retries \/ waits' > waits
           \/ "replacement" \in used' \ used \/ Correction(kind) \in used' \ used
    BY <1>n, <1>t, <1>f DEF ReplaceExecutable, Returned
  <2> QED BY <1>1, <2>1, <2>2, <2>3, <2>4, PaidFor
<1>3. ReplayIsPending'
  BY <1>n, <1>f DEF TurnInv, ReplayIsPending, ReplaceExecutable, Returned
<1>4. CandidateIsLast' /\ Undecided'
  BY <1>n, <1>f DEF TurnInv, CandidateIsLast, Undecided, ReplaceExecutable, Returned
<1>5. NothingIsCutOff'
  BY <1>n, <1>f DEF TurnInv, NothingIsCutOff, Undecided, ReplaceExecutable, Returned
<1> QED BY <1>1, <1>2, <1>3, <1>4, <1>5 DEF TurnInv

(* A transient failure is paid for by a retry.                             *)
LEMMA FailTransientlyOK == ASSUME TurnInv, FailTransiently PROVE TurnInv'
<1> USE DEF fixed, quota
<1>n. /\ attempt \in Nat /\ ceiling \in Nat /\ retries \in Nat /\ waits \in Nat
     /\ reopened \in Nat /\ model \in Nat /\ capture \in Nat /\ jumps \in Nat
     /\ retries <= Retries /\ waits <= MaxWaits /\ Retries \in Nat /\ MaxWaits \in Nat
  BY Numbers DEF TurnInv
<1>t. TypeOK /\ Counts /\ Tags /\ Sent /\ Remembered
  BY DEF TurnInv, TypeOK, Counts, Tags, Sent, Remembered
<1>f. /\ retries' \in 0 .. Retries /\ retries' >= retries /\ model' \in Nat
     /\ \/ pc' = "done" /\ outcome' \in {"failed"}
        \/ pc' = "loop" /\ outcome' = outcome /\ (retries' = retries + 1 \/ chain # <<>>)
  <2>1. NextAfterFailure(FALSE)
    BY DEF FailTransiently
  <2>2. /\ retries' \in 0 .. Retries /\ model' \in Nat
       /\ \/ pc' = "loop" /\ outcome' = outcome /\ retries' = retries + 1
          \/ /\ pc' = "loop" /\ outcome' = outcome /\ retries' = retries
             /\ chain # <<>>
          \/ pc' = "done" /\ outcome' = "failed" /\ retries' = retries
    BY <1>t, <2>1, FailurePays, Zenon
  <2> QED BY <1>n, <2>2
<1>1. TypeOK'
  <2>1. Counts'
    BY <1>n, <1>t, <1>f DEF Counts, FailTransiently, Returned
  <2>2. Tags'
    BY <1>t, <1>f DEF Tags, FailTransiently, Returned, Kinds, Corrections
  <2>3. Sent'
    BY <1>t, <1>f
       DEF Sent, FailTransiently, Returned, Dispatches, Asks, Ask, Corrections
  <2>4. Remembered'
    BY <1>t DEF Remembered, FailTransiently, Returned
  <2> QED BY <2>1, <2>2, <2>3, <2>4 DEF TypeOK, Counts, Tags, Sent, Remembered
<1>2. AttemptsArePaid'
  <2>1. pc = "running" /\ UNCHANGED <<fixed, attempt>> /\ used \subseteq used'
    BY  DEF FailTransiently, Returned
  <2>2. pc' \in {"loop", "done"} /\ retries' >= retries /\ waits' >= waits
    BY <1>n, <1>t, <1>f DEF FailTransiently, Returned
  <2>3. chain = <<>> => reopened' = 0 /\ ceiling' = ceiling + waits' - waits
    BY <1>n, <1>f DEF TurnInv, AttemptsArePaid, FailTransiently, Returned
  <2>4. pc' = "done" \/ chain # <<>> \/ retries' > retries \/ waits' > waits
           \/ "replacement" \in used' \ used \/ Correction(kind) \in used' \ used
    BY <1>n, <1>t, <1>f DEF FailTransiently, Returned
  <2> QED BY <1>1, <2>1, <2>2, <2>3, <2>4, PaidFor
<1>3. ReplayIsPending'
  BY <1>n, <1>f DEF TurnInv, ReplayIsPending, FailTransiently, Returned
<1>4. CandidateIsLast' /\ Undecided'
  BY <1>n, <1>f DEF TurnInv, CandidateIsLast, Undecided, FailTransiently, Returned
<1>5. NothingIsCutOff'
  BY <1>n, <1>f DEF TurnInv, NothingIsCutOff, Undecided, FailTransiently, Returned
<1> QED BY <1>1, <1>2, <1>3, <1>4, <1>5 DEF TurnInv

(* Lost capacity is paid for by a retry, or passes to a later model.       *)
LEMMA LoseCapacityOK == ASSUME TurnInv, LoseCapacity PROVE TurnInv'
<1> USE DEF fixed, quota
<1>n. /\ attempt \in Nat /\ ceiling \in Nat /\ retries \in Nat /\ waits \in Nat
     /\ reopened \in Nat /\ model \in Nat /\ capture \in Nat /\ jumps \in Nat
     /\ retries <= Retries /\ waits <= MaxWaits /\ Retries \in Nat /\ MaxWaits \in Nat
  BY Numbers DEF TurnInv
<1>t. TypeOK /\ Counts /\ Tags /\ Sent /\ Remembered
  BY DEF TurnInv, TypeOK, Counts, Tags, Sent, Remembered
<1>f. /\ retries' \in 0 .. Retries /\ retries' >= retries /\ model' \in Nat
     /\ \/ pc' = "done" /\ outcome' \in {"failed"}
        \/ pc' = "loop" /\ outcome' = outcome /\ (retries' = retries + 1 \/ chain # <<>>)
  <2>1. NextAfterFailure(TRUE)
    BY DEF LoseCapacity
  <2>2. /\ retries' \in 0 .. Retries /\ model' \in Nat
       /\ \/ pc' = "loop" /\ outcome' = outcome /\ retries' = retries + 1
          \/ /\ pc' = "loop" /\ outcome' = outcome /\ retries' = retries
             /\ chain # <<>>
          \/ pc' = "done" /\ outcome' = "failed" /\ retries' = retries
    BY <1>t, <2>1, FailurePays, Zenon
  <2> QED BY <1>n, <2>2
<1>1. TypeOK'
  <2>1. Counts'
    BY <1>n, <1>t, <1>f DEF Counts, LoseCapacity, Returned
  <2>2. Tags'
    BY <1>t, <1>f DEF Tags, LoseCapacity, Returned, Kinds, Corrections
  <2>3. Sent'
    BY <1>t, <1>f DEF Sent, LoseCapacity, Returned, Dispatches, Asks, Ask, Corrections
  <2>4. Remembered'
    BY <1>t DEF Remembered, LoseCapacity, Returned
  <2> QED BY <2>1, <2>2, <2>3, <2>4 DEF TypeOK, Counts, Tags, Sent, Remembered
<1>2. AttemptsArePaid'
  <2>1. pc = "running" /\ UNCHANGED <<fixed, attempt>> /\ used \subseteq used'
    BY  DEF LoseCapacity, Returned
  <2>2. pc' \in {"loop", "done"} /\ retries' >= retries /\ waits' >= waits
    BY <1>n, <1>t, <1>f DEF LoseCapacity, Returned
  <2>3. chain = <<>> => reopened' = 0 /\ ceiling' = ceiling + waits' - waits
    BY <1>n, <1>f DEF TurnInv, AttemptsArePaid, LoseCapacity, Returned
  <2>4. pc' = "done" \/ chain # <<>> \/ retries' > retries \/ waits' > waits
           \/ "replacement" \in used' \ used \/ Correction(kind) \in used' \ used
    BY <1>n, <1>t, <1>f DEF LoseCapacity, Returned
  <2> QED BY <1>1, <2>1, <2>2, <2>3, <2>4, PaidFor
<1>3. ReplayIsPending'
  BY <1>n, <1>f DEF TurnInv, ReplayIsPending, LoseCapacity, Returned
<1>4. CandidateIsLast' /\ Undecided'
  BY <1>n, <1>f DEF TurnInv, CandidateIsLast, Undecided, LoseCapacity, Returned
<1>5. NothingIsCutOff'
  BY <1>n, <1>f DEF TurnInv, NothingIsCutOff, Undecided, LoseCapacity, Returned
<1> QED BY <1>1, <1>2, <1>3, <1>4, <1>5 DEF TurnInv

(* A wait for the quota raises the allowance by what it grants.            *)
LEMMA HitQuotaOK == ASSUME TurnInv, HitQuota PROVE TurnInv'
<1> USE DEF fixed, quota
<1>n. /\ attempt \in Nat /\ ceiling \in Nat /\ retries \in Nat /\ waits \in Nat
     /\ reopened \in Nat /\ model \in Nat /\ capture \in Nat /\ jumps \in Nat
     /\ retries <= Retries /\ waits <= MaxWaits /\ Retries \in Nat /\ MaxWaits \in Nat
  BY Numbers DEF TurnInv
<1>t. TypeOK /\ Counts /\ Tags /\ Sent /\ Remembered
  BY DEF TurnInv, TypeOK, Counts, Tags, Sent, Remembered
<1>f. \/ /\ waits < MaxWaits /\ waits' = waits + 1 /\ reopened' = 0
        /\ ceiling' = ceiling + reopened + 1 /\ replay' = dispatch
        /\ pc' = "loop" /\ outcome' = outcome
     \/ /\ waits' = waits /\ reopened' = reopened /\ ceiling' = ceiling
        /\ replay' = replay
        /\ pc' = "done" /\ outcome' \in {"quota", "unavailable"}
  <2>1. CASE WaitForReset(reopened + 1) /\ replay' = dispatch /\ Again
    BY <1>n, <2>1 DEF WaitForReset, Again
  <2>2. CASE Finish("quota") /\ UNCHANGED <<waits, ceiling, reopened, replay>>
    BY <2>2 DEF Finish
  <2> QED BY <2>1, <2>2 DEF HitQuota
<1>e. /\ pc = "running" /\ capture' = 0
     /\ UNCHANGED <<fixed, attempt, dispatch, peers, retries, used, pending, time, model, jumps>>
  BY Zenon DEF HitQuota, Returned
<1>1. TypeOK'
  <2>1. Counts'
    BY <1>n, <1>t, <1>e, <1>f DEF Counts, fixed
  <2>2. Tags'
    BY <1>t, <1>e, <1>f DEF Tags, fixed, Kinds, Corrections
  <2>3. Sent'
    BY <1>t, <1>e, <1>f DEF Sent, fixed, Dispatches, Asks, Ask, Corrections
  <2>4. Remembered'
    BY <1>t DEF Remembered, HitQuota, Returned, WaitForReset, Again, Finish
  <2> QED BY <2>1, <2>2, <2>3, <2>4 DEF TypeOK, Counts, Tags, Sent, Remembered
<1>2. AttemptsArePaid'
  <2>1. pc = "running" /\ UNCHANGED <<fixed, attempt>> /\ used \subseteq used'
    BY <1>e, <1>f DEF fixed
  <2>2. pc' \in {"loop", "done"} /\ retries' >= retries /\ waits' >= waits
    BY <1>n, <1>t, <1>e, <1>f DEF fixed
  <2>3. chain = <<>> => reopened' = 0 /\ ceiling' = ceiling + waits' - waits
    <3>1. chain = <<>> => reopened = 0
      BY Zenon DEF TurnInv, AttemptsArePaid
    <3>2. reopened = 0 => reopened' = 0 /\ ceiling' = ceiling + waits' - waits
      BY <1>n, <1>f
    <3> QED BY <3>1, <3>2, Zenon
  <2>4. pc' = "done" \/ chain # <<>> \/ retries' > retries \/ waits' > waits
           \/ "replacement" \in used' \ used \/ Correction(kind) \in used' \ used
    <3>1. pc' = "done" \/ waits' > waits
      BY <1>n, <1>f
    <3> QED BY <3>1, Zenon
  <2> QED BY <1>1, <2>1, <2>2, <2>3, <2>4, PaidFor
<1>3. ReplayIsPending'
  BY <1>n, <1>e, <1>f DEF TurnInv, ReplayIsPending, fixed
<1>4. CandidateIsLast' /\ Undecided'
  BY <1>n, <1>e, <1>f DEF TurnInv, CandidateIsLast, Undecided, fixed
<1>5. NothingIsCutOff'
  BY <1>n, <1>e, <1>f DEF TurnInv, NothingIsCutOff, Undecided, fixed
<1> QED BY <1>1, <1>2, <1>3, <1>4, <1>5 DEF TurnInv

(* A jump to another group is counted until the wait that renews it.       *)
LEMMA ExhaustGroupOK == ASSUME TurnInv, ExhaustGroup PROVE TurnInv'
<1> USE DEF fixed, quota
<1>n. /\ attempt \in Nat /\ ceiling \in Nat /\ retries \in Nat /\ waits \in Nat
     /\ reopened \in Nat /\ model \in Nat /\ capture \in Nat /\ jumps \in Nat
     /\ retries <= Retries /\ waits <= MaxWaits /\ Retries \in Nat /\ MaxWaits \in Nat
  BY Numbers DEF TurnInv
<1>t. TypeOK /\ Counts /\ Tags /\ Sent /\ Remembered
  BY DEF TurnInv, TypeOK, Counts, Tags, Sent, Remembered
<1>f. \/ /\ waits < MaxWaits /\ waits' = waits + 1 /\ reopened' = 0
        /\ ceiling' = ceiling + reopened + 1 /\ replay' = dispatch
        /\ pc' = "loop" /\ outcome' = outcome
        /\ model' = model /\ jumps' = 0
     \/ /\ waits' = waits /\ ceiling' = ceiling /\ replay' = replay
        /\ reopened' = reopened + 1
        /\ model' \in Nat /\ jumps' = 1 /\ pc' = "loop" /\ outcome' = outcome
     \/ /\ waits' = waits /\ reopened' = reopened /\ ceiling' = ceiling
        /\ replay' = replay /\ model' = model /\ jumps' = jumps
        /\ pc' = "done" /\ outcome' \in {"quota", "unavailable"}
  <2>1. PICK cause \in {"parsed", "cooldown"} :
          LET group == chain[model]
              known == [memory EXCEPT ![group] = cause]
              others == {i \in Eligible : chain[i] # group}
          IN \/ /\ others # {} /\ model' = First(others) /\ jumps = 0 /\ jumps' = 1
                /\ reopened' = reopened + 1 /\ Again /\ UNCHANGED <<waits, ceiling, replay>>
             \/ /\ model' = model /\ WaitForReset(reopened + 1) /\ replay' = dispatch
                /\ jumps' = 0 /\ Again
             \/ /\ Finish(IF AllParsed(known) THEN "quota" ELSE "unavailable")
                /\ UNCHANGED <<waits, ceiling, reopened, replay, jumps, model>>
    BY Zenon DEF ExhaustGroup
  <2> DEFINE others == {i \in Eligible : chain[i] # chain[model]}
  <2>2. others \subseteq DOMAIN chain
    BY DEF Eligible
  <2>3. others # {} => First(others) \in Nat
    BY <1>t, <2>2, ModelType
  <2>4. CASE /\ others # {} /\ model' = First(others) /\ jumps' = 1
             /\ reopened' = reopened + 1 /\ Again /\ UNCHANGED <<waits, ceiling, replay>>
    <3> HIDE DEF others
    <3> QED BY <2>3, <2>4 DEF Again
  <2>5. CASE /\ model' = model /\ WaitForReset(reopened + 1) /\ replay' = dispatch
             /\ jumps' = 0 /\ Again
    <3> HIDE DEF others
    <3> QED BY <1>n, <2>5 DEF WaitForReset, Again
  <2>6. CASE /\ Finish("quota") \/ Finish("unavailable")
             /\ UNCHANGED <<waits, ceiling, reopened, replay, jumps, model>>
    <3> HIDE DEF others
    <3> QED BY <2>6 DEF Finish
  <2> QED BY <2>1, <2>4, <2>5, <2>6
<1>e. /\ pc = "running" /\ capture' = 0
     /\ UNCHANGED <<fixed, attempt, dispatch, peers, retries, used, pending, time>>
  BY Zenon DEF ExhaustGroup, Returned
<1>1. TypeOK'
  <2>1. Counts'
    BY <1>n, <1>t, <1>e, <1>f DEF Counts, fixed
  <2>2. Tags'
    BY <1>t, <1>e, <1>f DEF Tags, fixed, Kinds, Corrections
  <2>3. Sent'
    BY <1>t, <1>e, <1>f DEF Sent, fixed, Dispatches, Asks, Ask, Corrections
  <2>4. Remembered'
    BY <1>t
       DEF Remembered, ExhaustGroup, Returned, WaitForReset, Again, Finish, Woken,
           Mine
  <2> QED BY <2>1, <2>2, <2>3, <2>4 DEF TypeOK, Counts, Tags, Sent, Remembered
<1>2. AttemptsArePaid'
  <2>1. pc = "running" /\ UNCHANGED <<fixed, attempt>> /\ used \subseteq used'
    BY <1>e, <1>f DEF fixed
  <2>2. pc' \in {"loop", "done"} /\ retries' >= retries /\ waits' >= waits
    BY <1>n, <1>t, <1>e, <1>f DEF fixed
  <2>3. chain = <<>> => reopened' = 0 /\ ceiling' = ceiling + waits' - waits
    BY Zenon DEF ExhaustGroup
  <2>4. chain # <<>>
    BY Zenon DEF ExhaustGroup
  <2> QED BY <1>1, <2>1, <2>2, <2>3, <2>4, PaidFor
<1>3. ReplayIsPending'
  BY <1>n, <1>e, <1>f DEF TurnInv, ReplayIsPending, fixed
<1>4. CandidateIsLast' /\ Undecided'
  BY <1>n, <1>e, <1>f DEF TurnInv, CandidateIsLast, Undecided, fixed
<1>5. NothingIsCutOff'
  BY <1>n, <1>e, <1>f DEF TurnInv, NothingIsCutOff, Undecided, fixed
<1> QED BY <1>1, <1>2, <1>3, <1>4, <1>5 DEF TurnInv

(* A refused contract is paid for by a retry.                              *)
LEMMA RefuseContractOK == ASSUME TurnInv, RefuseContract PROVE TurnInv'
<1> USE DEF fixed, quota
<1>n. /\ attempt \in Nat /\ ceiling \in Nat /\ retries \in Nat /\ waits \in Nat
     /\ reopened \in Nat /\ model \in Nat /\ capture \in Nat /\ jumps \in Nat
     /\ retries <= Retries /\ waits <= MaxWaits /\ Retries \in Nat /\ MaxWaits \in Nat
  BY Numbers DEF TurnInv
<1>t. TypeOK /\ Counts /\ Tags /\ Sent /\ Remembered
  BY DEF TurnInv, TypeOK, Counts, Tags, Sent, Remembered
<1>f. /\ retries' \in 0 .. Retries /\ retries' >= retries /\ model' \in Nat
     /\ \/ pc' = "done" /\ outcome' \in {"failed"}
        \/ pc' = "loop" /\ outcome' = outcome /\ (retries' = retries + 1 \/ chain # <<>>)
  <2>1. NextAfterFailure(FALSE)
    BY DEF RefuseContract
  <2>2. /\ retries' \in 0 .. Retries /\ model' \in Nat
       /\ \/ pc' = "loop" /\ outcome' = outcome /\ retries' = retries + 1
          \/ /\ pc' = "loop" /\ outcome' = outcome /\ retries' = retries
             /\ chain # <<>>
          \/ pc' = "done" /\ outcome' = "failed" /\ retries' = retries
    BY <1>t, <2>1, FailurePays, Zenon
  <2> QED BY <1>n, <2>2
<1>1. TypeOK'
  <2>1. Counts'
    BY <1>n, <1>t, <1>f DEF Counts, RefuseContract, Returned, Captured
  <2>2. Tags'
    BY <1>t, <1>f DEF Tags, RefuseContract, Returned, Captured, Kinds, Corrections
  <2>3. Sent'
    BY <1>t, <1>f
       DEF Sent, RefuseContract, Returned, Captured, Dispatches, Asks, Ask,
           Corrections
  <2>4. Remembered'
    BY <1>t DEF Remembered, RefuseContract, Returned, Captured
  <2> QED BY <2>1, <2>2, <2>3, <2>4 DEF TypeOK, Counts, Tags, Sent, Remembered
<1>2. AttemptsArePaid'
  <2>1. pc = "running" /\ UNCHANGED <<fixed, attempt>> /\ used \subseteq used'
    BY  DEF RefuseContract, Returned, Captured
  <2>2. pc' \in {"loop", "done"} /\ retries' >= retries /\ waits' >= waits
    BY <1>n, <1>t, <1>f DEF RefuseContract, Returned, Captured
  <2>3. chain = <<>> => reopened' = 0 /\ ceiling' = ceiling + waits' - waits
    BY <1>n, <1>f DEF TurnInv, AttemptsArePaid, RefuseContract, Returned, Captured
  <2>4. pc' = "done" \/ chain # <<>> \/ retries' > retries \/ waits' > waits
           \/ "replacement" \in used' \ used \/ Correction(kind) \in used' \ used
    BY <1>n, <1>t, <1>f DEF RefuseContract, Returned, Captured
  <2> QED BY <1>1, <2>1, <2>2, <2>3, <2>4, PaidFor
<1>3. ReplayIsPending'
  BY <1>n, <1>f DEF TurnInv, ReplayIsPending, RefuseContract, Returned, Captured
<1>4. CandidateIsLast' /\ Undecided'
  BY <1>n, <1>f
     DEF TurnInv, CandidateIsLast, Undecided, RefuseContract, Returned, Captured
<1>5. NothingIsCutOff'
  BY <1>n, <1>f
     DEF TurnInv, NothingIsCutOff, Undecided, RefuseContract, Returned, Captured
<1> QED BY <1>1, <1>2, <1>3, <1>4, <1>5 DEF TurnInv

(* The one correction pays for the next attempt.                           *)
LEMMA CorrectOnceOK == ASSUME TurnInv, CorrectOnce PROVE TurnInv'
<1> USE DEF fixed, quota
<1>n. /\ attempt \in Nat /\ ceiling \in Nat /\ retries \in Nat /\ waits \in Nat
     /\ reopened \in Nat /\ model \in Nat /\ capture \in Nat /\ jumps \in Nat
     /\ retries <= Retries /\ waits <= MaxWaits /\ Retries \in Nat /\ MaxWaits \in Nat
  BY Numbers DEF TurnInv
<1>t. TypeOK /\ Counts /\ Tags /\ Sent /\ Remembered
  BY DEF TurnInv, TypeOK, Counts, Tags, Sent, Remembered
<1>1. TypeOK'
  <2>1. Counts'
    BY <1>n, <1>t DEF Counts, CorrectOnce, Returned, Captured, Again, Correction
  <2>2. Tags'
    BY <1>t
       DEF Tags, CorrectOnce, Returned, Captured, Again, Correction, Kinds,
           Corrections
  <2>3. Sent'
    BY <1>t
       DEF Sent, CorrectOnce, Returned, Captured, Again, Correction, Dispatches,
           Asks, Ask, Corrections
  <2>4. Remembered'
    BY <1>t DEF Remembered, CorrectOnce, Returned, Captured, Again, Correction
  <2> QED BY <2>1, <2>2, <2>3, <2>4 DEF TypeOK, Counts, Tags, Sent, Remembered
<1>2. AttemptsArePaid'
  <2>1. pc = "running" /\ UNCHANGED <<fixed, attempt>> /\ used \subseteq used'
    BY  DEF CorrectOnce, Returned, Captured, Again, Correction
  <2>2. pc' \in {"loop", "done"} /\ retries' >= retries /\ waits' >= waits
    BY <1>n, <1>t DEF CorrectOnce, Returned, Captured, Again, Correction
  <2>3. chain = <<>> => reopened' = 0 /\ ceiling' = ceiling + waits' - waits
    BY <1>n
       DEF TurnInv, AttemptsArePaid, CorrectOnce, Returned, Captured, Again,
           Correction
  <2>4. pc' = "done" \/ chain # <<>> \/ retries' > retries \/ waits' > waits
           \/ "replacement" \in used' \ used \/ Correction(kind) \in used' \ used
    BY <1>n, <1>t DEF CorrectOnce, Returned, Captured, Again, Correction
  <2> QED BY <1>1, <2>1, <2>2, <2>3, <2>4, PaidFor
<1>3. ReplayIsPending'
  BY <1>n
     DEF TurnInv, ReplayIsPending, CorrectOnce, Returned, Captured, Again,
         Correction
<1>4. CandidateIsLast' /\ Undecided'
  BY <1>n
     DEF TurnInv, CandidateIsLast, Undecided, CorrectOnce, Returned, Captured,
         Again, Correction
<1>5. NothingIsCutOff'
  BY <1>n
     DEF TurnInv, NothingIsCutOff, Undecided, CorrectOnce, Returned, Captured,
         Again, Correction
<1> QED BY <1>1, <1>2, <1>3, <1>4, <1>5 DEF TurnInv

(* A rejected answer keeps its own candidate only.                         *)
LEMMA RejectAnswerOK == ASSUME TurnInv, RejectAnswer PROVE TurnInv'
<1> USE DEF fixed, quota
<1>n. /\ attempt \in Nat /\ ceiling \in Nat /\ retries \in Nat /\ waits \in Nat
     /\ reopened \in Nat /\ model \in Nat /\ capture \in Nat /\ jumps \in Nat
     /\ retries <= Retries /\ waits <= MaxWaits /\ Retries \in Nat /\ MaxWaits \in Nat
  BY Numbers DEF TurnInv
<1>t. TypeOK /\ Counts /\ Tags /\ Sent /\ Remembered
  BY DEF TurnInv, TypeOK, Counts, Tags, Sent, Remembered
<1>1. TypeOK'
  <2>1. Counts'
    BY <1>n, <1>t DEF Counts, RejectAnswer, Returned, Captured, Finish
  <2>2. Tags'
    BY <1>t DEF Tags, RejectAnswer, Returned, Captured, Finish, Kinds, Corrections
  <2>3. Sent'
    BY <1>t
       DEF Sent, RejectAnswer, Returned, Captured, Finish, Dispatches, Asks, Ask,
           Corrections
  <2>4. Remembered'
    BY <1>t DEF Remembered, RejectAnswer, Returned, Captured, Finish
  <2> QED BY <2>1, <2>2, <2>3, <2>4 DEF TypeOK, Counts, Tags, Sent, Remembered
<1>2. AttemptsArePaid'
  <2>1. pc = "running" /\ UNCHANGED <<fixed, attempt>> /\ used \subseteq used'
    BY  DEF RejectAnswer, Returned, Captured, Finish
  <2>2. pc' \in {"loop", "done"} /\ retries' >= retries /\ waits' >= waits
    BY <1>n, <1>t DEF RejectAnswer, Returned, Captured, Finish
  <2>3. chain = <<>> => reopened' = 0 /\ ceiling' = ceiling + waits' - waits
    BY <1>n DEF TurnInv, AttemptsArePaid, RejectAnswer, Returned, Captured, Finish
  <2>4. pc' = "done" \/ chain # <<>> \/ retries' > retries \/ waits' > waits
           \/ "replacement" \in used' \ used \/ Correction(kind) \in used' \ used
    BY <1>n, <1>t DEF RejectAnswer, Returned, Captured, Finish
  <2> QED BY <1>1, <2>1, <2>2, <2>3, <2>4, PaidFor
<1>3. ReplayIsPending'
  BY <1>n DEF TurnInv, ReplayIsPending, RejectAnswer, Returned, Captured, Finish
<1>4. CandidateIsLast' /\ Undecided'
  BY <1>n
     DEF TurnInv, CandidateIsLast, Undecided, RejectAnswer, Returned, Captured,
         Finish
<1>5. NothingIsCutOff'
  BY <1>n
     DEF TurnInv, NothingIsCutOff, Undecided, RejectAnswer, Returned, Captured,
         Finish
<1> QED BY <1>1, <1>2, <1>3, <1>4, <1>5 DEF TurnInv

(* A resumed completion decides the turn or is paid for by a retry.        *)
LEMMA ResumeCompletionOK == ASSUME TurnInv, ResumeCompletion PROVE TurnInv'
<1> USE DEF fixed, quota
<1>n. /\ attempt \in Nat /\ ceiling \in Nat /\ retries \in Nat /\ waits \in Nat
     /\ reopened \in Nat /\ model \in Nat /\ capture \in Nat /\ jumps \in Nat
     /\ retries <= Retries /\ waits <= MaxWaits /\ Retries \in Nat /\ MaxWaits \in Nat
  BY Numbers DEF TurnInv
<1>t. TypeOK /\ Counts /\ Tags /\ Sent /\ Remembered
  BY DEF TurnInv, TypeOK, Counts, Tags, Sent, Remembered
<1>f. /\ retries' \in 0 .. Retries /\ retries' >= retries /\ model' \in Nat
     /\ \/ pc' = "done" /\ outcome' \in {"accepted", "failed"}
        \/ pc' = "loop" /\ outcome' = outcome /\ (retries' = retries + 1 \/ chain # <<>>)
  <2>1. CASE NextAfterFailure(FALSE)
    <3>1. /\ retries' \in 0 .. Retries /\ model' \in Nat
       /\ \/ pc' = "loop" /\ outcome' = outcome /\ retries' = retries + 1
          \/ /\ pc' = "loop" /\ outcome' = outcome /\ retries' = retries
             /\ chain # <<>>
          \/ pc' = "done" /\ outcome' = "failed" /\ retries' = retries
      BY <1>t, <2>1, FailurePays, Zenon
    <3> QED BY <1>n, <3>1
  <2>2. CASE (Finish("accepted") \/ Finish("failed")) /\ UNCHANGED <<retries, model>>
    BY <1>n, <2>2 DEF Finish
  <2> QED BY <2>1, <2>2 DEF ResumeCompletion
<1>1. TypeOK'
  <2>1. Counts'
    BY <1>n, <1>t, <1>f DEF Counts, ResumeCompletion, Returned
  <2>2. Tags'
    BY <1>t, <1>f DEF Tags, ResumeCompletion, Returned, Kinds, Corrections
  <2>3. Sent'
    BY <1>t, <1>f
       DEF Sent, ResumeCompletion, Returned, Dispatches, Asks, Ask, Corrections
  <2>4. Remembered'
    BY <1>t DEF Remembered, ResumeCompletion, Returned, Finish
  <2> QED BY <2>1, <2>2, <2>3, <2>4 DEF TypeOK, Counts, Tags, Sent, Remembered
<1>2. AttemptsArePaid'
  <2>1. pc = "running" /\ UNCHANGED <<fixed, attempt>> /\ used \subseteq used'
    BY  DEF ResumeCompletion, Returned
  <2>2. pc' \in {"loop", "done"} /\ retries' >= retries /\ waits' >= waits
    BY <1>n, <1>t, <1>f DEF ResumeCompletion, Returned
  <2>3. chain = <<>> => reopened' = 0 /\ ceiling' = ceiling + waits' - waits
    BY <1>n, <1>f DEF TurnInv, AttemptsArePaid, ResumeCompletion, Returned
  <2>4. pc' = "done" \/ chain # <<>> \/ retries' > retries \/ waits' > waits
           \/ "replacement" \in used' \ used \/ Correction(kind) \in used' \ used
    BY <1>n, <1>t, <1>f DEF ResumeCompletion, Returned
  <2> QED BY <1>1, <2>1, <2>2, <2>3, <2>4, PaidFor
<1>3. ReplayIsPending'
  BY <1>n, <1>f DEF TurnInv, ReplayIsPending, ResumeCompletion, Returned
<1>4. CandidateIsLast' /\ Undecided'
  BY <1>n, <1>f DEF TurnInv, CandidateIsLast, Undecided, ResumeCompletion, Returned
<1>5. NothingIsCutOff'
  BY <1>n, <1>f DEF TurnInv, NothingIsCutOff, Undecided, ResumeCompletion, Returned
<1> QED BY <1>1, <1>2, <1>3, <1>4, <1>5 DEF TurnInv

-----------------------------------------------------------------------------
(* The induction *)

(* The time that passes and the other turns of the run touch the memory    *)
(* of the groups only.                                                     *)
LEMMA MemoryOK == ASSUME TurnInv, Memory PROVE TurnInv'
<1>1. PICK g \in Mine : GroupReopens(g) \/ PeerExhausts(g)
  BY DEF Memory
<1>2. /\ UNCHANGED <<fixed, pc, attempt, ceiling, retries, used, pending, replay,
                     dispatch, time, reopened, waits, model, jumps, capture, outcome>>
      /\ peers' = peers \/ (peers < MaxPeers /\ peers' = peers + 1)
      /\ \E s \in {"open", "parsed", "cooldown"} : memory' = [memory EXCEPT ![g] = s]
  <2>1. CASE GroupReopens(g)
    BY <2>1 DEF GroupReopens
  <2>2. CASE PeerExhausts(g)
    BY <2>2 DEF PeerExhausts
  <2> QED BY <1>1, <2>1, <2>2
<1>3. TypeOK'
  <2>1. memory' \in [Groups -> {"open", "parsed", "cooldown"}]
    BY <1>2 DEF TurnInv, TypeOK
  <2>2. peers' \in 0 .. MaxPeers
    <3>1. peers \in 0 .. MaxPeers
      BY DEF TurnInv, TypeOK
    <3> QED BY <1>2, <3>1, MaxPeersAssumption
  <2> QED BY <1>2, <2>1, <2>2 DEF TurnInv, TypeOK, fixed
<1>4. AttemptsArePaid'
  BY <1>2, Zenon
     DEF TurnInv, AttemptsArePaid, CorrectionSlot, Granted, Once, Correction, fixed
<1> QED BY <1>2, <1>3, <1>4 DEF TurnInv, ReplayIsPending, CandidateIsLast, Undecided,
          NothingIsCutOff, fixed

(* The invariant holds before the first attempt.                           *)
LEMMA InitOK == Init => TurnInv
<1> SUFFICES ASSUME Init PROVE TurnInv
  OBVIOUS
<1>1. chain \in Seq(Groups) /\ Len(chain) \in Nat /\ (chain = <<>> => Len(chain) = 0)
  BY ChainsAssumption DEF Init
<1>2. ceiling = Len(chain) + Retries + 2 + CorrectionSlot /\ ceiling \in Nat
  BY <1>1, RetriesAssumption DEF Init, Allowance, CorrectionSlot
<1>3. model \in Nat
  <2>1. Eligible \subseteq DOMAIN chain /\ DOMAIN chain \subseteq Nat
    BY <1>1 DEF Eligible
  <2>2. CASE Eligible = {}
    BY <2>2 DEF Init
  <2>3. CASE Eligible # {}
    <3>1. First(Eligible) \in Eligible
      BY <2>1, <2>3, FirstIn
    <3>2. model = First(Eligible)
      BY <2>3, Zenon DEF Init
    <3> QED BY <2>1, <3>1, <3>2
  <2> QED BY <2>2, <2>3
<1>4. TypeOK
  BY <1>2, <1>3, RetriesAssumption, MaxWaitsAssumption, MaxPeersAssumption
     DEF Init, TypeOK, NoDispatch, Dispatches, Asks
<1>5. AttemptsArePaid
  <2>1. Granted = 0
    BY DEF Init, Granted, Once
  <2> QED BY <1>1, <1>2, <2>1, RetriesAssumption
     DEF Init, AttemptsArePaid, CorrectionSlot
<1>6. ReplayIsPending
  BY <1>2 DEF Init, ReplayIsPending
<1> QED BY <1>4, <1>5, <1>6
   DEF Init, TurnInv, CandidateIsLast, Undecided, NothingIsCutOff

(* Every step keeps the invariant.                                         *)
LEMMA StepOK == TurnInv /\ [Next]_vars => TurnInv'
<1> SUFFICES ASSUME TurnInv, [Next]_vars PROVE TurnInv'
  OBVIOUS
<1>1. CASE Turn
  BY <1>1, BeginOK, CutOffOK, WaitBeforeDispatchOK, StopBeforeDispatchOK, SendOK,
     LockWaitExpiresOK, AcceptOK, FailForGoodOK, ReplaceExecutableOK,
     FailTransientlyOK, LoseCapacityOK, HitQuotaOK, ExhaustGroupOK, RefuseContractOK,
     CorrectOnceOK, RejectAnswerOK, ResumeCompletionOK, Zenon DEF Turn
<1>2. CASE Memory
  BY <1>2, MemoryOK
<1>3. CASE UNCHANGED vars
  <2>1. TypeOK' /\ ReplayIsPending' /\ CandidateIsLast' /\ Undecided' /\ NothingIsCutOff'
    BY <1>3 DEF TurnInv, TypeOK, ReplayIsPending, CandidateIsLast, Undecided,
                NothingIsCutOff, vars
  <2>2. AttemptsArePaid'
    BY <1>3, Zenon DEF TurnInv, AttemptsArePaid, CorrectionSlot, Granted, Once,
                       Correction, vars
  <2> QED BY <2>1, <2>2 DEF TurnInv
<1> QED BY <1>1, <1>2, <1>3 DEF Next

(* The invariant of the turn.                                              *)
THEOREM TurnInvariant == Spec => []TurnInv
BY InitOK, StepOK, PTL DEF Spec

(* Every variable of a turn keeps its type, whatever the chains and limits. *)
THEOREM TurnTyping == Spec => []TypeOK
<1>1. TurnInv => TypeOK
  BY DEF TurnInv
<1> QED BY <1>1, TurnInvariant, PTL

(* The allowance of a turn (max_attempts) cuts off no retry, correction or *)
(* repeated command of an ordinary backend, and no replay of any backend:  *)
(* each attempt is paid for by a grant the allowance has counted.          *)
THEOREM AllowanceSuffices == Spec => []NothingIsCutOff
<1>1. TurnInv => NothingIsCutOff
  BY DEF TurnInv
<1> QED BY <1>1, TurnInvariant, PTL

(* A replan receives the plan candidate of the last attempt or none, never *)
(* one that a later answer has superseded.                                 *)
THEOREM CandidateIsFresh == Spec => []CaptureIsLast
<1>1. TurnInv => CaptureIsLast
  <2> SUFFICES ASSUME TurnInv, outcome \in {"failed", "cutoff"}, capture # 0
               PROVE  capture = attempt
    BY DEF CaptureIsLast
  <2> QED BY DEF TurnInv, CandidateIsLast
<1> QED BY <1>1, TurnInvariant, PTL

(* After a quota wait the dispatch that ran into the quota is sent again   *)
(* unchanged: ask, session and timeout.                                    *)
THEOREM ReplayExactness == Spec => ReplayIsExact
<1>1. ASSUME TurnInv, [Next]_vars, replay # NoDispatch, pc' = "running"
      PROVE  dispatch' = dispatch
  <2>1. replay = dispatch
    BY <1>1, Zenon DEF TurnInv, ReplayIsPending
  <2>2. CASE Send
    BY <1>1, <2>1, <2>2, Zenon DEF Send
  <2>3. CASE Begin \/ CutOff \/ WaitBeforeDispatch \/ StopBeforeDispatch
    BY <2>3 DEF Begin, CutOff, WaitBeforeDispatch, StopBeforeDispatch
  <2>4. CASE Returned
    BY <2>4 DEF Returned
  <2>5. CASE Memory
    BY <2>5, Zenon DEF Memory, GroupReopens, PeerExhausts
  <2>6. CASE UNCHANGED vars
    BY <2>6 DEF vars
  <2> QED BY <1>1, <2>2, <2>3, <2>4, <2>5, <2>6, Zenon
          DEF Next, Turn, LockWaitExpires, Accept, FailForGood, ReplaceExecutable,
              FailTransiently, LoseCapacity, HitQuota, ExhaustGroup, RefuseContract,
              CorrectOnce, RejectAnswer, ResumeCompletion
<1>2. TurnInv /\ [Next]_vars
        => [replay # NoDispatch /\ pc' = "running" => dispatch' = dispatch]_vars
  BY <1>1
<1> QED BY <1>2, TurnInvariant, PTL DEF Spec, ReplayIsExact

-----------------------------------------------------------------------------
(* The round and the setup as they are composed with the turn are the ones  *)
(* their theorems are about.                                               *)
(* A round begins as its theorems have it begin.                            *)
LEMMA RoundInit ==
  Round!Init => RoundProofs!Init
  BY DEF Round!Init, Round!Body, Round!Absent, Round!Legacy, Round!NoPost,
     Round!NoRun, RoundProofs!Init, RoundProofs!Body, RoundProofs!Absent,
     RoundProofs!Legacy, RoundProofs!NoPost, RoundProofs!NoRun

(* A round goes on as its theorems have it go on.                           *)
LEMMA RoundNext ==
  Round!Next => RoundProofs!Next
  BY ZenonT(60) DEF Round!Next, Round!SpoolLost, Round!Absent, Round!Fault,
     Round!CommentsDeleted, Round!ActorChanges, Round!RequirementsChange,
     Round!Crash, Round!outside, Round!Stop, Round!NoPost, Round!NoRun,
     Round!Program, Round!DiscardSpool, Round!Settled, Round!RemoveRecord,
     Round!Current, Round!ReconcileUnread, Round!Reconcile, Round!Landed,
     Round!Posted, Round!BodyPosted, Round!InPreflight, Round!Write, Round!LastBody,
     Round!Anchor, Round!WriteRefused, Round!WriteUnanswered, Round!Appended,
     Round!Body, Round!WriteAnswered, Round!PostSuffix, Round!Classified,
     Round!Sidecar, Round!Refused, Round!Bodies, Round!PrepareUnread, Round!Prepare,
     Round!Frozen, Round!Carrier, Round!LegacyClean, Round!Resumable,
     Round!StoreOutcome, Round!Unstored, Round!TurnReturns, Round!Stored,
     Round!Withheld, Round!TurnsReturned, Round!Launch, Round!Launched,
     Round!Replayed, Round!Replayable, Round!HasResponse, Round!Responses,
     Round!Rejected, Round!Waiting, Round!Ordered, Round!Launchable,
     Round!PublicPeers, Round!HasAnchor, Round!PreflightUnread, Round!Preflight,
     Round!Pending, Round!NeedsFreshTurn, Round!Deferrable, Round!Partial,
     Round!Passes, Round!StartRun, Round!Accepted, Round!SetToSeqs,
     Round!IsInjective, Round!RemoveAt, Round!Cardinality, RoundProofs!Next,
     RoundProofs!SpoolLost, RoundProofs!Absent, RoundProofs!Fault,
     RoundProofs!CommentsDeleted, RoundProofs!ActorChanges,
     RoundProofs!RequirementsChange, RoundProofs!Crash, RoundProofs!outside,
     RoundProofs!Stop, RoundProofs!NoPost, RoundProofs!NoRun, RoundProofs!Program,
     RoundProofs!DiscardSpool, RoundProofs!Settled, RoundProofs!RemoveRecord,
     RoundProofs!Current, RoundProofs!ReconcileUnread, RoundProofs!Reconcile,
     RoundProofs!Landed, RoundProofs!Posted, RoundProofs!BodyPosted,
     RoundProofs!InPreflight, RoundProofs!Write, RoundProofs!LastBody,
     RoundProofs!Anchor, RoundProofs!WriteRefused, RoundProofs!WriteUnanswered,
     RoundProofs!Appended, RoundProofs!Body, RoundProofs!WriteAnswered,
     RoundProofs!PostSuffix, RoundProofs!Classified, RoundProofs!Sidecar,
     RoundProofs!Refused, RoundProofs!Bodies, RoundProofs!PrepareUnread,
     RoundProofs!Prepare, RoundProofs!Frozen, RoundProofs!Carrier,
     RoundProofs!LegacyClean, RoundProofs!Resumable, RoundProofs!StoreOutcome,
     RoundProofs!Unstored, RoundProofs!TurnReturns, RoundProofs!Stored,
     RoundProofs!Withheld, RoundProofs!TurnsReturned, RoundProofs!Launch,
     RoundProofs!Launched, RoundProofs!Replayed, RoundProofs!Replayable,
     RoundProofs!HasResponse, RoundProofs!Responses, RoundProofs!Rejected,
     RoundProofs!Waiting, RoundProofs!Ordered, RoundProofs!Launchable,
     RoundProofs!PublicPeers, RoundProofs!HasAnchor, RoundProofs!PreflightUnread,
     RoundProofs!Preflight, RoundProofs!Pending, RoundProofs!NeedsFreshTurn,
     RoundProofs!Deferrable, RoundProofs!Partial, RoundProofs!Passes,
     RoundProofs!StartRun, RoundProofs!Accepted, RoundProofs!SetToSeqs,
     RoundProofs!IsInjective, RoundProofs!RemoveAt, RoundProofs!Cardinality

(* A store begins as its theorems have it begin.                            *)
LEMMA SetupInit ==
  Store!Init => StoreProofs!Init
  BY DEF Store!Init, Store!NoHealth, Store!NoRecord, StoreProofs!Init,
     StoreProofs!NoHealth, StoreProofs!NoRecord

(* A store changes as its theorems have it change.                          *)
LEMMA SetupNext ==
  Store!Next => StoreProofs!Next
  BY DEF Store!Next, Store!RunStep, Store!Crash, Store!files, Store!world,
     Store!Goto, Store!EndRun, Store!Marked, Store!NoRecord,
     Store!CheckSharedHealth, Store!Recovery, Store!Absent, Store!NoHealth,
     Store!ConfirmFailure, Store!Unconfirmed, Store!Refused, Store!Usable,
     Store!DamageSource, Store!LinkError, Store!LinkRefused, Store!Markable,
     Store!MakeLink, Store!RecordFails, Store!WriteRecord, Store!PublishHealth,
     Store!Baseline, Store!CommandFails, Store!CommandSucceeds, Store!StartCommand,
     Store!BeginRecovery, Store!InvalidateRecord, Store!SetupMatches,
     Store!PrepareRefused, Store!Prepared, Store!InspectDone, Store!MayBootstrap,
     Store!MarkStale, Store!InspectStale, Store!Bootstrap, Store!RecreateStore,
     Store!ForgetSetup, Store!BeginPrepare, Store!EmptyStore, StoreProofs!Next,
     StoreProofs!RunStep, StoreProofs!Crash, StoreProofs!files, StoreProofs!world,
     StoreProofs!Goto, StoreProofs!EndRun, StoreProofs!Marked, StoreProofs!NoRecord,
     StoreProofs!CheckSharedHealth, StoreProofs!Recovery, StoreProofs!Absent,
     StoreProofs!NoHealth, StoreProofs!ConfirmFailure, StoreProofs!Unconfirmed,
     StoreProofs!Refused, StoreProofs!Usable, StoreProofs!DamageSource,
     StoreProofs!LinkError, StoreProofs!LinkRefused, StoreProofs!Markable,
     StoreProofs!MakeLink, StoreProofs!RecordFails, StoreProofs!WriteRecord,
     StoreProofs!PublishHealth, StoreProofs!Baseline, StoreProofs!CommandFails,
     StoreProofs!CommandSucceeds, StoreProofs!StartCommand,
     StoreProofs!BeginRecovery, StoreProofs!InvalidateRecord,
     StoreProofs!SetupMatches, StoreProofs!PrepareRefused, StoreProofs!Prepared,
     StoreProofs!InspectDone, StoreProofs!MayBootstrap, StoreProofs!MarkStale,
     StoreProofs!InspectStale, StoreProofs!Bootstrap, StoreProofs!RecreateStore,
     StoreProofs!ForgetSetup, StoreProofs!BeginPrepare, StoreProofs!EmptyStore

(* The constants are as those theorems assume.                             *)
LEMMA RoundConstants == RoundProofs!ConstantsAreSound
  BY RoundAssumption DEF RoundProofs!ConstantsAreSound, IsFiniteSet,
     RoundProofs!IsFiniteSet

(* The constants of the setup are, too.                                    *)
LEMMA SetupConstants ==
  StoreProofs!ConstantsAreSound /\ Commanded \subseteq Runs /\ MaxDamage \in Nat
  BY StoreAssumption DEF StoreProofs!ConstantsAreSound

(* A run of the composition is a behaviour of each of its parts.           *)
LEMMA EveryPartRuns == MCSpec => Spec /\ RoundProofs!Spec /\ StoreProofs!Spec
<1>1. MCInit => Init /\ RoundProofs!Init /\ StoreProofs!Init
  BY RoundInit, SetupInit DEF MCInit
<1>2. [MCNext]_<<part, vars, roundVars, storeVars>> =>
        [Next]_vars /\ [RoundProofs!Next]_roundVars /\ [StoreProofs!Next]_storeVars
  BY RoundNext, SetupNext DEF MCNext
<1>3. roundVars = RoundProofs!vars
  BY DEF roundVars, RoundProofs!vars
<1>4. UNCHANGED storeVars <=> UNCHANGED StoreProofs!vars
  BY DEF storeVars, StoreProofs!vars, StoreProofs!world, StoreProofs!files
<1>5. [MCNext]_<<part, vars, roundVars, storeVars>> =>
        /\ [Next]_vars /\ [RoundProofs!Next]_(RoundProofs!vars)
        /\ [StoreProofs!Next]_(StoreProofs!vars)
  BY <1>2, <1>4 DEF roundVars, RoundProofs!vars
<1> QED BY <1>1, <1>5, PTL DEF MCSpec, Spec, RoundProofs!Spec, StoreProofs!Spec

(* Every variable of a turn, a round and a setup has its type.             *)
THEOREM ArtifactsTyping == MCSpec => []ArtifactsTypeOK
<1>1. Spec => []TypeOK
  BY TurnTyping
<1>2. RoundProofs!Spec => []RoundProofs!TypeOK
  BY RoundConstants, RoundProofs!RoundTyping
<1>3. StoreProofs!Spec => []StoreProofs!TypeOK
  BY SetupConstants, StoreProofs!SetupTyping
<1>4. RoundProofs!TypeOK => Round!TypeOK
  BY DEF Round!TypeOK, Round!Disturbances, Round!Anchor, Round!Outcomes,
     Round!Versions, Round!Bodies, Round!Sidecar, Round!HasResponse,
     Round!Responses, Round!Records, Round!Absent, RoundProofs!TypeOK,
     RoundProofs!Disturbances, RoundProofs!Anchor, RoundProofs!Outcomes,
     RoundProofs!Versions, RoundProofs!Bodies, RoundProofs!Sidecar,
     RoundProofs!HasResponse, RoundProofs!Responses, RoundProofs!Records,
     RoundProofs!Absent
<1>5. StoreProofs!TypeOK => Store!TypeOK
  BY DEF StoreProofs!TypeOK, Store!TypeOK
<1>6. TypeOK /\ RoundProofs!TypeOK /\ StoreProofs!TypeOK => ArtifactsTypeOK
  BY <1>4, <1>5 DEF ArtifactsTypeOK
<1> QED BY EveryPartRuns, <1>1, <1>2, <1>3, <1>6, PTL

(* The bodies of a review stay public once and whole whatever interrupts    *)
(* the runs that publish it (publication_resume.py:18 and 158).            *)
THEOREM RoundBodiesAreSound == MCSpec => []BodiesAreSound
<1>1. RoundProofs!Spec => []RoundProofs!BodiesAreSound
  BY RoundConstants, RoundProofs!BodySoundness
<1>2. RoundProofs!BodiesAreSound => BodiesAreSound
  BY DEF Round!BodiesAreSound, Round!AnchorsAreWhole, Round!Sidecar, Round!Anchor,
     Round!NoBodyTwice, RoundProofs!BodiesAreSound, RoundProofs!AnchorsAreWhole,
     RoundProofs!Sidecar, RoundProofs!Anchor, RoundProofs!NoBodyTwice,
     BodiesAreSound
<1> QED BY EveryPartRuns, <1>1, <1>2, PTL

(* No new reviewer works beside a public review (review_rounds.py:1261).   *)
THEOREM RoundTurnsAreIndependent == MCSpec => []TurnsAreIndependent
<1>1. RoundProofs!Spec => []RoundProofs!TurnsAreIndependent
  BY RoundConstants, RoundProofs!TurnIndependence
<1>2. RoundProofs!TurnsAreIndependent => TurnsAreIndependent
  BY DEF Round!TurnsAreIndependent, Round!Anchor, RoundProofs!TurnsAreIndependent,
     RoundProofs!Anchor, TurnsAreIndependent
<1> QED BY EveryPartRuns, <1>1, <1>2, PTL

(* A response that still validates stays in the spool (review_spool.py:14). *)
THEOREM RoundResponsesAreKept == MCSpec => ResponseKept
<1>1. RoundProofs!Spec => RoundProofs!ResponseKept
  BY RoundConstants, RoundProofs!ResponsesAreKept, PTL
<1>2. [\A r \in Reviewers :
           RoundProofs!HasResponse(r) /\ (spool[r].made = ctx \/ r \notin rejects) =>
             \/ RoundProofs!HasResponse(r)' /\ spool'[r].turn = spool[r].turn
             \/ RoundProofs!HasAnchor(r)
             \/ "spool" \in disturbed']_(RoundProofs!vars) =>
        [\A r \in Reviewers :
           Round!HasResponse(r) /\ (spool[r].made = ctx \/ r \notin rejects) =>
             \/ Round!HasResponse(r)' /\ spool'[r].turn = spool[r].turn
             \/ Round!HasAnchor(r)
             \/ "spool" \in disturbed']_(Round!vars)
  BY DEF Round!HasResponse, Round!Responses, Round!HasAnchor, Round!Anchor,
         Round!vars, Round!outside, RoundProofs!HasResponse, RoundProofs!Responses,
         RoundProofs!HasAnchor, RoundProofs!Anchor, RoundProofs!vars,
         RoundProofs!outside
<1> QED BY EveryPartRuns, <1>1, <1>2, PTL
        DEF ResponseKept, Round!ResponseKept, RoundProofs!ResponseKept

(* The setup record promises no more than a finished command installed      *)
(* (ensure_store_setup).                                                   *)
THEOREM StoreRecordIsTrue == MCSpec => []SetupRecordIsTrue
<1>1. StoreProofs!Spec => []StoreProofs!SetupRecordIsTrue
  BY SetupConstants, StoreProofs!SetupTruth
<1>2. StoreProofs!SetupRecordIsTrue => SetupRecordIsTrue
  BY DEF Store!SetupRecordIsTrue, Store!Usable, Store!NoRecord,
     StoreProofs!SetupRecordIsTrue, StoreProofs!Usable, StoreProofs!NoRecord,
     SetupRecordIsTrue
<1> QED BY EveryPartRuns, <1>1, <1>2, PTL

(* No run links an unfinished or damaged source, a pin is handed out with   *)
(* its own setup, and only a setup that succeeds clears the stale mark      *)
(* (ensure_health, prepare_store).                                         *)
THEOREM StoreSourcesAreSound == MCSpec => OnlySoundSourcesAreUsed
<1>1. StoreProofs!Spec => StoreProofs!OnlySoundSourcesAreUsed
  BY SetupConstants, StoreProofs!SourcesAreSound
<1>2. [StoreProofs!LinkedSourceIsWhole /\ StoreProofs!PinHasItsSetup
         /\ StoreProofs!OnlySetupClearsStale]_(StoreProofs!vars) =>
        [Store!LinkedSourceIsWhole /\ Store!PinHasItsSetup
           /\ Store!OnlySetupClearsStale]_(Store!vars)
  BY DEF Store!OnlySetupClearsStale, Store!NoHealth, Store!PinHasItsSetup,
     Store!LinkedSourceIsWhole, Store!vars, Store!world, Store!files,
     StoreProofs!OnlySetupClearsStale, StoreProofs!NoHealth,
     StoreProofs!PinHasItsSetup, StoreProofs!LinkedSourceIsWhole, StoreProofs!vars,
     StoreProofs!world, StoreProofs!files
<1> QED BY EveryPartRuns, <1>1, <1>2, PTL
        DEF OnlySoundSourcesAreUsed, Store!OnlySoundSourcesAreUsed,
            StoreProofs!OnlySoundSourcesAreUsed
=============================================================================
