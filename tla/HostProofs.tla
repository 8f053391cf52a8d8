----------------------------- MODULE HostProofs -----------------------------
(***************************************************************************)
(* Proofs of the safety of what the runs of a host share: the workdir      *)
(* claims, for any number of runs, processes and checkouts, and the run    *)
(* worktrees of one store, for any number of runs.                         *)
(***************************************************************************)
EXTENDS MCHost, FiniteSetTheorems, TLAPS

(* Why a path is locked: a claim is being recorded, is registered, or is   *)
(* being released; a probe holds the lock of the path it probes.           *)
Writing(r, p) == pc[r] = "writing" /\ p = Head(want[r])

LocksAccounted ==
  \A p \in Paths, r \in Runs :
    /\ flock[p] = Claim(r) => Writing(r, p) \/ p \in Owned(r) \/ p \in releasing[r]
    /\ flock[p] = Probe(r) => p \in probing[r]

WritersHold ==
  \A r \in Runs : pc[r] = "writing" =>
    /\ want[r] # <<>>
    /\ flock[Head(want[r])] = Claim(r)
    /\ registry[Host[r]][Head(want[r])] = NoRun

ReleasersHold ==
  \A r \in Runs : \A p \in releasing[r] :
    /\ flock[p] = Claim(r)
    /\ registry[Host[r]][p] = NoRun
    /\ pc[r] \in {"rollback", "releasing"}
    /\ releasing[r] = {p}

RegistryIsLocal ==
  \A h \in Procs, p \in Paths : registry[h][p] # NoRun => Host[registry[h][p]] = h

ProbesInBody ==
  \A r \in Runs : \A p \in probing[r] : pc[r] = "body" /\ probing[r] = {p}

OwnersAreOpen ==
  \A r \in Runs : pc[r] \in {"idle", "entered", "exiting", "done", "crashed"} =>
    Owned(r) = {}

(* What a claim call has taken is exactly what it added to the ownership.  *)
TakenIsNew ==
  \A r \in Runs :
    /\ pc[r] \in {"claiming", "writing", "rollback"} =>
         Owned(r) = before[r] \union taken[r] /\ before[r] \intersect taken[r] = {}
    /\ pc[r] = "rollback" => want[r] # <<>>
    /\ pc[r] = "body" => want[r] = <<>>

LiveIsOpen == \A h \in Procs : live[h] = Cardinality(Open(h))

ClaimInv ==
  /\ ClaimsAreLocked /\ HolderIsNamed /\ AllOrNothing
  /\ LocksAccounted /\ WritersHold /\ ReleasersHold /\ RegistryIsLocal
  /\ ProbesInBody /\ OwnersAreOpen /\ TakenIsNew

-----------------------------------------------------------------------------
(* The values of a lock file tell free, claimed and probed apart, and name *)
(* the holder.                                                             *)
LEMMA HolderShapes ==
  \A r, q \in Runs :
    /\ Claim(r) # Free /\ Probe(r) # Free /\ Claim(r) # Probe(q)
    /\ Claim(r) = Claim(q) => r = q
    /\ Probe(r) = Probe(q) => r = q
    /\ Claim(r)[2] = r /\ Probe(r)[2] = r
  BY DEF Free, Claim, Probe

(* A lock file is free, or locked for the claim or the probe of one run.   *)
LEMMA FlockType ==
  ASSUME TypeOK
  PROVE  \A p \in Paths : flock[p] = Free \/ \E r \in Runs : flock[p] \in {Claim(r), Probe(r)}
  BY DEF TypeOK, Free, Claim, Probe

(* A path that is being released has left the registry already.            *)
LEMMA ReleasingFacts ==
  ASSUME ReleasersHold, NEW r \in Runs, NEW p \in releasing[r]
  PROVE  registry[Host[r]][p] = NoRun /\ pc[r] \in {"rollback", "releasing"}
  BY DEF ReleasersHold

(* Every step of a run, of a probe or of a crash keeps the claims safe.    *)
LEMMA ClaimStep == ASSUME TypeOK, ClaimInv, Next, TypeOK' PROVE ClaimInv'
<1> USE HostAssumption, WantsAssumption, NoRunAssumption, HolderShapes
      DEF TypeOK, ClaimInv, ClaimsAreLocked, HolderIsNamed, AllOrNothing,
          LocksAccounted, WritersHold, ReleasersHold, RegistryIsLocal,
          ProbesInBody, OwnersAreOpen, TakenIsNew, Owned, Writing,
          MutexFree, MutexMine, Goto, claimVars, history
<1>0. \A r \in Runs : want[r] # <<>> => Head(want[r]) \in Paths
  OBVIOUS
<1>1. ASSUME NEW r \in Runs, EnterScope(r) PROVE ClaimInv'
  BY <1>0, <1>1 DEF EnterScope
<1>2. ASSUME NEW r \in Runs, BeginClaims(r) PROVE ClaimInv'
  BY <1>0, <1>2 DEF BeginClaims
<1>3. ASSUME NEW r \in Runs, AcquireAgain(r) PROVE ClaimInv'
  BY <1>0, <1>3 DEF AcquireAgain
<1>4. ASSUME NEW r \in Runs, AcquireRefused(r) PROVE ClaimInv'
  BY <1>0, <1>4 DEF AcquireRefused
<1>5. ASSUME NEW r \in Runs, AcquireLock(r) PROVE ClaimInv'
  <2>1. LocksAccounted'
    BY <1>0, <1>5 DEF AcquireLock
  <2>2. WritersHold' /\ ReleasersHold'
    BY <1>0, <1>5 DEF AcquireLock
  <2>3. ClaimsAreLocked' /\ HolderIsNamed' /\ AllOrNothing' /\ RegistryIsLocal'
    BY <1>0, <1>5 DEF AcquireLock
  <2>4. ProbesInBody' /\ OwnersAreOpen' /\ TakenIsNew'
    BY <1>0, <1>5 DEF AcquireLock
  <2> QED BY <2>1, <2>2, <2>3, <2>4
<1>6. ASSUME NEW r \in Runs, AcquireRegister(r) PROVE ClaimInv'
  <2> DEFINE p == Head(want[r])
  <2>1. p \in Paths /\ flock[p] = Claim(r) /\ registry[Host[r]][p] = NoRun
    BY <1>0, <1>6 DEF AcquireRegister
  <2>2. /\ Owned(r)' = Owned(r) \union {p}
        /\ \A q \in Runs \ {r} : Owned(q)' = Owned(q)
    BY <1>6, <2>1 DEF AcquireRegister
  <2>3. LocksAccounted' /\ WritersHold' /\ ReleasersHold'
    BY <1>0, <1>6, <2>1 DEF AcquireRegister
  <2>4. ClaimsAreLocked' /\ HolderIsNamed' /\ AllOrNothing' /\ RegistryIsLocal'
    BY <1>0, <1>6, <2>1, <2>2 DEF AcquireRegister
  <2>5. ProbesInBody' /\ OwnersAreOpen'
    BY <1>0, <1>6, <2>1, <2>2 DEF AcquireRegister
  <2>6. TakenIsNew'
    BY <1>0, <1>6, <2>1, <2>2 DEF AcquireRegister
  <2> QED BY <2>3, <2>4, <2>5, <2>6
<1>7. ASSUME NEW r \in Runs, AcquireWriteFails(r) PROVE ClaimInv'
  <2>1. LocksAccounted'
    BY <1>0, <1>7 DEF AcquireWriteFails
  <2>2. WritersHold' /\ ReleasersHold'
    BY <1>0, <1>7 DEF AcquireWriteFails
  <2>3. ClaimsAreLocked' /\ HolderIsNamed' /\ AllOrNothing' /\ RegistryIsLocal'
    BY <1>0, <1>7 DEF AcquireWriteFails
  <2>4. ProbesInBody' /\ OwnersAreOpen' /\ TakenIsNew'
    BY <1>0, <1>7 DEF AcquireWriteFails
  <2> QED BY <2>1, <2>2, <2>3, <2>4
<1>8. ASSUME NEW r \in Runs, ClaimsTaken(r) PROVE ClaimInv'
  BY <1>0, <1>8 DEF ClaimsTaken
<1>9. ASSUME NEW r \in Runs, RollbackOne(r) PROVE ClaimInv'
  BY <1>0, <1>9 DEF RollbackOne, ReleaseRecord
<1>10. ASSUME NEW r \in Runs, RollbackDone(r) PROVE ClaimInv'
  BY <1>0, <1>10 DEF RollbackDone
<1>11. ASSUME NEW r \in Runs, EndBody(r) PROVE ClaimInv'
  BY <1>0, <1>11 DEF EndBody
<1>12. ASSUME NEW r \in Runs, RunFinalizers(r) PROVE ClaimInv'
  BY <1>0, <1>12 DEF RunFinalizers
<1>13. ASSUME NEW r \in Runs, ReleaseOne(r) PROVE ClaimInv'
  BY <1>0, <1>13 DEF ReleaseOne, ReleaseRecord
<1>14. ASSUME NEW r \in Runs, ReleaseUnlock(r) PROVE ClaimInv'
  <2>0. \A x \in releasing[r] :
          registry[Host[r]][x] = NoRun /\ pc[r] \in {"rollback", "releasing"}
    BY ReleasingFacts
  <2>1. PICK p \in releasing[r] : flock' = [flock EXCEPT ![p] = Free]
    BY <1>14 DEF ReleaseUnlock
  <2>2. p \in Paths /\ releasing[r] = {p} /\ flock[p] = Claim(r)
    BY <2>1
  <2>3. \A q \in Runs : p \notin Owned(q) /\ ~Writing(q, p)
    <3> TAKE q \in Runs
    <3>1. registry[Host[r]][p] = NoRun /\ pc[r] # "writing"
      BY <2>0
    <3>2. p \in Owned(q) \/ Writing(q, p) => flock[p] = Claim(q)
      BY <2>2 DEF ClaimsAreLocked, WritersHold, Writing
    <3>3. q # r => Claim(q) # Claim(r)
      BY HolderShapes
    <3> QED BY <2>2, <3>1, <3>2, <3>3 DEF Owned, Writing
  <2>4. LocksAccounted'
    BY <1>0, <1>14, <2>1, <2>2 DEF ReleaseUnlock
  <2>5. WritersHold'
    BY <1>0, <1>14, <2>1, <2>2, <2>3 DEF ReleaseUnlock
  <2>6. ReleasersHold'
    BY <1>0, <1>14, <2>1, <2>2 DEF ReleaseUnlock
  <2>7. ClaimsAreLocked' /\ HolderIsNamed' /\ AllOrNothing' /\ RegistryIsLocal'
    BY <1>0, <1>14, <2>1, <2>2, <2>3 DEF ReleaseUnlock
  <2>8. ProbesInBody' /\ OwnersAreOpen' /\ TakenIsNew'
    BY <1>0, <1>14, <2>1, <2>2 DEF ReleaseUnlock
  <2> QED BY <2>4, <2>5, <2>6, <2>7, <2>8
<1>15. ASSUME NEW r \in Runs, ReleaseDone(r) PROVE ClaimInv'
  BY <1>0, <1>15 DEF ReleaseDone
<1>16. ASSUME NEW r \in Runs, ExitScope(r) PROVE ClaimInv'
  BY <1>0, <1>16 DEF ExitScope
<1>17. ASSUME NEW r \in Runs, ProbeLock(r) PROVE ClaimInv'
  <2>1. LocksAccounted'
    BY <1>0, <1>17 DEF ProbeLock
  <2>2. WritersHold' /\ ReleasersHold'
    BY <1>0, <1>17 DEF ProbeLock
  <2>3. ClaimsAreLocked' /\ HolderIsNamed' /\ AllOrNothing' /\ RegistryIsLocal'
    BY <1>0, <1>17 DEF ProbeLock
  <2>4. ProbesInBody' /\ OwnersAreOpen' /\ TakenIsNew'
    BY <1>0, <1>17 DEF ProbeLock
  <2> QED BY <2>1, <2>2, <2>3, <2>4
<1>18. ASSUME NEW r \in Runs, ProbeBusy(r) PROVE ClaimInv'
  BY <1>0, <1>18 DEF ProbeBusy
<1>19. ASSUME NEW r \in Runs, ProbeEnd(r) PROVE ClaimInv'
  <2>1. LocksAccounted'
    BY <1>0, <1>19 DEF ProbeEnd
  <2>2. WritersHold' /\ ReleasersHold'
    BY <1>0, <1>19 DEF ProbeEnd
  <2>3. ClaimsAreLocked' /\ HolderIsNamed' /\ AllOrNothing' /\ RegistryIsLocal'
    BY <1>0, <1>19 DEF ProbeEnd
  <2>4. ProbesInBody' /\ OwnersAreOpen' /\ TakenIsNew'
    BY <1>0, <1>19 DEF ProbeEnd
  <2> QED BY <2>1, <2>2, <2>3, <2>4
<1>20. ASSUME NEW r \in Runs, NEW p \in Paths, ProbeRegistry(r, p) PROVE ClaimInv'
  <2>1. LocksAccounted'
    BY <1>0, <1>20 DEF ProbeRegistry
  <2>2. WritersHold' /\ ReleasersHold'
    BY <1>0, <1>20 DEF ProbeRegistry
  <2>3. ClaimsAreLocked' /\ HolderIsNamed' /\ AllOrNothing' /\ RegistryIsLocal'
    BY <1>0, <1>20 DEF ProbeRegistry
  <2>4. ProbesInBody'
    BY <1>20 DEF ProbeRegistry
  <2>5. OwnersAreOpen' /\ TakenIsNew'
    BY <1>20 DEF ProbeRegistry
  <2> QED BY <2>1, <2>2, <2>3, <2>4, <2>5
<1>21. ASSUME NEW h \in Procs, Crash(h) PROVE ClaimInv'
  <2>1. LocksAccounted'
    BY <1>0, <1>21, FlockType DEF Crash, Open
  <2>2. WritersHold' /\ ReleasersHold'
    BY <1>0, <1>21, FlockType DEF Crash, Open
  <2>3. ClaimsAreLocked' /\ HolderIsNamed' /\ AllOrNothing' /\ RegistryIsLocal'
    BY <1>0, <1>21, FlockType DEF Crash, Open
  <2>4. ProbesInBody' /\ OwnersAreOpen' /\ TakenIsNew'
    BY <1>0, <1>21, FlockType DEF Crash, Open
  <2> QED BY <2>1, <2>2, <2>3, <2>4
<1> QED BY Zenon, <1>1, <1>2, <1>3, <1>4, <1>5, <1>6, <1>7, <1>8, <1>9, <1>10,
           <1>11, <1>12, <1>13, <1>14, <1>15, <1>16, <1>17, <1>18, <1>19, <1>20,
           <1>21 DEF Next, Acquire, Unwind, ProbeStep

-----------------------------------------------------------------------------
(* A process has finitely many live runs.                                  *)
LEMMA OpenFinite == \A h \in Procs : IsFiniteSet(Open(h)) /\ IsFiniteSet(Open(h)')
  BY RunsAssumption, FS_Subset DEF Open

(* The live-run counter of a process follows the scopes opened, closed and *)
(* lost in a crash, so it never goes below zero.                           *)
LEMMA LiveStep == ASSUME TypeOK, LiveIsOpen, Next PROVE LiveIsOpen'
<1> USE HostAssumption DEF TypeOK, LiveIsOpen
<1>1. ASSUME NEW r \in Runs, EnterScope(r) PROVE LiveIsOpen'
  <2>1. /\ Open(Host[r])' = Open(Host[r]) \union {r}
        /\ r \notin Open(Host[r])
        /\ \A h \in Procs \ {Host[r]} : Open(h)' = Open(h)
    BY <1>1 DEF EnterScope, Open, Goto
  <2>2. Cardinality(Open(Host[r])') = Cardinality(Open(Host[r])) + 1
    <3>1. IsFiniteSet(Open(Host[r])) /\ IsFiniteSet(Open(Host[r])')
      BY OpenFinite
    <3> QED BY <2>1, <3>1, FS_AddElement
  <2> QED BY <1>1, <2>1, <2>2 DEF EnterScope
<1>2. ASSUME NEW r \in Runs, ExitScope(r) PROVE LiveIsOpen'
  <2>1. /\ Open(Host[r])' = Open(Host[r]) \ {r}
        /\ r \in Open(Host[r])
        /\ \A h \in Procs \ {Host[r]} : Open(h)' = Open(h)
    BY <1>2 DEF ExitScope, Open, Goto
  <2>2. Cardinality(Open(Host[r])') = Cardinality(Open(Host[r])) - 1
    <3>1. IsFiniteSet(Open(Host[r])) /\ IsFiniteSet(Open(Host[r])')
      BY OpenFinite
    <3> QED BY <2>1, <3>1, FS_RemoveElement
  <2> QED BY <1>2, <2>1, <2>2 DEF ExitScope
<1>3. ASSUME NEW h \in Procs, Crash(h) PROVE LiveIsOpen'
  <2>1. Open(h)' = {} /\ \A k \in Procs \ {h} : Open(k)' = Open(k)
    BY <1>3 DEF Crash, Open
  <2> QED BY <1>3, <2>1, FS_EmptySet DEF Crash
<1>4. ASSUME UNCHANGED live,
             \A q \in Runs : pc'[q] = pc[q] \/ {pc[q], pc'[q]} \intersect {"idle", "done", "crashed"} = {}
      PROVE  LiveIsOpen'
  <2>1. \A h \in Procs : Open(h)' = Open(h)
    BY <1>4 DEF Open
  <2> QED BY <1>4, <2>1
<1>5. ASSUME NEW r \in Runs,
             \/ BeginClaims(r) \/ Acquire(r) \/ EndBody(r) \/ ProbeStep(r)
             \/ RollbackOne(r) \/ RollbackDone(r) \/ RunFinalizers(r)
             \/ ReleaseOne(r) \/ ReleaseUnlock(r) \/ ReleaseDone(r)
      PROVE  LiveIsOpen'
  <2>1. /\ UNCHANGED live
        /\ \/ UNCHANGED pc
           \/ \E label \in Labels \ {"idle", "done", "crashed"} :
                pc[r] \notin {"idle", "done", "crashed"} /\ Goto(r, label)
    BY <1>5 DEF Labels, BeginClaims, Acquire, AcquireAgain, AcquireRefused,
       AcquireLock, AcquireRegister, AcquireWriteFails, ClaimsTaken, EndBody,
       ProbeStep, ProbeLock, ProbeBusy, ProbeEnd, RollbackOne, RollbackDone,
       RunFinalizers, ReleaseOne, ReleaseUnlock, ReleaseDone, ReleaseRecord,
       claimVars
  <2> QED BY <1>4, <2>1 DEF Goto
<1>6. ASSUME NEW r \in Runs, NEW p \in Paths, ProbeRegistry(r, p) PROVE LiveIsOpen'
  BY <1>4, <1>6 DEF ProbeRegistry
<1> QED BY <1>1, <1>2, <1>3, <1>5, <1>6 DEF Next, Unwind

(* Every step keeps the types.                                             *)
LEMMA TypeStep ==
  ASSUME TypeOK, LiveIsOpen', WritersHold, Next PROVE TypeOK'
<1> USE HostAssumption, WantsAssumption, NoRunAssumption
      DEF TypeOK, Labels, Goto, claimVars, history, Owned, Free, Claim, Probe
<1>0. live' \in [Procs -> Nat]
  <2>1. DOMAIN live' = Procs /\ live' = [h \in Procs |-> live'[h]]
    BY DEF Next, EnterScope, ExitScope, Crash, BeginClaims, Acquire, AcquireAgain,
      AcquireRefused, AcquireLock, AcquireRegister, AcquireWriteFails, ClaimsTaken,
      EndBody, Unwind, ProbeStep, ProbeLock, ProbeBusy, ProbeEnd, ProbeRegistry,
      RollbackOne, RollbackDone, RunFinalizers, ReleaseOne, ReleaseUnlock,
      ReleaseDone, ReleaseRecord
  <2>2. \A h \in Procs : live'[h] \in Nat
    BY OpenFinite, FS_CardinalityType DEF LiveIsOpen
  <2> QED BY <2>1, <2>2
<1>1. ASSUME NEW r \in Runs, EnterScope(r) PROVE TypeOK'
  BY <1>0, <1>1 DEF EnterScope
<1>2. ASSUME NEW r \in Runs, BeginClaims(r) PROVE TypeOK'
  BY <1>0, <1>2 DEF BeginClaims
<1>3. ASSUME NEW r \in Runs, AcquireAgain(r) PROVE TypeOK'
  BY <1>0, <1>3 DEF AcquireAgain, WritersHold
<1>4. ASSUME NEW r \in Runs, AcquireRefused(r) PROVE TypeOK'
  BY <1>0, <1>4 DEF AcquireRefused, WritersHold
<1>5. ASSUME NEW r \in Runs, AcquireLock(r) PROVE TypeOK'
  BY <1>0, <1>5 DEF AcquireLock, WritersHold
<1>6. ASSUME NEW r \in Runs, AcquireRegister(r) PROVE TypeOK'
  BY <1>0, <1>6 DEF AcquireRegister, WritersHold
<1>7. ASSUME NEW r \in Runs, AcquireWriteFails(r) PROVE TypeOK'
  BY <1>0, <1>7 DEF AcquireWriteFails, WritersHold
<1>8. ASSUME NEW r \in Runs, ClaimsTaken(r) PROVE TypeOK'
  BY <1>0, <1>8 DEF ClaimsTaken
<1>9. ASSUME NEW r \in Runs, RollbackOne(r) PROVE TypeOK'
  BY <1>0, <1>9 DEF RollbackOne, ReleaseRecord
<1>10. ASSUME NEW r \in Runs, RollbackDone(r) PROVE TypeOK'
  BY <1>0, <1>10 DEF RollbackDone
<1>11. ASSUME NEW r \in Runs, EndBody(r) PROVE TypeOK'
  BY <1>0, <1>11 DEF EndBody
<1>12. ASSUME NEW r \in Runs, RunFinalizers(r) PROVE TypeOK'
  BY <1>0, <1>12 DEF RunFinalizers
<1>13. ASSUME NEW r \in Runs, ReleaseOne(r) PROVE TypeOK'
  BY <1>0, <1>13 DEF ReleaseOne, ReleaseRecord
<1>14. ASSUME NEW r \in Runs, ReleaseUnlock(r) PROVE TypeOK'
  BY <1>0, <1>14 DEF ReleaseUnlock
<1>15. ASSUME NEW r \in Runs, ReleaseDone(r) PROVE TypeOK'
  BY <1>0, <1>15 DEF ReleaseDone
<1>16. ASSUME NEW r \in Runs, ExitScope(r) PROVE TypeOK'
  BY <1>0, <1>16 DEF ExitScope
<1>17. ASSUME NEW r \in Runs, ProbeLock(r) PROVE TypeOK'
  BY <1>0, <1>17 DEF ProbeLock
<1>18. ASSUME NEW r \in Runs, ProbeBusy(r) PROVE TypeOK'
  BY <1>0, <1>18 DEF ProbeBusy
<1>19. ASSUME NEW r \in Runs, ProbeEnd(r) PROVE TypeOK'
  BY <1>0, <1>19 DEF ProbeEnd
<1>20. ASSUME NEW r \in Runs, NEW p \in Paths, ProbeRegistry(r, p) PROVE TypeOK'
  BY <1>0, <1>20 DEF ProbeRegistry
<1>21. ASSUME NEW h \in Procs, Crash(h) PROVE TypeOK'
  BY <1>0, <1>21 DEF Crash
<1> QED BY Zenon, <1>1, <1>2, <1>3, <1>4, <1>5, <1>6, <1>7, <1>8, <1>9, <1>10,
           <1>11, <1>12, <1>13, <1>14, <1>15, <1>16, <1>17, <1>18, <1>19, <1>20,
           <1>21 DEF Next, Acquire, Unwind, ProbeStep

-----------------------------------------------------------------------------
(* Together: the inductive invariant of the claims.                        *)
THEOREM ClaimInvariant == Spec => [](TypeOK /\ LiveIsOpen /\ ClaimInv)
<1>1. Init => TypeOK /\ LiveIsOpen /\ ClaimInv
  <2> SUFFICES ASSUME Init PROVE TypeOK /\ LiveIsOpen /\ ClaimInv
    OBVIOUS
  <2> USE HostAssumption, NoRunAssumption
  <2>1. TypeOK
    BY DEF Init, TypeOK, Labels, Free
  <2>2. LiveIsOpen
    <3>1. \A h \in Procs : Open(h) = {}
      BY DEF Init, Open
    <3> QED BY <3>1, FS_EmptySet DEF Init, LiveIsOpen
  <2>3. ClaimInv
    BY HolderShapes DEF Init, ClaimInv, ClaimsAreLocked, HolderIsNamed,
       AllOrNothing, LocksAccounted, WritersHold, ReleasersHold, RegistryIsLocal,
       ProbesInBody, OwnersAreOpen, TakenIsNew, Owned, Writing
  <2> QED BY <2>1, <2>2, <2>3
<1>2. TypeOK /\ LiveIsOpen /\ ClaimInv /\ [Next]_vars => (TypeOK /\ LiveIsOpen /\ ClaimInv)'
  <2>1. CASE Next
    BY <2>1, LiveStep, TypeStep, ClaimStep DEF ClaimInv
  <2>2. CASE UNCHANGED vars
    BY <2>2 DEF vars, history, TypeOK, LiveIsOpen, Open, ClaimInv, ClaimsAreLocked,
      HolderIsNamed, AllOrNothing, LocksAccounted, WritersHold, ReleasersHold,
      RegistryIsLocal, ProbesInBody, OwnersAreOpen, TakenIsNew, Owned, Writing
  <2> QED BY <2>1, <2>2
<1> QED BY <1>1, <1>2, PTL DEF Spec

(* Two runs never work in one checkout: a registered claim is locked by    *)
(* its run (acquire_workdir_claim, _release_claim).                        *)
THEOREM ClaimSafety == Spec => []ClaimsAreLocked
BY ClaimInvariant, PTL DEF ClaimInv

(* The holder record of a registered claim names its holder.               *)
THEOREM HolderSafety == Spec => []HolderIsNamed
BY ClaimInvariant, PTL DEF ClaimInv

(* Both: two runs share neither a checkout nor the record of its holder.   *)
THEOREM ClaimExclusion == Spec => []ClaimsAreExclusive
BY ClaimSafety, HolderSafety, PTL DEF ClaimsAreExclusive

(* claim_agent_workdirs is all or nothing.                                 *)
THEOREM RollbackSafety == Spec => []AllOrNothing
BY ClaimInvariant, PTL DEF ClaimInv

(* A closed scope leaves no lock behind and the live-run count is exact.   *)
THEOREM LeakFreedom == Spec => []NothingLeaks
<1>1. TypeOK /\ LiveIsOpen /\ ClaimInv => NothingLeaks
  <2> SUFFICES ASSUME TypeOK, LiveIsOpen, ClaimInv, NEW p \in Paths, flock[p] # Free
               PROVE  pc[flock[p][2]] \notin {"idle", "exiting", "done", "crashed"}
    BY DEF LiveIsOpen, NothingLeaks
  <2>1. PICK r \in Runs : flock[p] \in {Claim(r), Probe(r)}
    BY FlockType
  <2>2. flock[p][2] = r
    BY <2>1, HolderShapes
  <2>3. CASE flock[p] = Claim(r)
    BY <2>2, <2>3 DEF ClaimInv, LocksAccounted, Writing, OwnersAreOpen,
       ReleasersHold
  <2>4. CASE flock[p] = Probe(r)
    BY <2>2, <2>4 DEF ClaimInv, LocksAccounted, ProbesInBody
  <2> QED BY <2>1, <2>3, <2>4
<1> QED BY <1>1, ClaimInvariant, PTL

(* Every variable keeps its type, the live-run count its sign.             *)
THEOREM ClaimTyping == Spec => []TypeOK
BY ClaimInvariant, PTL

-----------------------------------------------------------------------------
Holding == {"preparing", "pruning", "adding", "unlinking", "undoing", "removing",
            "removed"}
Making == {"adding", "unlinking", "undoing"}
Between == {"claimed", "preparing", "prepared", "pruning", "pruned", "working"}
Ended == {"crashed", "failed", "done"}

(* The holds of store_lock exclude each other; only an error keeps the lock *)
(* a moment longer.                                                        *)
LockIsOwned ==
  /\ \A r \in WorktreeRuns : step[r] \in Holding => lock = r
  /\ probed => direct = 0

(* A run holds the claim on its path from its first step to its last, and   *)
(* has nothing on disk before.                                             *)
ClaimIsLife ==
  \A r \in WorktreeRuns :
    /\ r \in claim <=> step[r] \notin Ended \union {"idle"}
    /\ step[r] = "idle" => /\ path[r] = "none" /\ r \notin admin
                           /\ record[r] = "none" /\ made[r] = 0

(* The entries belong to the store as it is: recreating it takes a store    *)
(* without entries, so no link outlives the store it was made from, but one  *)
(* whose entry a failed add_run_worktree has removed: its record is pending. *)
EntriesAreOfStore ==
  /\ \A r \in WorktreeRuns :
       /\ path[r] = "linked" /\ record[r] = "ready" => r \in admin /\ made[r] = gen
       /\ path[r] = "linked" /\ step[r] = "adding" => r \in admin
  /\ admin # {} => store # "absent"
  /\ \A r \in WorktreeRuns : step[r] = "adding" /\ path[r] = "bare" => store # "absent"

(* What a run has on disk outside add_run_worktree, with the clean-up of a   *)
(* failure in it, and its finalizer: all of its worktree or nothing.  While *)
(* it is made or unmade the record is pending.                             *)
WholeOrNothing ==
  \A r \in WorktreeRuns :
    /\ step[r] \in Between => \/ path[r] = "none" /\ r \notin admin /\ made[r] = 0
                              \/ path[r] = "linked" /\ record[r] = "ready"
    /\ step[r] = "working" => path[r] = "linked"
    /\ step[r] \in Making => record[r] = "pending" /\ made[r] = 0

(* A worktree is removed by the prune of another run when its own is dead,  *)
(* or by the finalizer of its own run.                                     *)
VictimsAreFair ==
  \A r \in WorktreeRuns : victim[r] # NoRun =>
    /\ step[r] \in {"pruning", "removing"}
    /\ record[victim[r]] = "ready"
    /\ step[r] = "pruning" => victim[r] \in Worktrees!Dead
    /\ step[r] = "removing" => victim[r] = r

DoomedAreDead ==
  \A r \in WorktreeRuns : step[r] \in {"pruning", "pruned"} => swept[r] \subseteq Worktrees!Dead

(* The inductive invariant of the store.                                   *)
StoreInv ==
  /\ Worktrees!TypeOK /\ LockIsOwned /\ ClaimIsLife /\ EntriesAreOfStore /\ WholeOrNothing
  /\ VictimsAreFair /\ DoomedAreDead
  /\ Worktrees!ClaimedStoreStays /\ Worktrees!LeftoversAreFound

(* A run that claims its path has nothing on disk yet                       *)
(* (RunWorktreeFinalizers.claim).                                           *)
LEMMA ClaimPathKeeps ==
  ASSUME StoreInv, NEW r \in WorktreeRuns, Worktrees!ClaimPath(r)
  PROVE  StoreInv'
<1> USE DEF StoreInv, Worktrees!ClaimPath, Worktrees!Goto, Worktrees!disk
<1>1. Worktrees!TypeOK' /\ LockIsOwned' /\ ClaimIsLife'
  BY DEF Worktrees!TypeOK, LockIsOwned, ClaimIsLife, Worktrees!Labels, Holding,
     Ended
<1>2. EntriesAreOfStore' /\ WholeOrNothing'
  BY DEF EntriesAreOfStore, WholeOrNothing, Between, Making,
         ClaimIsLife, Ended
<1>3. Worktrees!NothingUnrecorded' /\ Worktrees!ClaimedStoreStays'
  BY DEF Worktrees!NothingUnrecorded, Worktrees!ClaimedStoreStays,
     Worktrees!LeftoversAreFound
<1>4. VictimsAreFair' /\ DoomedAreDead' /\ Worktrees!DeadWorktreesAreSwept'
  BY DEF VictimsAreFair, DoomedAreDead, Worktrees!DeadWorktreesAreSwept,
     Worktrees!Dead, Worktrees!LeftoversAreFound, Worktrees!Identified
<1> QED BY <1>1, <1>2, <1>3, <1>4 DEF Worktrees!LeftoversAreFound

(* prepare_store drops entries whose path is gone; the lock was free, so no *)
(* run is in the middle of a change.                                        *)
LEMMA BeginPrepareKeeps ==
  ASSUME StoreInv, NEW r \in WorktreeRuns, Worktrees!BeginPrepare(r)
  PROVE  StoreInv'
<1> USE DEF StoreInv, Worktrees!BeginPrepare, Worktrees!Lock, Worktrees!Goto,
        Worktrees!Pruned
<1>1. Worktrees!TypeOK' /\ LockIsOwned' /\ ClaimIsLife'
  BY WorktreesAssumption DEF Worktrees!TypeOK, LockIsOwned, ClaimIsLife,
     Worktrees!Labels, Holding, Ended
<1>2. EntriesAreOfStore' /\ WholeOrNothing'
  BY DEF EntriesAreOfStore, WholeOrNothing, Between, Making
<1>3. Worktrees!NothingUnrecorded' /\ Worktrees!ClaimedStoreStays'
  BY DEF Worktrees!NothingUnrecorded, Worktrees!ClaimedStoreStays,
     Worktrees!LeftoversAreFound
<1>4. VictimsAreFair' /\ DoomedAreDead' /\ Worktrees!DeadWorktreesAreSwept'
  BY DEF VictimsAreFair, DoomedAreDead, Worktrees!DeadWorktreesAreSwept,
     Worktrees!Dead, Worktrees!LeftoversAreFound, Worktrees!Identified
<1> QED BY <1>1, <1>2, <1>3, <1>4 DEF Worktrees!LeftoversAreFound

(* Recreating takes a store without entries and without a direct run: no    *)
(* link and no claim is left to break (_prepare_store_locked).              *)
LEMMA RemoveStoreKeeps ==
  ASSUME StoreInv, NEW r \in WorktreeRuns, Worktrees!RemoveStore(r)
  PROVE  StoreInv'
<1> USE DEF StoreInv, Worktrees!RemoveStore, Worktrees!MayRecreate
<1>1. Worktrees!TypeOK' /\ LockIsOwned' /\ ClaimIsLife'
  BY DEF Worktrees!TypeOK, LockIsOwned, ClaimIsLife, Worktrees!Labels, Holding,
     Ended
<1>2. EntriesAreOfStore' /\ WholeOrNothing'
  BY DEF EntriesAreOfStore, WholeOrNothing, Between, Making,
         LockIsOwned, Holding
<1>3. Worktrees!NothingUnrecorded' /\ Worktrees!ClaimedStoreStays'
  BY DEF Worktrees!NothingUnrecorded, Worktrees!ClaimedStoreStays,
     Worktrees!LeftoversAreFound, LockIsOwned, Holding
<1>4. VictimsAreFair' /\ DoomedAreDead' /\ Worktrees!DeadWorktreesAreSwept'
  BY DEF VictimsAreFair, DoomedAreDead, Worktrees!DeadWorktreesAreSwept,
     Worktrees!Dead, Worktrees!LeftoversAreFound, Worktrees!Identified
<1> QED BY <1>1, <1>2, <1>3, <1>4 DEF Worktrees!LeftoversAreFound

(* A new store starts a new generation while it has no entry                *)
(* (_init_store_locked).                                                    *)
LEMMA InitStoreKeeps ==
  ASSUME StoreInv, NEW r \in WorktreeRuns, Worktrees!InitStore(r)
  PROVE  StoreInv'
<1> USE DEF StoreInv, Worktrees!InitStore, Worktrees!Goto
<1>1. Worktrees!TypeOK' /\ LockIsOwned' /\ ClaimIsLife'
  BY DEF Worktrees!TypeOK, LockIsOwned, ClaimIsLife, Worktrees!Labels, Holding,
     Ended
<1>2. EntriesAreOfStore' /\ WholeOrNothing'
  BY DEF EntriesAreOfStore, WholeOrNothing, Between, Making,
         Worktrees!TypeOK
<1>3. Worktrees!NothingUnrecorded' /\ Worktrees!ClaimedStoreStays'
  BY DEF Worktrees!NothingUnrecorded, Worktrees!ClaimedStoreStays,
     Worktrees!LeftoversAreFound
<1>4. VictimsAreFair' /\ DoomedAreDead' /\ Worktrees!DeadWorktreesAreSwept'
  BY DEF VictimsAreFair, DoomedAreDead, Worktrees!DeadWorktreesAreSwept,
     Worktrees!Dead, Worktrees!LeftoversAreFound, Worktrees!Identified,
     Worktrees!TypeOK
<1> QED BY <1>1, <1>2, <1>3, <1>4 DEF Worktrees!LeftoversAreFound

(* A refusal changes nothing on disk.                                       *)
LEMMA PrepareRefusedKeeps ==
  ASSUME StoreInv, NEW r \in WorktreeRuns, Worktrees!PrepareRefused(r)
  PROVE  StoreInv'
<1> USE DEF StoreInv, Worktrees!PrepareRefused, Worktrees!Goto, Worktrees!disk
<1>1. Worktrees!TypeOK' /\ LockIsOwned' /\ ClaimIsLife'
  BY DEF Worktrees!TypeOK, LockIsOwned, ClaimIsLife, Worktrees!Labels, Holding,
     Ended
<1>2. EntriesAreOfStore' /\ WholeOrNothing'
  BY DEF EntriesAreOfStore, WholeOrNothing, Between, Making
<1>3. Worktrees!NothingUnrecorded' /\ Worktrees!ClaimedStoreStays'
  BY DEF Worktrees!NothingUnrecorded, Worktrees!ClaimedStoreStays,
     Worktrees!LeftoversAreFound
<1>4. VictimsAreFair' /\ DoomedAreDead' /\ Worktrees!DeadWorktreesAreSwept'
  BY DEF VictimsAreFair, DoomedAreDead, Worktrees!DeadWorktreesAreSwept,
     Worktrees!Dead, Worktrees!LeftoversAreFound, Worktrees!Identified
<1> QED BY <1>1, <1>2, <1>3, <1>4 DEF Worktrees!LeftoversAreFound

(* The lock of the store is given back; nothing on disk changes.            *)
LEMMA EndPrepareKeeps ==
  ASSUME StoreInv, NEW r \in WorktreeRuns, Worktrees!EndPrepare(r)
  PROVE  StoreInv'
<1> USE DEF StoreInv, Worktrees!EndPrepare, Worktrees!Unlock, Worktrees!Goto,
        Worktrees!disk
<1>1. Worktrees!TypeOK' /\ LockIsOwned' /\ ClaimIsLife'
  <2>1. Worktrees!TypeOK'
    BY DEF Worktrees!TypeOK, Worktrees!Labels
  <2>2. LockIsOwned'
    BY DEF Worktrees!TypeOK, LockIsOwned, Holding
  <2>3. ClaimIsLife'
    BY DEF Worktrees!TypeOK, ClaimIsLife, Ended
  <2> QED BY <2>1, <2>2, <2>3
<1>2. EntriesAreOfStore' /\ WholeOrNothing'
  BY DEF EntriesAreOfStore, WholeOrNothing, Between, Making
<1>3. Worktrees!NothingUnrecorded' /\ Worktrees!ClaimedStoreStays'
  BY DEF Worktrees!NothingUnrecorded, Worktrees!ClaimedStoreStays,
     Worktrees!LeftoversAreFound
<1>4. VictimsAreFair' /\ DoomedAreDead' /\ Worktrees!DeadWorktreesAreSwept'
  BY DEF VictimsAreFair, DoomedAreDead, Worktrees!DeadWorktreesAreSwept,
     Worktrees!Dead, Worktrees!LeftoversAreFound, Worktrees!Identified
<1> QED BY <1>1, <1>2, <1>3, <1>4 DEF Worktrees!LeftoversAreFound

(* What the sweep will take is fixed here: the whole worktrees of runs that *)
(* are dead.                                                                *)
LEMMA BeginPruneKeeps ==
  ASSUME StoreInv, NEW r \in WorktreeRuns, Worktrees!BeginPrune(r)
  PROVE  StoreInv'
<1> USE DEF StoreInv, Worktrees!BeginPrune, Worktrees!Lock, Worktrees!Goto,
        Worktrees!Pruned, Worktrees!Identified, Worktrees!Dead
<1>1. Worktrees!TypeOK' /\ LockIsOwned' /\ ClaimIsLife'
  BY WorktreesAssumption DEF Worktrees!TypeOK, LockIsOwned, ClaimIsLife,
     Worktrees!Labels, Holding, Ended
<1>2. EntriesAreOfStore' /\ WholeOrNothing'
  BY DEF EntriesAreOfStore, WholeOrNothing, Between, Making
<1>3. Worktrees!NothingUnrecorded' /\ Worktrees!ClaimedStoreStays'
  BY DEF Worktrees!NothingUnrecorded, Worktrees!ClaimedStoreStays,
     Worktrees!LeftoversAreFound
<1>4. VictimsAreFair' /\ DoomedAreDead' /\ Worktrees!DeadWorktreesAreSwept'
  BY DEF VictimsAreFair, DoomedAreDead, Worktrees!DeadWorktreesAreSwept,
         Worktrees!LeftoversAreFound, Worktrees!TypeOK
<1> QED BY <1>1, <1>2, <1>3, <1>4 DEF Worktrees!LeftoversAreFound

(* An identified worktree that no run claims has a dead owner: it was       *)
(* ready, so its run had claimed it.                                        *)
LEMMA PickVictimKeeps ==
  ASSUME StoreInv, NEW r \in WorktreeRuns, Worktrees!PickVictim(r)
  PROVE  StoreInv'
<1> USE DEF StoreInv, Worktrees!PickVictim, Worktrees!disk, Worktrees!Prunable
<1>1. Worktrees!TypeOK' /\ LockIsOwned' /\ ClaimIsLife'
  BY DEF Worktrees!TypeOK, LockIsOwned, ClaimIsLife, Worktrees!Labels, Holding,
     Ended
<1>2. EntriesAreOfStore' /\ WholeOrNothing'
  BY DEF EntriesAreOfStore, WholeOrNothing, Between, Making
<1>3. Worktrees!NothingUnrecorded' /\ Worktrees!ClaimedStoreStays'
  BY DEF Worktrees!NothingUnrecorded, Worktrees!ClaimedStoreStays,
     Worktrees!LeftoversAreFound
<1>4. VictimsAreFair' /\ DoomedAreDead' /\ Worktrees!DeadWorktreesAreSwept'
  BY DEF VictimsAreFair, DoomedAreDead, Worktrees!DeadWorktreesAreSwept,
     Worktrees!Dead, Worktrees!LeftoversAreFound, Worktrees!Identified, ClaimIsLife,
     Ended
<1> QED BY <1>1, <1>2, <1>3, <1>4 DEF Worktrees!LeftoversAreFound

(* Only a victim loses its path, the worktree of a dead run or the run's    *)
(* own (_remove_owned_locked).                                              *)
LEMMA RemoveTreeKeeps ==
  ASSUME StoreInv, NEW r \in WorktreeRuns, Worktrees!RemoveTree(r)
  PROVE  StoreInv'
<1> USE DEF StoreInv, Worktrees!RemoveTree
<1>1. Worktrees!TypeOK' /\ LockIsOwned' /\ ClaimIsLife'
  BY DEF Worktrees!TypeOK, LockIsOwned, ClaimIsLife, Worktrees!Labels, Holding,
     Ended
<1>2. EntriesAreOfStore' /\ WholeOrNothing'
  BY DEF EntriesAreOfStore, WholeOrNothing, Between, Making,
         Worktrees!TypeOK, VictimsAreFair, Worktrees!Dead
<1>3. Worktrees!NothingUnrecorded' /\ Worktrees!ClaimedStoreStays'
  BY DEF Worktrees!NothingUnrecorded, Worktrees!ClaimedStoreStays,
     Worktrees!LeftoversAreFound, Worktrees!TypeOK
<1>4. VictimsAreFair' /\ DoomedAreDead' /\ Worktrees!DeadWorktreesAreSwept'
  BY DEF VictimsAreFair, DoomedAreDead, Worktrees!DeadWorktreesAreSwept,
     Worktrees!Dead, Worktrees!LeftoversAreFound, Worktrees!Identified,
     Worktrees!TypeOK
<1> QED BY <1>1, <1>2, <1>3, <1>4 DEF Worktrees!LeftoversAreFound

(* A worktree left halfway is not identified any more, so the sweep need    *)
(* not take it.                                                             *)
LEMMA RemovalFailsKeeps ==
  ASSUME StoreInv, NEW r \in WorktreeRuns, Worktrees!RemovalFails(r)
  PROVE  StoreInv'
<1> USE DEF StoreInv, Worktrees!RemovalFails, Worktrees!Goto, Worktrees!disk
<1>1. Worktrees!TypeOK' /\ LockIsOwned' /\ ClaimIsLife'
  BY DEF Worktrees!TypeOK, LockIsOwned, ClaimIsLife, Worktrees!Labels, Holding,
     Ended
<1>2. EntriesAreOfStore' /\ WholeOrNothing'
  BY DEF EntriesAreOfStore, WholeOrNothing, Between, Making,
         Worktrees!TypeOK
<1>3. Worktrees!NothingUnrecorded' /\ Worktrees!ClaimedStoreStays'
  BY DEF Worktrees!NothingUnrecorded, Worktrees!ClaimedStoreStays,
     Worktrees!LeftoversAreFound
<1>4. VictimsAreFair' /\ DoomedAreDead' /\ Worktrees!DeadWorktreesAreSwept'
  BY DEF VictimsAreFair, DoomedAreDead, Worktrees!DeadWorktreesAreSwept,
     Worktrees!Dead, Worktrees!LeftoversAreFound, Worktrees!Identified,
     Worktrees!TypeOK
<1> QED BY <1>1, <1>2, <1>3, <1>4 DEF Worktrees!LeftoversAreFound

(* An error gives the victim up; its record stays.                          *)
LEMMA RemovalRaisesKeeps ==
  ASSUME StoreInv, NEW r \in WorktreeRuns, Worktrees!RemovalRaises(r)
  PROVE  StoreInv'
<1> USE DEF StoreInv, Worktrees!RemovalRaises, Worktrees!Goto, Worktrees!disk
<1>1. Worktrees!TypeOK' /\ LockIsOwned' /\ ClaimIsLife'
  BY WorktreesAssumption DEF Worktrees!TypeOK, LockIsOwned, ClaimIsLife,
     Worktrees!Labels, Holding, Ended, VictimsAreFair, Worktrees!Dead
<1>2. EntriesAreOfStore' /\ WholeOrNothing'
  BY DEF EntriesAreOfStore, WholeOrNothing, Between, Making
<1>3. Worktrees!NothingUnrecorded' /\ Worktrees!ClaimedStoreStays'
  BY DEF Worktrees!NothingUnrecorded, Worktrees!ClaimedStoreStays,
     Worktrees!LeftoversAreFound
<1>4. VictimsAreFair' /\ DoomedAreDead' /\ Worktrees!DeadWorktreesAreSwept'
  BY DEF VictimsAreFair, DoomedAreDead, Worktrees!DeadWorktreesAreSwept,
     Worktrees!Dead, Worktrees!LeftoversAreFound, Worktrees!Identified,
     Worktrees!TypeOK
<1> QED BY <1>1, <1>2, <1>3, <1>4 DEF Worktrees!LeftoversAreFound

(* The record goes only when git has dropped the entry.                     *)
LEMMA ForgetVictimKeeps ==
  ASSUME StoreInv, NEW r \in WorktreeRuns, Worktrees!ForgetVictim(r)
  PROVE  StoreInv'
<1> USE DEF StoreInv, Worktrees!ForgetVictim, Worktrees!Goto, Worktrees!Pruned
<1>1. Worktrees!TypeOK' /\ LockIsOwned' /\ ClaimIsLife'
  BY DEF Worktrees!TypeOK, LockIsOwned, ClaimIsLife, Worktrees!Labels, Holding,
     Ended
<1>2. EntriesAreOfStore' /\ WholeOrNothing'
  BY DEF EntriesAreOfStore, WholeOrNothing, Between, Making,
         Worktrees!TypeOK, VictimsAreFair, Worktrees!Dead
<1>3. Worktrees!NothingUnrecorded' /\ Worktrees!ClaimedStoreStays'
  BY DEF Worktrees!NothingUnrecorded, Worktrees!ClaimedStoreStays,
     Worktrees!LeftoversAreFound
<1>4. VictimsAreFair' /\ DoomedAreDead' /\ Worktrees!DeadWorktreesAreSwept'
  BY DEF VictimsAreFair, DoomedAreDead, Worktrees!DeadWorktreesAreSwept,
     Worktrees!Dead, Worktrees!LeftoversAreFound, Worktrees!Identified,
     Worktrees!TypeOK, LockIsOwned, Holding
<1> QED BY <1>1, <1>2, <1>3, <1>4 DEF Worktrees!LeftoversAreFound

(* The sweep ends when nothing dead is identified; it forgets only records  *)
(* of nothing.                                                              *)
LEMMA EndPruneKeeps ==
  ASSUME StoreInv, NEW r \in WorktreeRuns, Worktrees!EndPrune(r)
  PROVE  StoreInv'
<1> USE DEF StoreInv, Worktrees!EndPrune, Worktrees!Unlock, Worktrees!Goto,
        Worktrees!Prunable, Worktrees!Stray
<1>1. Worktrees!TypeOK' /\ LockIsOwned' /\ ClaimIsLife'
  BY DEF Worktrees!TypeOK, LockIsOwned, ClaimIsLife, Worktrees!Labels, Holding,
     Ended
<1>2. EntriesAreOfStore' /\ WholeOrNothing'
  BY DEF EntriesAreOfStore, WholeOrNothing, Between, Making,
         LockIsOwned, Holding
<1>3. Worktrees!NothingUnrecorded' /\ Worktrees!ClaimedStoreStays'
  BY DEF Worktrees!NothingUnrecorded, Worktrees!ClaimedStoreStays,
     Worktrees!LeftoversAreFound
<1>4. VictimsAreFair' /\ DoomedAreDead' /\ Worktrees!DeadWorktreesAreSwept'
  BY DEF VictimsAreFair, DoomedAreDead, Worktrees!DeadWorktreesAreSwept,
     Worktrees!Dead, Worktrees!LeftoversAreFound, Worktrees!Identified,
     Worktrees!TypeOK, ClaimIsLife, Ended, LockIsOwned, Holding
<1> QED BY <1>1, <1>2, <1>3, <1>4 DEF Worktrees!LeftoversAreFound

(* The pending record comes before anything on disk (add_run_worktree).     *)
LEMMA ReserveWorktreeKeeps ==
  ASSUME StoreInv, NEW r \in WorktreeRuns, Worktrees!ReserveWorktree(r)
  PROVE  StoreInv'
<1> USE DEF StoreInv, Worktrees!ReserveWorktree, Worktrees!Lock, Worktrees!Goto
<1>1. Worktrees!TypeOK' /\ LockIsOwned' /\ ClaimIsLife'
  BY WorktreesAssumption DEF Worktrees!TypeOK, LockIsOwned, ClaimIsLife,
     Worktrees!Labels, Holding, Ended
<1>2. EntriesAreOfStore' /\ WholeOrNothing'
  BY DEF EntriesAreOfStore, WholeOrNothing, Between, Making,
         Worktrees!TypeOK
<1>3. Worktrees!NothingUnrecorded' /\ Worktrees!ClaimedStoreStays'
  BY DEF Worktrees!NothingUnrecorded, Worktrees!ClaimedStoreStays,
     Worktrees!LeftoversAreFound, Worktrees!TypeOK, WholeOrNothing, Between,
     Making
<1>4. VictimsAreFair' /\ DoomedAreDead' /\ Worktrees!DeadWorktreesAreSwept'
  BY DEF VictimsAreFair, DoomedAreDead, Worktrees!DeadWorktreesAreSwept,
     Worktrees!Dead, Worktrees!LeftoversAreFound, Worktrees!Identified
<1> QED BY <1>1, <1>2, <1>3, <1>4 DEF Worktrees!LeftoversAreFound

(* The path is made under a store that exists and a pending record.         *)
LEMMA MakePathKeeps ==
  ASSUME StoreInv, NEW r \in WorktreeRuns, Worktrees!MakePath(r)
  PROVE  StoreInv'
<1> USE DEF StoreInv, Worktrees!MakePath
<1>1. Worktrees!TypeOK' /\ LockIsOwned' /\ ClaimIsLife'
  BY DEF Worktrees!TypeOK, LockIsOwned, ClaimIsLife, Worktrees!Labels, Holding,
     Ended
<1>2. EntriesAreOfStore' /\ WholeOrNothing'
  BY DEF EntriesAreOfStore, WholeOrNothing, Between, Making
<1>3. Worktrees!NothingUnrecorded' /\ Worktrees!ClaimedStoreStays'
  BY DEF Worktrees!NothingUnrecorded, Worktrees!ClaimedStoreStays,
     Worktrees!LeftoversAreFound, Worktrees!TypeOK, WholeOrNothing, Between,
     Making
<1>4. VictimsAreFair' /\ DoomedAreDead' /\ Worktrees!DeadWorktreesAreSwept'
  BY DEF VictimsAreFair, DoomedAreDead, Worktrees!DeadWorktreesAreSwept,
     Worktrees!Dead, Worktrees!LeftoversAreFound, Worktrees!Identified
<1> QED BY <1>1, <1>2, <1>3, <1>4 DEF Worktrees!LeftoversAreFound

(* The entry is made while the store exists.                                *)
LEMMA MakeAdminKeeps ==
  ASSUME StoreInv, NEW r \in WorktreeRuns, Worktrees!MakeAdmin(r)
  PROVE  StoreInv'
<1> USE DEF StoreInv, Worktrees!MakeAdmin
<1>1. Worktrees!TypeOK' /\ LockIsOwned' /\ ClaimIsLife'
  BY DEF Worktrees!TypeOK, LockIsOwned, ClaimIsLife, Worktrees!Labels, Holding,
     Ended
<1>2. EntriesAreOfStore' /\ WholeOrNothing'
  BY DEF EntriesAreOfStore, WholeOrNothing, Between, Making
<1>3. Worktrees!NothingUnrecorded' /\ Worktrees!ClaimedStoreStays'
  BY DEF Worktrees!NothingUnrecorded, Worktrees!ClaimedStoreStays,
     Worktrees!LeftoversAreFound, Worktrees!TypeOK, WholeOrNothing, Between,
     Making
<1>4. VictimsAreFair' /\ DoomedAreDead' /\ Worktrees!DeadWorktreesAreSwept'
  BY DEF VictimsAreFair, DoomedAreDead, Worktrees!DeadWorktreesAreSwept,
     Worktrees!Dead, Worktrees!LeftoversAreFound, Worktrees!Identified
<1> QED BY <1>1, <1>2, <1>3, <1>4 DEF Worktrees!LeftoversAreFound

(* The link is made from the store as it is.                                *)
LEMMA LinkPathKeeps ==
  ASSUME StoreInv, NEW r \in WorktreeRuns, Worktrees!LinkPath(r)
  PROVE  StoreInv'
<1> USE DEF StoreInv, Worktrees!LinkPath
<1>1. Worktrees!TypeOK' /\ LockIsOwned' /\ ClaimIsLife'
  BY DEF Worktrees!TypeOK, LockIsOwned, ClaimIsLife, Worktrees!Labels, Holding,
     Ended
<1>2. EntriesAreOfStore' /\ WholeOrNothing'
  BY DEF EntriesAreOfStore, WholeOrNothing, Between, Making,
         Worktrees!TypeOK
<1>3. Worktrees!NothingUnrecorded' /\ Worktrees!ClaimedStoreStays'
  BY DEF Worktrees!NothingUnrecorded, Worktrees!ClaimedStoreStays,
     Worktrees!LeftoversAreFound, Worktrees!TypeOK, WholeOrNothing, Between,
     Making
<1>4. VictimsAreFair' /\ DoomedAreDead' /\ Worktrees!DeadWorktreesAreSwept'
  BY DEF VictimsAreFair, DoomedAreDead, Worktrees!DeadWorktreesAreSwept,
     Worktrees!Dead, Worktrees!LeftoversAreFound, Worktrees!Identified
<1> QED BY <1>1, <1>2, <1>3, <1>4 DEF Worktrees!LeftoversAreFound

(* The record becomes ready once the worktree is whole.                     *)
LEMMA WorktreeReadyKeeps ==
  ASSUME StoreInv, NEW r \in WorktreeRuns, Worktrees!WorktreeReady(r)
  PROVE  StoreInv'
<1> USE DEF StoreInv, Worktrees!WorktreeReady, Worktrees!Unlock, Worktrees!Goto
<1>1. Worktrees!TypeOK' /\ LockIsOwned' /\ ClaimIsLife'
  BY DEF Worktrees!TypeOK, LockIsOwned, ClaimIsLife, Worktrees!Labels, Holding,
     Ended
<1>2. EntriesAreOfStore' /\ WholeOrNothing'
  BY DEF EntriesAreOfStore, WholeOrNothing, Between, Making,
         Worktrees!TypeOK
<1>3. Worktrees!NothingUnrecorded' /\ Worktrees!ClaimedStoreStays'
  BY DEF Worktrees!NothingUnrecorded, Worktrees!ClaimedStoreStays,
     Worktrees!LeftoversAreFound, Worktrees!TypeOK, WholeOrNothing, Between,
     Making
<1>4. VictimsAreFair' /\ DoomedAreDead' /\ Worktrees!DeadWorktreesAreSwept'
  BY DEF VictimsAreFair, DoomedAreDead, Worktrees!DeadWorktreesAreSwept,
     Worktrees!Dead, Worktrees!LeftoversAreFound, Worktrees!Identified
<1> QED BY <1>1, <1>2, <1>3, <1>4 DEF Worktrees!LeftoversAreFound

(* A step of _create_detached_link fails; nothing has changed yet.         *)
LEMMA LinkFailsKeeps ==
  ASSUME StoreInv, NEW r \in WorktreeRuns, Worktrees!LinkFails(r)
  PROVE  StoreInv'
<1> USE DEF StoreInv, Worktrees!LinkFails, Worktrees!Goto, Worktrees!disk
<1>1. Worktrees!TypeOK' /\ LockIsOwned' /\ ClaimIsLife'
  BY DEF Worktrees!TypeOK, LockIsOwned, ClaimIsLife, Worktrees!Labels, Holding,
     Ended
<1>2. EntriesAreOfStore' /\ WholeOrNothing'
  BY DEF EntriesAreOfStore, WholeOrNothing, Between, Making, Worktrees!TypeOK
<1>3. Worktrees!NothingUnrecorded' /\ Worktrees!ClaimedStoreStays'
  BY DEF Worktrees!NothingUnrecorded, Worktrees!ClaimedStoreStays,
     Worktrees!LeftoversAreFound, Worktrees!TypeOK, WholeOrNothing, Making
<1>4. VictimsAreFair' /\ DoomedAreDead' /\ Worktrees!DeadWorktreesAreSwept'
  BY DEF VictimsAreFair, DoomedAreDead, Worktrees!DeadWorktreesAreSwept,
     Worktrees!Dead, Worktrees!LeftoversAreFound, Worktrees!Identified,
     Worktrees!TypeOK
<1> QED BY <1>1, <1>2, <1>3, <1>4 DEF Worktrees!LeftoversAreFound

(* A step after it fails; the record is still pending.                     *)
LEMMA AddFailsKeeps ==
  ASSUME StoreInv, NEW r \in WorktreeRuns, Worktrees!AddFails(r)
  PROVE  StoreInv'
<1> USE DEF StoreInv, Worktrees!AddFails, Worktrees!Goto, Worktrees!disk
<1>1. Worktrees!TypeOK' /\ LockIsOwned' /\ ClaimIsLife'
  BY DEF Worktrees!TypeOK, LockIsOwned, ClaimIsLife, Worktrees!Labels, Holding,
     Ended
<1>2. EntriesAreOfStore' /\ WholeOrNothing'
  BY DEF EntriesAreOfStore, WholeOrNothing, Between, Making, Worktrees!TypeOK
<1>3. Worktrees!NothingUnrecorded' /\ Worktrees!ClaimedStoreStays'
  BY DEF Worktrees!NothingUnrecorded, Worktrees!ClaimedStoreStays,
     Worktrees!LeftoversAreFound, Worktrees!TypeOK, WholeOrNothing, Making
<1>4. VictimsAreFair' /\ DoomedAreDead' /\ Worktrees!DeadWorktreesAreSwept'
  BY DEF VictimsAreFair, DoomedAreDead, Worktrees!DeadWorktreesAreSwept,
     Worktrees!Dead, Worktrees!LeftoversAreFound, Worktrees!Identified,
     Worktrees!TypeOK
<1> QED BY <1>1, <1>2, <1>3, <1>4 DEF Worktrees!LeftoversAreFound

(* The path goes under the pending record, of a worktree never ready.      *)
LEMMA UndoPathKeeps ==
  ASSUME StoreInv, NEW r \in WorktreeRuns, Worktrees!UndoPath(r)
  PROVE  StoreInv'
<1> USE DEF StoreInv, Worktrees!UndoPath
<1>1. Worktrees!TypeOK' /\ LockIsOwned' /\ ClaimIsLife'
  BY DEF Worktrees!TypeOK, LockIsOwned, ClaimIsLife, Worktrees!Labels, Holding,
     Ended
<1>2. EntriesAreOfStore' /\ WholeOrNothing'
  BY DEF EntriesAreOfStore, WholeOrNothing, Between, Making, Worktrees!TypeOK
<1>3. Worktrees!NothingUnrecorded' /\ Worktrees!ClaimedStoreStays'
  BY DEF Worktrees!NothingUnrecorded, Worktrees!ClaimedStoreStays,
     Worktrees!LeftoversAreFound, Worktrees!TypeOK, WholeOrNothing, Making
<1>4. VictimsAreFair' /\ DoomedAreDead' /\ Worktrees!DeadWorktreesAreSwept'
  BY DEF VictimsAreFair, DoomedAreDead, Worktrees!DeadWorktreesAreSwept,
     Worktrees!Dead, Worktrees!LeftoversAreFound, Worktrees!Identified,
     Worktrees!TypeOK
<1> QED BY <1>1, <1>2, <1>3, <1>4 DEF Worktrees!LeftoversAreFound

(* The entry goes under the pending record; the path may stay, without one. *)
LEMMA UndoAdminKeeps ==
  ASSUME StoreInv, NEW r \in WorktreeRuns, Worktrees!UndoAdmin(r)
  PROVE  StoreInv'
<1> USE DEF StoreInv, Worktrees!UndoAdmin
<1>1. Worktrees!TypeOK' /\ LockIsOwned' /\ ClaimIsLife'
  BY DEF Worktrees!TypeOK, LockIsOwned, ClaimIsLife, Worktrees!Labels, Holding,
     Ended
<1>2. EntriesAreOfStore' /\ WholeOrNothing'
  BY DEF EntriesAreOfStore, WholeOrNothing, Between, Making, Worktrees!TypeOK
<1>3. Worktrees!NothingUnrecorded' /\ Worktrees!ClaimedStoreStays'
  BY DEF Worktrees!NothingUnrecorded, Worktrees!ClaimedStoreStays,
     Worktrees!LeftoversAreFound, Worktrees!TypeOK, WholeOrNothing, Making
<1>4. VictimsAreFair' /\ DoomedAreDead' /\ Worktrees!DeadWorktreesAreSwept'
  BY DEF VictimsAreFair, DoomedAreDead, Worktrees!DeadWorktreesAreSwept,
     Worktrees!Dead, Worktrees!LeftoversAreFound, Worktrees!Identified,
     Worktrees!TypeOK
<1> QED BY <1>1, <1>2, <1>3, <1>4 DEF Worktrees!LeftoversAreFound

(* Whatever the clean-up left has its pending record.                      *)
LEMMA UndoEndsKeeps ==
  ASSUME StoreInv, NEW r \in WorktreeRuns, Worktrees!UndoEnds(r)
  PROVE  StoreInv'
<1> USE DEF StoreInv, Worktrees!UndoEnds, Worktrees!Goto, Worktrees!disk
<1>1. Worktrees!TypeOK' /\ LockIsOwned' /\ ClaimIsLife'
  BY DEF Worktrees!TypeOK, LockIsOwned, ClaimIsLife, Worktrees!Labels, Holding,
     Ended
<1>2. EntriesAreOfStore' /\ WholeOrNothing'
  BY DEF EntriesAreOfStore, WholeOrNothing, Between, Making, Worktrees!TypeOK
<1>3. Worktrees!NothingUnrecorded' /\ Worktrees!ClaimedStoreStays'
  BY DEF Worktrees!NothingUnrecorded, Worktrees!ClaimedStoreStays,
     Worktrees!LeftoversAreFound, Worktrees!TypeOK, WholeOrNothing, Making
<1>4. VictimsAreFair' /\ DoomedAreDead' /\ Worktrees!DeadWorktreesAreSwept'
  BY DEF VictimsAreFair, DoomedAreDead, Worktrees!DeadWorktreesAreSwept,
     Worktrees!Dead, Worktrees!LeftoversAreFound, Worktrees!Identified,
     Worktrees!TypeOK
<1> QED BY <1>1, <1>2, <1>3, <1>4 DEF Worktrees!LeftoversAreFound

(* A worktree of this process is used again only when it is identified.     *)
LEMMA ReuseWorktreeKeeps ==
  ASSUME StoreInv, NEW r \in WorktreeRuns, Worktrees!ReuseWorktree(r)
  PROVE  StoreInv'
<1> USE DEF StoreInv, Worktrees!ReuseWorktree, Worktrees!Goto, Worktrees!disk,
        Worktrees!Identified
<1>1. Worktrees!TypeOK' /\ LockIsOwned' /\ ClaimIsLife'
  BY DEF Worktrees!TypeOK, LockIsOwned, ClaimIsLife, Worktrees!Labels, Holding,
     Ended
<1>2. EntriesAreOfStore' /\ WholeOrNothing'
  BY DEF EntriesAreOfStore, WholeOrNothing, Between, Making
<1>3. Worktrees!NothingUnrecorded' /\ Worktrees!ClaimedStoreStays'
  BY DEF Worktrees!NothingUnrecorded, Worktrees!ClaimedStoreStays,
     Worktrees!LeftoversAreFound
<1>4. VictimsAreFair' /\ DoomedAreDead' /\ Worktrees!DeadWorktreesAreSwept'
  BY DEF VictimsAreFair, DoomedAreDead, Worktrees!DeadWorktreesAreSwept,
     Worktrees!Dead, Worktrees!LeftoversAreFound
<1> QED BY <1>1, <1>2, <1>3, <1>4 DEF Worktrees!LeftoversAreFound

(* A later stage of the run claims what the run has claimed already.        *)
LEMMA PrepareAgainKeeps ==
  ASSUME StoreInv, NEW r \in WorktreeRuns, Worktrees!PrepareAgain(r)
  PROVE  StoreInv'
<1> USE DEF StoreInv, Worktrees!PrepareAgain, Worktrees!Goto, Worktrees!disk
<1>1. Worktrees!TypeOK' /\ LockIsOwned' /\ ClaimIsLife'
  BY DEF Worktrees!TypeOK, LockIsOwned, ClaimIsLife, Worktrees!Labels, Holding,
     Ended
<1>2. EntriesAreOfStore' /\ WholeOrNothing'
  BY DEF EntriesAreOfStore, WholeOrNothing, Between, Making
<1>3. Worktrees!NothingUnrecorded' /\ Worktrees!ClaimedStoreStays'
  BY DEF Worktrees!NothingUnrecorded, Worktrees!ClaimedStoreStays,
     Worktrees!LeftoversAreFound
<1>4. VictimsAreFair' /\ DoomedAreDead' /\ Worktrees!DeadWorktreesAreSwept'
  BY DEF VictimsAreFair, DoomedAreDead, Worktrees!DeadWorktreesAreSwept,
     Worktrees!Dead, Worktrees!LeftoversAreFound, Worktrees!Identified
<1> QED BY <1>1, <1>2, <1>3, <1>4 DEF Worktrees!LeftoversAreFound

(* The finalizer of a run takes the worktree of that run alone.             *)
LEMMA BeginRemoveKeeps ==
  ASSUME StoreInv, NEW r \in WorktreeRuns, Worktrees!BeginRemove(r)
  PROVE  StoreInv'
<1> USE DEF StoreInv, Worktrees!BeginRemove, Worktrees!Lock, Worktrees!Goto,
        Worktrees!disk, Worktrees!Identified
<1>1. Worktrees!TypeOK' /\ LockIsOwned' /\ ClaimIsLife'
  BY WorktreesAssumption DEF Worktrees!TypeOK, LockIsOwned, ClaimIsLife,
     Worktrees!Labels, Holding, Ended
<1>2. EntriesAreOfStore' /\ WholeOrNothing'
  BY DEF EntriesAreOfStore, WholeOrNothing, Between, Making
<1>3. Worktrees!NothingUnrecorded' /\ Worktrees!ClaimedStoreStays'
  BY DEF Worktrees!NothingUnrecorded, Worktrees!ClaimedStoreStays,
     Worktrees!LeftoversAreFound
<1>4. VictimsAreFair' /\ DoomedAreDead' /\ Worktrees!DeadWorktreesAreSwept'
  BY DEF VictimsAreFair, DoomedAreDead, Worktrees!DeadWorktreesAreSwept,
     Worktrees!Dead, Worktrees!LeftoversAreFound, Worktrees!TypeOK
<1> QED BY <1>1, <1>2, <1>3, <1>4 DEF Worktrees!LeftoversAreFound

(* The claims go last, when the worktree is gone or given up.               *)
LEMMA EndRunKeeps ==
  ASSUME StoreInv, NEW r \in WorktreeRuns, Worktrees!EndRun(r)
  PROVE  StoreInv'
<1> USE DEF StoreInv, Worktrees!EndRun, Worktrees!Unlock, Worktrees!Goto,
        Worktrees!disk
<1>1. Worktrees!TypeOK' /\ LockIsOwned' /\ ClaimIsLife'
  BY DEF Worktrees!TypeOK, LockIsOwned, ClaimIsLife, Worktrees!Labels, Holding,
     Ended
<1>2. EntriesAreOfStore' /\ WholeOrNothing'
  BY DEF EntriesAreOfStore, WholeOrNothing, Between, Making
<1>3. Worktrees!NothingUnrecorded' /\ Worktrees!ClaimedStoreStays'
  BY DEF Worktrees!NothingUnrecorded, Worktrees!ClaimedStoreStays,
     Worktrees!LeftoversAreFound
<1>4. VictimsAreFair' /\ DoomedAreDead' /\ Worktrees!DeadWorktreesAreSwept'
  BY DEF VictimsAreFair, DoomedAreDead, Worktrees!DeadWorktreesAreSwept,
     Worktrees!Dead, Worktrees!LeftoversAreFound, Worktrees!Identified
<1> QED BY <1>1, <1>2, <1>3, <1>4 DEF Worktrees!LeftoversAreFound

(* An error gives back the lock, the probe and the claims, and leaves the   *)
(* disk.                                                                    *)
LEMMA FailKeeps ==
  ASSUME StoreInv, NEW r \in WorktreeRuns, Worktrees!Fail(r)
  PROVE  StoreInv'
<1> USE DEF StoreInv, Worktrees!Fail, Worktrees!Goto, Worktrees!disk
<1>1. Worktrees!TypeOK' /\ LockIsOwned' /\ ClaimIsLife'
  <2>1. Worktrees!TypeOK'
    BY DEF Worktrees!TypeOK, Worktrees!Labels
  <2>2. LockIsOwned'
    BY DEF Worktrees!TypeOK, LockIsOwned, Holding
  <2>3. ClaimIsLife'
    BY DEF Worktrees!TypeOK, ClaimIsLife, Ended
  <2> QED BY <2>1, <2>2, <2>3
<1>2. EntriesAreOfStore' /\ WholeOrNothing'
  BY DEF EntriesAreOfStore, WholeOrNothing, Between, Making
<1>3. Worktrees!NothingUnrecorded' /\ Worktrees!ClaimedStoreStays'
  BY DEF Worktrees!NothingUnrecorded, Worktrees!ClaimedStoreStays,
     Worktrees!LeftoversAreFound
<1>4. VictimsAreFair' /\ DoomedAreDead' /\ Worktrees!DeadWorktreesAreSwept'
  BY DEF VictimsAreFair, DoomedAreDead, Worktrees!DeadWorktreesAreSwept,
     Worktrees!Dead, Worktrees!LeftoversAreFound, Worktrees!Identified
<1> QED BY <1>1, <1>2, <1>3, <1>4 DEF Worktrees!LeftoversAreFound

(* A crash gives back the flocks; the disk stays as it was, with its        *)
(* record.                                                                  *)
LEMMA CrashKeeps ==
  ASSUME StoreInv, NEW r \in WorktreeRuns, Worktrees!Crash(r)
  PROVE  StoreInv'
<1> USE DEF StoreInv, Worktrees!Crash, Worktrees!Goto, Worktrees!disk,
        Worktrees!Dead
<1>1. Worktrees!TypeOK' /\ LockIsOwned' /\ ClaimIsLife'
  <2>1. Worktrees!TypeOK'
    BY DEF Worktrees!TypeOK, Worktrees!Labels
  <2>2. LockIsOwned'
    BY DEF Worktrees!TypeOK, LockIsOwned, Holding
  <2>3. ClaimIsLife'
    BY DEF Worktrees!TypeOK, ClaimIsLife, Ended
  <2> QED BY <2>1, <2>2, <2>3
<1>2. EntriesAreOfStore' /\ WholeOrNothing'
  BY DEF EntriesAreOfStore, WholeOrNothing, Between, Making
<1>3. Worktrees!NothingUnrecorded' /\ Worktrees!ClaimedStoreStays'
  BY DEF Worktrees!NothingUnrecorded, Worktrees!ClaimedStoreStays,
     Worktrees!LeftoversAreFound
<1>4. VictimsAreFair' /\ DoomedAreDead' /\ Worktrees!DeadWorktreesAreSwept'
  BY DEF VictimsAreFair, DoomedAreDead, Worktrees!DeadWorktreesAreSwept,
         Worktrees!LeftoversAreFound, Worktrees!Identified, Worktrees!TypeOK
<1> QED BY <1>1, <1>2, <1>3, <1>4 DEF Worktrees!LeftoversAreFound

(* A direct run claims a good store between two recreations.                *)
LEMMA DirectBeginsKeeps ==
  ASSUME StoreInv, Worktrees!DirectBegins
  PROVE  StoreInv'
<1> USE DEF StoreInv, Worktrees!DirectBegins, Worktrees!disk
<1>1. Worktrees!TypeOK' /\ LockIsOwned' /\ ClaimIsLife'
  BY DEF Worktrees!TypeOK, LockIsOwned, ClaimIsLife, Worktrees!Labels, Holding,
     Ended
<1>2. EntriesAreOfStore' /\ WholeOrNothing'
  BY DEF EntriesAreOfStore, WholeOrNothing, Between, Making
<1>3. Worktrees!NothingUnrecorded' /\ Worktrees!ClaimedStoreStays'
  BY DEF Worktrees!NothingUnrecorded, Worktrees!ClaimedStoreStays,
     Worktrees!LeftoversAreFound
<1>4. VictimsAreFair' /\ DoomedAreDead' /\ Worktrees!DeadWorktreesAreSwept'
  BY DEF VictimsAreFair, DoomedAreDead, Worktrees!DeadWorktreesAreSwept,
     Worktrees!Dead, Worktrees!LeftoversAreFound, Worktrees!Identified
<1> QED BY <1>1, <1>2, <1>3, <1>4 DEF Worktrees!LeftoversAreFound

(* A direct run that ends leaves the store as it is.                        *)
LEMMA DirectEndsKeeps ==
  ASSUME StoreInv, Worktrees!DirectEnds
  PROVE  StoreInv'
<1> USE DEF StoreInv, Worktrees!DirectEnds, Worktrees!disk
<1>1. Worktrees!TypeOK' /\ LockIsOwned' /\ ClaimIsLife'
  BY DEF Worktrees!TypeOK, LockIsOwned, ClaimIsLife, Worktrees!Labels, Holding,
     Ended
<1>2. EntriesAreOfStore' /\ WholeOrNothing'
  BY DEF EntriesAreOfStore, WholeOrNothing, Between, Making
<1>3. Worktrees!NothingUnrecorded' /\ Worktrees!ClaimedStoreStays'
  BY DEF Worktrees!NothingUnrecorded, Worktrees!ClaimedStoreStays,
     Worktrees!LeftoversAreFound
<1>4. VictimsAreFair' /\ DoomedAreDead' /\ Worktrees!DeadWorktreesAreSwept'
  BY DEF VictimsAreFair, DoomedAreDead, Worktrees!DeadWorktreesAreSwept,
     Worktrees!Dead, Worktrees!LeftoversAreFound, Worktrees!Identified
<1> QED BY <1>1, <1>2, <1>3, <1>4 DEF Worktrees!LeftoversAreFound

(* A store that goes stale keeps its entries.                               *)
LEMMA StoreGoesStaleKeeps ==
  ASSUME StoreInv, Worktrees!StoreGoesStale
  PROVE  StoreInv'
<1> USE DEF StoreInv, Worktrees!StoreGoesStale
<1>1. Worktrees!TypeOK' /\ LockIsOwned' /\ ClaimIsLife'
  BY WorktreesAssumption DEF Worktrees!TypeOK, LockIsOwned, ClaimIsLife,
     Worktrees!Labels, Holding, Ended
<1>2. EntriesAreOfStore' /\ WholeOrNothing'
  BY DEF EntriesAreOfStore, WholeOrNothing, Between, Making
<1>3. Worktrees!NothingUnrecorded' /\ Worktrees!ClaimedStoreStays'
  BY DEF Worktrees!NothingUnrecorded, Worktrees!ClaimedStoreStays,
     Worktrees!LeftoversAreFound
<1>4. VictimsAreFair' /\ DoomedAreDead' /\ Worktrees!DeadWorktreesAreSwept'
  BY DEF VictimsAreFair, DoomedAreDead, Worktrees!DeadWorktreesAreSwept,
     Worktrees!Dead, Worktrees!LeftoversAreFound, Worktrees!Identified
<1> QED BY <1>1, <1>2, <1>3, <1>4 DEF Worktrees!LeftoversAreFound

-----------------------------------------------------------------------------
(* Initially no run has begun and nothing is on disk.                      *)
LEMMA InitStoreInv == ASSUME Worktrees!Init PROVE StoreInv
<1> USE WorktreesAssumption DEF StoreInv, Worktrees!Init
<1>1. Worktrees!TypeOK /\ LockIsOwned /\ ClaimIsLife
  <2>1. Worktrees!TypeOK
    <3>1. stales \in 0..MaxStale /\ lock \in WorktreeRuns \union {NoRun}
      OBVIOUS
    <3>2. step \in [WorktreeRuns -> Worktrees!Labels] /\ swept \in [WorktreeRuns -> SUBSET WorktreeRuns]
      BY DEF Worktrees!Labels
    <3>3. admin \in SUBSET WorktreeRuns /\ claim \in SUBSET WorktreeRuns
      OBVIOUS
    <3>4. victim \in [WorktreeRuns -> WorktreeRuns \union {NoRun}] /\ made \in [WorktreeRuns -> Nat]
      OBVIOUS
    <3> QED BY <3>1, <3>2, <3>3, <3>4 DEF Worktrees!TypeOK
  <2>2. LockIsOwned /\ ClaimIsLife
    BY DEF LockIsOwned, ClaimIsLife, Holding, Ended
  <2> QED BY <2>1, <2>2
<1>2. EntriesAreOfStore /\ WholeOrNothing
  BY DEF EntriesAreOfStore, WholeOrNothing, Between, Making
<1>3. VictimsAreFair /\ DoomedAreDead /\ Worktrees!ClaimedStoreStays /\ Worktrees!LeftoversAreFound
  BY DEF VictimsAreFair, DoomedAreDead, Worktrees!ClaimedStoreStays,
     Worktrees!LeftoversAreFound, Worktrees!NothingUnrecorded,
     Worktrees!DeadWorktreesAreSwept
<1> QED BY <1>1, <1>2, <1>3

(* Every step of a run, of a direct run or of the host keeps the invariant, *)
(* and so does a step of anything else.                                    *)
LEMMA StoreStep ==
  ASSUME StoreInv, [Worktrees!Next]_(Worktrees!vars)
  PROVE  StoreInv'
<1>1. ASSUME NEW r \in WorktreeRuns, Worktrees!PrepareStep(r) PROVE StoreInv'
  BY <1>1, BeginPrepareKeeps, RemoveStoreKeeps, InitStoreKeeps,
     PrepareRefusedKeeps, EndPrepareKeeps DEF Worktrees!PrepareStep
<1>2. ASSUME NEW r \in WorktreeRuns, Worktrees!PruneStep(r) PROVE StoreInv'
  BY <1>2, BeginPruneKeeps, PickVictimKeeps, RemoveTreeKeeps, RemovalFailsKeeps,
     RemovalRaisesKeeps, ForgetVictimKeeps, EndPruneKeeps DEF Worktrees!PruneStep
<1>3. ASSUME NEW r \in WorktreeRuns, Worktrees!AddStep(r) PROVE StoreInv'
  BY <1>3, ReserveWorktreeKeeps, MakePathKeeps, MakeAdminKeeps, LinkPathKeeps,
     WorktreeReadyKeeps, LinkFailsKeeps, AddFailsKeeps, UndoPathKeeps,
     UndoAdminKeeps, UndoEndsKeeps, ReuseWorktreeKeeps DEF Worktrees!AddStep
<1>4. ASSUME NEW r \in WorktreeRuns,
             Worktrees!ClaimPath(r) \/ Worktrees!PrepareAgain(r) \/ Worktrees!BeginRemove(r) \/ Worktrees!EndStep(r) \/ Worktrees!Crash(r)
      PROVE  StoreInv'
  BY <1>4, ClaimPathKeeps, PrepareAgainKeeps, BeginRemoveKeeps, EndRunKeeps,
     FailKeeps, CrashKeeps DEF Worktrees!EndStep
<1>5. CASE Worktrees!DirectBegins \/ Worktrees!DirectEnds \/ Worktrees!StoreGoesStale
  BY <1>5, DirectBeginsKeeps, DirectEndsKeeps, StoreGoesStaleKeeps
<1>6. CASE UNCHANGED Worktrees!vars
  <2> USE <1>6 DEF Worktrees!vars, Worktrees!disk, StoreInv
  <2>1. Worktrees!TypeOK' /\ LockIsOwned' /\ ClaimIsLife'
    BY DEF Worktrees!TypeOK, LockIsOwned, ClaimIsLife
  <2>2. EntriesAreOfStore' /\ WholeOrNothing'
    BY DEF EntriesAreOfStore, WholeOrNothing
  <2>3. VictimsAreFair' /\ DoomedAreDead' /\ Worktrees!DeadWorktreesAreSwept'
    BY DEF VictimsAreFair, DoomedAreDead, Worktrees!LeftoversAreFound,
       Worktrees!DeadWorktreesAreSwept, Worktrees!Dead, Worktrees!Identified
  <2>4. Worktrees!NothingUnrecorded' /\ Worktrees!ClaimedStoreStays'
    BY DEF Worktrees!LeftoversAreFound, Worktrees!NothingUnrecorded,
       Worktrees!ClaimedStoreStays
  <2> QED BY <2>1, <2>2, <2>3, <2>4 DEF Worktrees!LeftoversAreFound
<1> QED BY <1>1, <1>2, <1>3, <1>4, <1>5, <1>6 DEF Worktrees!Next

-----------------------------------------------------------------------------
(* The invariant of the store holds whatever its runs do, with any number  *)
(* of them and any number of crashes.                                      *)
THEOREM StoreInvariant == Worktrees!Spec => []StoreInv
<1>1. Worktrees!Init => StoreInv
  BY InitStoreInv
<1>2. StoreInv /\ [Worktrees!Next]_(Worktrees!vars) => StoreInv'
  BY StoreStep
<1> QED BY <1>1, <1>2, PTL DEF Worktrees!Spec

(* A working run has its whole worktree, linked to the store as it is.     *)
LEMMA StoreKeepsUsed == StoreInv => Worktrees!UsedStays
  BY DEF StoreInv, Worktrees!UsedStays, Worktrees!WorkingWorktreeStays, WholeOrNothing,
         Between, EntriesAreOfStore, Worktrees!Identified

(* Nothing in use is taken: the worktree of a working run stays linked in   *)
(* the store it was made from, with its record, and the store a direct run  *)
(* has claimed is not recreated (prune_dead_worktrees, _prepare_store_locked). *)
THEOREM WorktreeSafety == Worktrees!Spec => []Worktrees!UsedStays
  BY StoreInvariant, StoreKeepsUsed, PTL

(* What a crash or a cut clean-up leaves is found again: no path is without *)
(* an owner record, no entry of a worktree that was ready without its ready *)
(* record, and a sweep takes every whole worktree whose run was dead when   *)
(* it began (add_run_worktree, _remove_owned_locked, prune_dead_worktrees). *)
THEOREM LeftoverSafety == Worktrees!Spec => []Worktrees!LeftoversAreFound
<1>1. StoreInv => Worktrees!LeftoversAreFound
  BY DEF StoreInv
<1> QED BY <1>1, StoreInvariant, PTL

-----------------------------------------------------------------------------
(* The host's runs keep to the invariant of the store, whichever part they  *)
(* are in.                                                                 *)
LEMMA HostKeepsStore == MCSpec => []StoreInv
<1>1. MCInit => StoreInv
  BY InitStoreInv DEF MCInit
<1>2. StoreInv /\ [MCNext]_<<part, vars, turnVars, worktreeVars>> => StoreInv'
  <2> SUFFICES ASSUME StoreInv, [MCNext]_<<part, vars, turnVars, worktreeVars>>
               PROVE  StoreInv'
    OBVIOUS
  <2>1. Worktrees!Next \/ UNCHANGED worktreeVars
    BY DEF MCNext
  <2>2. [Worktrees!Next]_(Worktrees!vars)
    BY <2>1 DEF worktreeVars, Worktrees!vars
  <2> QED BY <2>2, StoreStep
<1> QED BY <1>1, <1>2, PTL DEF MCSpec

(* As WorktreeSafety, for the host as it is run: prune_dead_worktrees and   *)
(* _prepare_store_locked take nothing that is in use.                      *)
THEOREM HostUsedStays == MCSpec => []UsedStays
<1>1. StoreInv => UsedStays
  BY StoreKeepsUsed DEF UsedStays
<1> QED BY <1>1, HostKeepsStore, PTL

(* As LeftoverSafety, for the host as it is run: prune_dead_worktrees finds *)
(* what a crash or a cut clean-up leaves of a worktree.                     *)
THEOREM HostLeftoversAreFound == MCSpec => []LeftoversAreFound
<1>1. StoreInv => LeftoversAreFound
  BY DEF StoreInv, LeftoversAreFound
<1> QED BY <1>1, HostKeepsStore, PTL
=============================================================================
