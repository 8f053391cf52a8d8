-------------------------- MODULE StoreSetupProofs --------------------------
(***************************************************************************)
(* Proofs about the dependency environment of a store, for any runs, pins   *)
(* and number of setups: the setup record is true, no unfinished or damaged *)
(* source is linked, and only a setup that succeeded clears a stale mark.   *)
(***************************************************************************)
EXTENDS StoreSetup, TLAPS

(* The constants as a host has them: nobody is not a run, and an installed  *)
(* digest is told from none.                                               *)
ConstantsAreSound == NoRun \notin Runs /\ NoDigest \notin Digests /\ MaxGen \in Nat

Labels == {"idle", "inspecting", "recreating", "deciding", "staling", "invalidated",
           "recovering", "running", "installed", "published", "prepared", "refusing",
           "refusedStale", "working", "marking", "done", "failed", "crashed"}
Holding == Labels \ {"idle", "prepared", "working", "done", "failed", "crashed"}

(* What the invariant needs of the types.                                  *)
SetupTypes ==
  /\ record \in [digest : Digests \union {NoDigest}, gen : Nat]
  /\ health \in [gen : Nat, stale : BOOLEAN, pending : BOOLEAN, backed : BOOLEAN]
  /\ source \in {"none", "partial", "whole"}
  /\ pin \in [Runs -> Digests \union {NoDigest}]
  /\ pc \in [Runs -> Labels]
  /\ gens \in Nat

LockIsOwned ==
  \A r \in Runs : /\ pc[r] \in Holding => lock = r
                  /\ pc[r] # "idle" => pin[r] \in Digests

(* The order of the files: the record goes before the mark, the mark comes  *)
(* before the command, and the command ends before the record is written.   *)
SetupOrder ==
  \A r \in Runs :
    /\ pc[r] \in {"invalidated", "recovering", "running", "installed", "published"} =>
         record = NoRecord
    /\ pc[r] \in {"recovering", "running", "installed"} => health.stale
    /\ pc[r] \in {"installed", "published"} => source = "whole" /\ built = pin[r]

(* A source that a setup left unfinished is marked.                        *)
PartialIsStale == source = "partial" => health.stale

(* The inductive invariant of the setup.                                   *)
SetupInv == SetupTypes /\ LockIsOwned /\ SetupOrder /\ PartialIsStale /\ SetupRecordIsTrue

-----------------------------------------------------------------------------
(* begin_recovery writes a record that refuses, whatever it found.         *)
LEMMA RecoveryMarks ==
  ASSUME SetupTypes
  PROVE  /\ Recovery \in [gen : Nat, stale : BOOLEAN, pending : BOOLEAN, backed : BOOLEAN]
         /\ Recovery.stale
<1>1. CASE Absent
  BY <1>1 DEF Recovery
<1>2. CASE ~Absent
  BY <1>2 DEF Recovery, SetupTypes
<1> QED BY <1>1, <1>2

(* The pin is fixed when a run takes the lock of the store.                 *)
LEMMA BeginPrepareKeeps ==
  ASSUME ConstantsAreSound, SetupInv, NEW r \in Runs, BeginPrepare(r)
  PROVE  SetupInv'
<1> USE DEF SetupInv, BeginPrepare, Goto, world, files
<1>1. SetupTypes'
  BY DEF SetupTypes, ConstantsAreSound, Labels, NoRecord, NoHealth
<1>2. LockIsOwned'
  BY DEF ConstantsAreSound, SetupTypes, LockIsOwned, Holding, Labels
<1>3. SetupOrder'
  BY DEF SetupTypes, SetupOrder, LockIsOwned, Holding, Labels
<1>4. PartialIsStale' /\ SetupRecordIsTrue'
  BY DEF SetupTypes, SetupOrder, PartialIsStale, SetupRecordIsTrue, Usable,
            NoRecord
<1> QED BY <1>1, <1>2, <1>3, <1>4

(* A store without its source is forgotten whole: record and mark go        *)
(* together (invalidate_store_setup_state).                                 *)
LEMMA ForgetSetupKeeps ==
  ASSUME ConstantsAreSound, SetupInv, NEW r \in Runs, ForgetSetup(r)
  PROVE  SetupInv'
<1> USE DEF SetupInv, ForgetSetup, Goto, world, Usable, NoRecord, NoHealth
<1>1. SetupTypes'
  BY DEF SetupTypes, ConstantsAreSound, Labels
<1>2. LockIsOwned'
  BY DEF SetupTypes, LockIsOwned, Holding, Labels
<1>3. SetupOrder'
  BY DEF SetupTypes, SetupOrder, LockIsOwned, Holding, Labels
<1>4. PartialIsStale' /\ SetupRecordIsTrue'
  BY DEF SetupTypes, SetupOrder, PartialIsStale, SetupRecordIsTrue
<1> QED BY <1>1, <1>2, <1>3, <1>4

(* Recreating the store happens in the same hold of the lock.               *)
LEMMA RecreateStoreKeeps ==
  ASSUME ConstantsAreSound, SetupInv, NEW r \in Runs, RecreateStore(r)
  PROVE  SetupInv'
<1> USE DEF SetupInv, RecreateStore, Goto, world, files
<1>1. SetupTypes'
  BY DEF SetupTypes, ConstantsAreSound, Labels, NoRecord, NoHealth
<1>2. LockIsOwned'
  BY DEF SetupTypes, LockIsOwned, Holding, Labels
<1>3. SetupOrder'
  BY DEF SetupTypes, SetupOrder, LockIsOwned, Holding, Labels
<1>4. PartialIsStale' /\ SetupRecordIsTrue'
  BY DEF SetupTypes, SetupOrder, PartialIsStale, SetupRecordIsTrue, Usable,
            NoRecord
<1> QED BY <1>1, <1>2, <1>3, <1>4

(* A first baseline is taken only of a source that nothing is recorded of.  *)
LEMMA BootstrapKeeps ==
  ASSUME ConstantsAreSound, SetupInv, NEW r \in Runs, Bootstrap(r)
  PROVE  SetupInv'
<1> USE DEF SetupInv, Bootstrap, Goto, MayBootstrap, Baseline, Absent, NoHealth,
            NoRecord
<1>1. SetupTypes'
  BY DEF SetupTypes, ConstantsAreSound, Labels
<1>2. LockIsOwned'
  BY DEF SetupTypes, LockIsOwned, Holding, Labels
<1>3. SetupOrder'
  BY DEF SetupTypes, SetupOrder, LockIsOwned, Holding, Labels
<1>4. PartialIsStale' /\ SetupRecordIsTrue'
  BY DEF SetupTypes, SetupOrder, PartialIsStale, SetupRecordIsTrue, Usable
<1> QED BY <1>1, <1>2, <1>3, <1>4

(* What the inspection finds bad is marked before the record goes.          *)
LEMMA InspectStaleKeeps ==
  ASSUME ConstantsAreSound, SetupInv, NEW r \in Runs, InspectStale(r)
  PROVE  SetupInv'
<1> USE DEF SetupInv, InspectStale, Goto, world, MayBootstrap, Absent, Recovery,
            Markable, NoHealth
<1>1. SetupTypes'
  BY DEF SetupTypes, ConstantsAreSound, Labels, NoRecord
<1>2. LockIsOwned'
  BY DEF SetupTypes, LockIsOwned, Holding, Labels
<1>3. SetupOrder'
  BY DEF SetupTypes, SetupOrder, LockIsOwned, Holding, Labels
<1>4. PartialIsStale' /\ SetupRecordIsTrue'
  BY DEF SetupTypes, SetupOrder, PartialIsStale, SetupRecordIsTrue, Usable,
            NoRecord
<1> QED BY <1>1, <1>2, <1>3, <1>4

(* The record goes after the mark, and a missing record is true.            *)
LEMMA MarkStaleKeeps ==
  ASSUME ConstantsAreSound, SetupInv, NEW r \in Runs, MarkStale(r)
  PROVE  SetupInv'
<1> USE DEF SetupInv, MarkStale, Goto, world, NoRecord
<1>1. SetupTypes'
  BY DEF SetupTypes, ConstantsAreSound, Labels, NoHealth
<1>2. LockIsOwned'
  BY DEF SetupTypes, LockIsOwned, Holding, Labels
<1>3. SetupOrder'
  BY DEF SetupTypes, SetupOrder, LockIsOwned, Holding, Labels
<1>4. PartialIsStale' /\ SetupRecordIsTrue'
  BY DEF SetupTypes, SetupOrder, PartialIsStale, SetupRecordIsTrue, Usable
<1> QED BY <1>1, <1>2, <1>3, <1>4

(* An inspection that finds nothing to mark writes nothing.                 *)
LEMMA InspectDoneKeeps ==
  ASSUME ConstantsAreSound, SetupInv, NEW r \in Runs, InspectDone(r)
  PROVE  SetupInv'
<1> USE DEF SetupInv, InspectDone, Goto, world, files, MayBootstrap, Absent,
            NoHealth
<1>1. SetupTypes'
  BY DEF SetupTypes, ConstantsAreSound, Labels, NoRecord
<1>2. LockIsOwned'
  BY DEF SetupTypes, LockIsOwned, Holding, Labels
<1>3. SetupOrder'
  BY DEF SetupTypes, SetupOrder, LockIsOwned, Holding, Labels
<1>4. PartialIsStale' /\ SetupRecordIsTrue'
  BY DEF SetupTypes, SetupOrder, PartialIsStale, SetupRecordIsTrue, Usable,
            NoRecord
<1> QED BY <1>1, <1>2, <1>3, <1>4

(* A run is prepared on the record, the files stay as they are.             *)
LEMMA PreparedKeeps ==
  ASSUME ConstantsAreSound, SetupInv, NEW r \in Runs, Prepared(r)
  PROVE  SetupInv'
<1> USE DEF SetupInv, Prepared, Goto, world, files
<1>1. SetupTypes'
  BY DEF SetupTypes, ConstantsAreSound, Labels, NoRecord, NoHealth
<1>2. LockIsOwned'
  BY DEF SetupTypes, LockIsOwned, Holding, Labels
<1>3. SetupOrder'
  BY DEF SetupTypes, SetupOrder, LockIsOwned, Holding, Labels
<1>4. PartialIsStale' /\ SetupRecordIsTrue'
  BY DEF SetupTypes, SetupOrder, PartialIsStale, SetupRecordIsTrue, Usable,
            NoRecord
<1> QED BY <1>1, <1>2, <1>3, <1>4

(* A refusal leaves the files as they are.                                  *)
LEMMA PrepareRefusedKeeps ==
  ASSUME ConstantsAreSound, SetupInv, NEW r \in Runs, PrepareRefused(r)
  PROVE  SetupInv'
<1> USE DEF SetupInv, PrepareRefused, Goto, world, files
<1>1. SetupTypes'
  BY DEF SetupTypes, ConstantsAreSound, Labels, NoRecord, NoHealth
<1>2. LockIsOwned'
  BY DEF SetupTypes, LockIsOwned, Holding, Labels
<1>3. SetupOrder'
  BY DEF SetupTypes, SetupOrder, LockIsOwned, Holding, Labels
<1>4. PartialIsStale' /\ SetupRecordIsTrue'
  BY DEF SetupTypes, SetupOrder, PartialIsStale, SetupRecordIsTrue, Usable,
            NoRecord
<1> QED BY <1>1, <1>2, <1>3, <1>4

(* The record goes first (ensure_store_setup).                              *)
LEMMA InvalidateRecordKeeps ==
  ASSUME ConstantsAreSound, SetupInv, NEW r \in Runs, InvalidateRecord(r)
  PROVE  SetupInv'
<1> USE DEF SetupInv, InvalidateRecord, Goto, world, NoRecord
<1>1. SetupTypes'
  BY DEF SetupTypes, ConstantsAreSound, Labels, NoHealth
<1>2. LockIsOwned'
  BY DEF SetupTypes, LockIsOwned, Holding, Labels
<1>3. SetupOrder'
  BY DEF SetupTypes, SetupOrder, LockIsOwned, Holding, Labels
<1>4. PartialIsStale' /\ SetupRecordIsTrue'
  BY DEF SetupTypes, SetupOrder, PartialIsStale, SetupRecordIsTrue, Usable
<1> QED BY <1>1, <1>2, <1>3, <1>4

(* The mark is written after the record has gone and before the command.    *)
LEMMA BeginRecoveryKeeps ==
  ASSUME ConstantsAreSound, SetupInv, NEW r \in Runs, BeginRecovery(r)
  PROVE  SetupInv'
<1> USE DEF SetupInv, BeginRecovery, Goto, world, Recovery, Absent, NoHealth
<1>1. SetupTypes'
  BY DEF SetupTypes, ConstantsAreSound, Labels, NoRecord
<1>2. LockIsOwned'
  BY DEF SetupTypes, LockIsOwned, Holding, Labels
<1>3. SetupOrder'
  BY DEF SetupTypes, SetupOrder, LockIsOwned, Holding, Labels
<1>4. PartialIsStale' /\ SetupRecordIsTrue'
  BY DEF SetupTypes, SetupOrder, PartialIsStale, SetupRecordIsTrue, Usable,
            NoRecord
<1> QED BY <1>1, <1>2, <1>3, <1>4

(* From here the source may be unfinished, and it is marked.                *)
LEMMA StartCommandKeeps ==
  ASSUME ConstantsAreSound, SetupInv, NEW r \in Runs, StartCommand(r)
  PROVE  SetupInv'
<1> USE DEF SetupInv, StartCommand, Goto, files
<1>1. SetupTypes'
  BY DEF SetupTypes, ConstantsAreSound, Labels, NoRecord, NoHealth
<1>2. LockIsOwned'
  BY DEF SetupTypes, LockIsOwned, Holding, Labels
<1>3. SetupOrder'
  BY DEF SetupTypes, SetupOrder, LockIsOwned, Holding, Labels
<1>4. PartialIsStale' /\ SetupRecordIsTrue'
  BY DEF SetupTypes, SetupOrder, PartialIsStale, SetupRecordIsTrue, Usable,
            NoRecord
<1> QED BY <1>1, <1>2, <1>3, <1>4

(* The source is whole for the pin of the run; the mark is still there.     *)
LEMMA CommandSucceedsKeeps ==
  ASSUME ConstantsAreSound, SetupInv, NEW r \in Runs, CommandSucceeds(r)
  PROVE  SetupInv'
<1> USE DEF SetupInv, CommandSucceeds, Goto, files
<1>1. SetupTypes'
  BY DEF SetupTypes, ConstantsAreSound, Labels, NoRecord, NoHealth
<1>2. LockIsOwned'
  BY DEF SetupTypes, LockIsOwned, Holding, Labels
<1>3. SetupOrder'
  BY DEF SetupTypes, SetupOrder, LockIsOwned, Holding, Labels
<1>4. PartialIsStale' /\ SetupRecordIsTrue'
  BY DEF SetupTypes, SetupOrder, PartialIsStale, SetupRecordIsTrue, Usable,
            NoRecord
<1> QED BY <1>1, <1>2, <1>3, <1>4

(* The source stays unfinished under its mark.                              *)
LEMMA CommandFailsKeeps ==
  ASSUME ConstantsAreSound, SetupInv, NEW r \in Runs, CommandFails(r)
  PROVE  SetupInv'
<1> USE DEF SetupInv, CommandFails, Goto, world, files
<1>1. SetupTypes'
  BY DEF SetupTypes, ConstantsAreSound, Labels, NoRecord, NoHealth
<1>2. LockIsOwned'
  BY DEF SetupTypes, LockIsOwned, Holding, Labels
<1>3. SetupOrder'
  BY DEF SetupTypes, SetupOrder, LockIsOwned, Holding, Labels
<1>4. PartialIsStale' /\ SetupRecordIsTrue'
  BY DEF SetupTypes, SetupOrder, PartialIsStale, SetupRecordIsTrue, Usable,
            NoRecord
<1> QED BY <1>1, <1>2, <1>3, <1>4

(* The mark is cleared for a source that is whole.                          *)
LEMMA PublishHealthKeeps ==
  ASSUME ConstantsAreSound, SetupInv, NEW r \in Runs, PublishHealth(r)
  PROVE  SetupInv'
<1> USE DEF SetupInv, PublishHealth, Goto, Baseline
<1>1. SetupTypes'
  BY DEF SetupTypes, ConstantsAreSound, Labels, NoRecord, NoHealth
<1>2. LockIsOwned'
  BY DEF SetupTypes, LockIsOwned, Holding, Labels
<1>3. SetupOrder'
  BY DEF SetupTypes, SetupOrder, LockIsOwned, Holding, Labels
<1>4. PartialIsStale' /\ SetupRecordIsTrue'
  BY DEF SetupTypes, SetupOrder, PartialIsStale, SetupRecordIsTrue, Usable,
            NoRecord
<1> QED BY <1>1, <1>2, <1>3, <1>4

(* The record comes last and names the pin the source was built for.        *)
LEMMA WriteRecordKeeps ==
  ASSUME ConstantsAreSound, SetupInv, NEW r \in Runs, WriteRecord(r)
  PROVE  SetupInv'
<1> USE DEF SetupInv, WriteRecord, Goto, world
<1>1. SetupTypes'
  BY DEF SetupTypes, ConstantsAreSound, Labels, NoRecord, NoHealth
<1>2. LockIsOwned'
  BY DEF SetupTypes, LockIsOwned, Holding, Labels
<1>3. SetupOrder'
  BY DEF SetupTypes, SetupOrder, LockIsOwned, Holding, Labels
<1>4. PartialIsStale' /\ SetupRecordIsTrue'
  BY DEF SetupTypes, SetupOrder, PartialIsStale, SetupRecordIsTrue, Usable,
            NoRecord
<1> QED BY <1>1, <1>2, <1>3, <1>4

(* Without its record the source is marked again.                           *)
LEMMA RecordFailsKeeps ==
  ASSUME ConstantsAreSound, SetupInv, NEW r \in Runs, RecordFails(r)
  PROVE  SetupInv'
<1> USE DEF SetupInv, RecordFails, Goto, world, Recovery, Absent, NoHealth
<1>1. SetupTypes'
  BY DEF SetupTypes, ConstantsAreSound, Labels, NoRecord
<1>2. LockIsOwned'
  BY DEF SetupTypes, LockIsOwned, Holding, Labels
<1>3. SetupOrder'
  BY DEF SetupTypes, SetupOrder, LockIsOwned, Holding, Labels
<1>4. PartialIsStale' /\ SetupRecordIsTrue'
  BY DEF SetupTypes, SetupOrder, PartialIsStale, SetupRecordIsTrue, Usable,
            NoRecord
<1> QED BY <1>1, <1>2, <1>3, <1>4

(* A link changes no file of the setup.                                     *)
LEMMA MakeLinkKeeps ==
  ASSUME ConstantsAreSound, SetupInv, NEW r \in Runs, MakeLink(r)
  PROVE  SetupInv'
<1> USE DEF SetupInv, MakeLink, Goto, world, files
<1>1. SetupTypes'
  BY DEF SetupTypes, ConstantsAreSound, Labels, NoRecord, NoHealth
<1>2. LockIsOwned'
  BY DEF SetupTypes, LockIsOwned, Holding, Labels
<1>3. SetupOrder'
  BY DEF SetupTypes, SetupOrder, LockIsOwned, Holding, Labels
<1>4. PartialIsStale' /\ SetupRecordIsTrue'
  BY DEF SetupTypes, SetupOrder, PartialIsStale, SetupRecordIsTrue, Usable,
            NoRecord
<1> QED BY <1>1, <1>2, <1>3, <1>4

(* A refused link takes the lock and may add a mark.                        *)
LEMMA LinkRefusedKeeps ==
  ASSUME ConstantsAreSound, SetupInv, NEW r \in Runs, LinkRefused(r)
  PROVE  SetupInv'
<1> USE DEF SetupInv, LinkRefused, Goto, world, Recovery, Markable, Absent,
            NoHealth
<1>1. SetupTypes'
  BY DEF SetupTypes, ConstantsAreSound, Labels, NoRecord
<1>2. LockIsOwned'
  BY DEF ConstantsAreSound, SetupTypes, LockIsOwned, Holding, Labels
<1>3. SetupOrder'
  BY DEF SetupTypes, SetupOrder, LockIsOwned, Holding, Labels
<1>4. PartialIsStale' /\ SetupRecordIsTrue'
  BY DEF SetupTypes, SetupOrder, PartialIsStale, SetupRecordIsTrue, Usable,
            NoRecord
<1> QED BY <1>1, <1>2, <1>3, <1>4

(* The record goes when the refusal has marked the source.                  *)
LEMMA LinkErrorKeeps ==
  ASSUME ConstantsAreSound, SetupInv, NEW r \in Runs, LinkError(r)
  PROVE  SetupInv'
<1> USE DEF SetupInv, LinkError, Goto, world, NoRecord
<1>1. SetupTypes'
  BY DEF SetupTypes, ConstantsAreSound, Labels, NoHealth
<1>2. LockIsOwned'
  BY DEF SetupTypes, LockIsOwned, Holding, Labels
<1>3. SetupOrder'
  BY DEF SetupTypes, SetupOrder, LockIsOwned, Holding, Labels
<1>4. PartialIsStale' /\ SetupRecordIsTrue'
  BY DEF SetupTypes, SetupOrder, PartialIsStale, SetupRecordIsTrue, Usable
<1> QED BY <1>1, <1>2, <1>3, <1>4

(* Damage changes neither the record nor the mark: the setup did run.       *)
LEMMA DamageSourceKeeps ==
  ASSUME ConstantsAreSound, SetupInv, NEW r \in Runs, DamageSource(r)
  PROVE  SetupInv'
<1> USE DEF SetupInv, DamageSource, files
<1>1. SetupTypes'
  BY DEF SetupTypes, ConstantsAreSound, Labels, NoRecord, NoHealth
<1>2. LockIsOwned'
  BY DEF SetupTypes, LockIsOwned, Holding, Labels
<1>3. SetupOrder'
  BY DEF SetupTypes, SetupOrder, LockIsOwned, Holding, Labels
<1>4. PartialIsStale' /\ SetupRecordIsTrue'
  BY DEF SetupTypes, SetupOrder, PartialIsStale, SetupRecordIsTrue, Usable,
            NoRecord
<1> QED BY <1>1, <1>2, <1>3, <1>4

(* The check of a working run may only add a mark.                          *)
LEMMA CheckSharedHealthKeeps ==
  ASSUME ConstantsAreSound, SetupInv, NEW r \in Runs, CheckSharedHealth(r)
  PROVE  SetupInv'
<1> USE DEF SetupInv, CheckSharedHealth, Goto, world, Recovery, Absent, NoHealth
<1>1. SetupTypes'
  <2>1. CASE ConfirmFailure(r)
    <3>1. health' \in [gen : Nat, stale : BOOLEAN, pending : BOOLEAN, backed : BOOLEAN]
      BY <2>1, RecoveryMarks
    <3>2. pc' \in [Runs -> Labels]
      BY <2>1 DEF SetupTypes, Labels
    <3> QED BY <3>1, <3>2 DEF SetupTypes
  <2>2. CASE ~ConfirmFailure(r)
    BY <2>2 DEF SetupTypes
  <2> QED BY <2>1, <2>2
<1>2. LockIsOwned'
  <2>1. CASE ConfirmFailure(r)
    BY <2>1 DEF SetupTypes, LockIsOwned, Holding, Labels, ConstantsAreSound
  <2>2. CASE ~ConfirmFailure(r)
    BY <2>2 DEF LockIsOwned
  <2> QED BY <2>1, <2>2
<1>3. SetupOrder'
  BY DEF SetupTypes, SetupOrder, LockIsOwned, Holding, Labels
<1>4. PartialIsStale' /\ SetupRecordIsTrue'
  BY DEF SetupTypes, SetupOrder, PartialIsStale, SetupRecordIsTrue, Usable,
            NoRecord
<1> QED BY <1>1, <1>2, <1>3, <1>4

(* The record goes after the mark.                                          *)
LEMMA MarkedKeeps ==
  ASSUME ConstantsAreSound, SetupInv, NEW r \in Runs, Marked(r)
  PROVE  SetupInv'
<1> USE DEF SetupInv, Marked, Goto, world, NoRecord
<1>1. SetupTypes'
  BY DEF SetupTypes, ConstantsAreSound, Labels, NoHealth
<1>2. LockIsOwned'
  BY DEF SetupTypes, LockIsOwned, Holding, Labels
<1>3. SetupOrder'
  BY DEF SetupTypes, SetupOrder, LockIsOwned, Holding, Labels
<1>4. PartialIsStale' /\ SetupRecordIsTrue'
  BY DEF SetupTypes, SetupOrder, PartialIsStale, SetupRecordIsTrue, Usable
<1> QED BY <1>1, <1>2, <1>3, <1>4

(* A run that ends changes no file.                                         *)
LEMMA EndRunKeeps ==
  ASSUME ConstantsAreSound, SetupInv, NEW r \in Runs, EndRun(r)
  PROVE  SetupInv'
<1> USE DEF SetupInv, EndRun, Goto, world, files
<1>1. SetupTypes'
  BY DEF SetupTypes, ConstantsAreSound, Labels, NoRecord, NoHealth
<1>2. LockIsOwned'
  BY DEF SetupTypes, LockIsOwned, Holding, Labels
<1>3. SetupOrder'
  BY DEF SetupTypes, SetupOrder, LockIsOwned, Holding, Labels
<1>4. PartialIsStale' /\ SetupRecordIsTrue'
  BY DEF SetupTypes, SetupOrder, PartialIsStale, SetupRecordIsTrue, Usable,
            NoRecord
<1> QED BY <1>1, <1>2, <1>3, <1>4

(* A crash leaves the files as they were written, in their order.           *)
LEMMA CrashKeeps ==
  ASSUME ConstantsAreSound, SetupInv, NEW r \in Runs, Crash(r)
  PROVE  SetupInv'
<1> USE DEF SetupInv, Crash, Goto, world, files
<1>1. SetupTypes'
  BY DEF SetupTypes, ConstantsAreSound, Labels, NoRecord, NoHealth
<1>2. LockIsOwned'
  BY DEF SetupTypes, LockIsOwned, Holding, Labels
<1>3. SetupOrder'
  BY DEF SetupTypes, SetupOrder, LockIsOwned, Holding, Labels
<1>4. PartialIsStale' /\ SetupRecordIsTrue'
  BY DEF SetupTypes, SetupOrder, PartialIsStale, SetupRecordIsTrue, Usable,
            NoRecord
<1> QED BY <1>1, <1>2, <1>3, <1>4

(* A store that is emptied has no source that could be unfinished.          *)
LEMMA EmptyStoreKeeps ==
  ASSUME ConstantsAreSound, SetupInv, EmptyStore
  PROVE  SetupInv'
<1> USE DEF SetupInv, EmptyStore, files, Usable
<1>1. SetupTypes'
  BY DEF SetupTypes, ConstantsAreSound, Labels, NoRecord, NoHealth
<1>2. LockIsOwned'
  BY DEF SetupTypes, LockIsOwned, Holding, Labels
<1>3. SetupOrder'
  BY DEF ConstantsAreSound, SetupTypes, SetupOrder, LockIsOwned, Holding, Labels
<1>4. PartialIsStale' /\ SetupRecordIsTrue'
  BY DEF SetupTypes, SetupOrder, PartialIsStale, SetupRecordIsTrue, NoRecord
<1> QED BY <1>1, <1>2, <1>3, <1>4

(* Whatever dies between two of its files, the setup keeps the invariant.   *)
LEMMA SetupStep ==
  ASSUME ConstantsAreSound, SetupInv, [Next]_vars
  PROVE  SetupInv'
<1>1. ASSUME NEW r \in Runs, RunStep(r) PROVE SetupInv'
  BY <1>1, BeginPrepareKeeps, ForgetSetupKeeps, RecreateStoreKeeps,
     BootstrapKeeps, InspectStaleKeeps, MarkStaleKeeps, InspectDoneKeeps,
     PreparedKeeps, PrepareRefusedKeeps, InvalidateRecordKeeps,
     BeginRecoveryKeeps, StartCommandKeeps, CommandSucceedsKeeps,
     CommandFailsKeeps, PublishHealthKeeps, WriteRecordKeeps, RecordFailsKeeps,
     MakeLinkKeeps, LinkRefusedKeeps, LinkErrorKeeps, DamageSourceKeeps,
     CheckSharedHealthKeeps, MarkedKeeps, EndRunKeeps, CrashKeeps DEF RunStep
<1>2. CASE UNCHANGED vars
  BY <1>2 DEF vars, world, files, SetupInv, SetupTypes, LockIsOwned, SetupOrder,
     PartialIsStale, SetupRecordIsTrue, Usable
<1> QED BY <1>1, <1>2, EmptyStoreKeeps DEF Next

(* The inductive invariant of the setup: the files are written in an order  *)
(* in which each of them tells the truth at every moment.                  *)
THEOREM SetupInvariant == ASSUME ConstantsAreSound PROVE Spec => []SetupInv
<1>1. Init => SetupInv
  BY DEF Init, ConstantsAreSound, SetupInv, SetupTypes, LockIsOwned, SetupOrder,
     PartialIsStale, SetupRecordIsTrue, NoRecord, NoHealth, Labels, Holding,
     Usable
<1>2. SetupInv /\ [Next]_vars => SetupInv'
  BY SetupStep
<1> QED BY <1>1, <1>2, PTL DEF Spec

(* The setup record promises no more than a finished command installed      *)
(* (ensure_store_setup).                                                   *)
THEOREM SetupTruth == ASSUME ConstantsAreSound PROVE Spec => []SetupRecordIsTrue
<1>1. SetupInv => SetupRecordIsTrue
  BY DEF SetupInv
<1> QED BY <1>1, SetupInvariant, PTL

(* Only MakeLink lets a run work after its preparation.                    *)
LEMMA LinksAreWhole ==
  ASSUME SetupInv, [Next]_vars
  PROVE  LinkedSourceIsWhole
<1> SUFFICES ASSUME NEW s \in Runs, pc[s] = "prepared", pc'[s] = "working"
             PROVE  source = "whole" /\ ~damaged
  BY DEF LinkedSourceIsWhole
<1>1. PICK r \in Runs : RunStep(r)
  BY DEF Next, EmptyStore, vars
<1>2. MakeLink(r)
  BY <1>1 DEF RunStep, Goto, SetupInv, SetupTypes, BeginPrepare, ForgetSetup,
     RecreateStore, Bootstrap, InspectStale, MarkStale, InspectDone, Prepared,
     PrepareRefused, InvalidateRecord, BeginRecovery, StartCommand,
     CommandSucceeds, CommandFails, PublishHealth, WriteRecord, RecordFails,
     LinkRefused, LinkError, DamageSource, CheckSharedHealth, Marked, EndRun,
     Crash
<1> QED BY <1>2 DEF MakeLink, Refused, Usable, SetupInv, SetupTypes, PartialIsStale

(* Only Prepared and WriteRecord end a preparation.                        *)
LEMMA PinsAreInstalled ==
  ASSUME ConstantsAreSound, Commanded \subseteq Runs, SetupInv, [Next]_vars
  PROVE  PinHasItsSetup
<1> SUFFICES ASSUME NEW s \in Commanded, pc[s] # "prepared", pc'[s] = "prepared"
             PROVE  built = pin[s] /\ source = "whole"
  BY DEF PinHasItsSetup
<1>1. PICK r \in Runs : RunStep(r)
  BY DEF Next, EmptyStore, vars
<1>2. Prepared(r) \/ WriteRecord(r)
  BY <1>1 DEF RunStep, Goto, SetupInv, SetupTypes, BeginPrepare, ForgetSetup,
     RecreateStore, Bootstrap, InspectStale, MarkStale, InspectDone,
     PrepareRefused, InvalidateRecord, BeginRecovery, StartCommand,
     CommandSucceeds, CommandFails, PublishHealth, MakeLink, RecordFails,
     LinkRefused, LinkError, DamageSource, CheckSharedHealth, Marked, EndRun,
     Crash
<1>3. r = s
  BY <1>2 DEF Prepared, WriteRecord, Goto, SetupInv, SetupTypes
<1>4. CASE Prepared(r)
  <2>1. record.digest = pin[s] /\ Usable
    BY <1>3, <1>4 DEF Prepared, SetupMatches, Refused
  <2>2. pin[s] \in Digests
    BY <1>3, <1>4 DEF Prepared, SetupInv, LockIsOwned
  <2>3. record # NoRecord
    BY <2>1, <2>2 DEF NoRecord, ConstantsAreSound
  <2> QED BY <2>1, <2>3 DEF SetupInv, SetupRecordIsTrue
<1>5. CASE WriteRecord(r)
  BY <1>3, <1>5 DEF WriteRecord, SetupInv, SetupOrder
<1> QED BY <1>2, <1>4, <1>5

(* Only ForgetSetup and PublishHealth clear a stale mark.                  *)
LEMMA MarksStay ==
  ASSUME SetupInv, [Next]_vars
  PROVE  OnlySetupClearsStale
<1> SUFFICES ASSUME health.stale, ~health'.stale
             PROVE  health' = NoHealth \/ (built \in Digests /\ source = "whole")
  BY DEF OnlySetupClearsStale
<1>1. PICK r \in Runs : RunStep(r)
  BY DEF Next, EmptyStore, vars, files
<1>2. ~Absent
  BY DEF Absent, NoHealth
<1>3. Recovery.stale
  BY <1>2 DEF Recovery, SetupInv, SetupTypes
<1>4. ForgetSetup(r) \/ PublishHealth(r)
  BY <1>1, <1>2, <1>3 DEF RunStep, files, BeginPrepare, RecreateStore,
     Bootstrap, MayBootstrap, InspectStale, MarkStale, InspectDone, Prepared,
     PrepareRefused, InvalidateRecord, BeginRecovery, StartCommand,
     CommandSucceeds, CommandFails, WriteRecord, MakeLink, RecordFails,
     LinkRefused, LinkError, DamageSource, CheckSharedHealth, Marked, EndRun,
     Crash
<1> QED BY <1>4 DEF ForgetSetup, PublishHealth, SetupInv, SetupOrder, LockIsOwned

(* No unfinished or damaged source is linked, a pin is handed out with its  *)
(* own setup, and a mark is cleared only by a setup that succeeded or with  *)
(* the store (ensure_health, prepare_store).                               *)
THEOREM SourcesAreSound ==
  ASSUME ConstantsAreSound, Commanded \subseteq Runs PROVE Spec => OnlySoundSourcesAreUsed
<1>1. SetupInv /\ [Next]_vars => LinkedSourceIsWhole /\ PinHasItsSetup /\ OnlySetupClearsStale
  BY LinksAreWhole, PinsAreInstalled, MarksStay
<1> QED BY <1>1, SetupInvariant, PTL DEF Spec, OnlySoundSourcesAreUsed

-----------------------------------------------------------------------------
(* An absent file has a type too.                                          *)
LEMMA NothingTyped ==
  ASSUME ConstantsAreSound
  PROVE  /\ NoRecord \in [digest : Digests \union {NoDigest}, gen : 0..MaxGen]
         /\ NoHealth \in [gen : 0..MaxGen, stale : BOOLEAN, pending : BOOLEAN,
                         backed : BOOLEAN]
<1>1. 0 \in 0..MaxGen
  BY DEF ConstantsAreSound
<1> QED BY <1>1 DEF NoRecord, NoHealth

(* What an inspection may write over the health record has its type.        *)
LEMMA RecoveryTyped ==
  ASSUME TypeOK, ConstantsAreSound
  PROVE  Recovery \in [gen : 0..MaxGen, stale : BOOLEAN, pending : BOOLEAN, backed : BOOLEAN]
<1>1. CASE Absent
  BY <1>1 DEF Recovery, ConstantsAreSound
<1>2. CASE ~Absent
  BY <1>2 DEF Recovery, TypeOK
<1> QED BY <1>1, <1>2

(* A published baseline keeps within the bound on baselines.               *)
LEMMA BaselineTyped ==
  ASSUME TypeOK, ConstantsAreSound, NEW backed \in BOOLEAN, Baseline(backed)
  PROVE  /\ gens' \in 0..MaxGen /\ damaged' \in BOOLEAN
         /\ health' \in [gen : 0..MaxGen, stale : BOOLEAN, pending : BOOLEAN,
                        backed : BOOLEAN]
<1>1. gens' \in 0..MaxGen /\ damaged' = FALSE
  BY DEF Baseline, TypeOK, ConstantsAreSound
<1> QED BY <1>1 DEF Baseline

(* Every step of a run keeps the types.                                    *)
LEMMA RunStepTyped ==
  ASSUME ConstantsAreSound, MaxDamage \in Nat, SetupInv, TypeOK, NEW r \in Runs, RunStep(r)
  PROVE  TypeOK'
<1> USE DEF Goto, world, files
<1>1. CASE BeginPrepare(r)
  BY <1>1 DEF BeginPrepare, TypeOK
<1>2. CASE ForgetSetup(r) \/ MarkStale(r) \/ InvalidateRecord(r) \/ Marked(r)
  <2>1. record' = NoRecord /\ (health' = health \/ health' = NoHealth)
    BY <1>2 DEF ForgetSetup, MarkStale, InvalidateRecord, Marked
  <2>2. /\ lock' \in {lock, NoRun}
        /\ UNCHANGED <<source, built, damaged, damages, gens, pin, registered, poisoned>>
    BY <1>2 DEF ForgetSetup, MarkStale, InvalidateRecord, Marked
  <2> QED BY <2>1, <2>2, NothingTyped DEF TypeOK
<1>3. CASE \/ RecreateStore(r) \/ InspectDone(r) \/ Prepared(r) \/ PrepareRefused(r)
           \/ CommandFails(r) \/ EndRun(r) \/ Crash(r)
  <2>1. /\ lock' \in {lock, NoRun}
        /\ UNCHANGED <<source, built, damaged, damages, record, health, gens, pin,
                      registered, poisoned>>
    BY <1>3 DEF RecreateStore, InspectDone, Prepared, PrepareRefused, CommandFails,
                EndRun, Crash
  <2> QED BY <2>1 DEF TypeOK
<1>4. CASE Bootstrap(r) \/ PublishHealth(r)
  <2>1. PICK backed \in BOOLEAN : Baseline(backed)
    BY <1>4 DEF Bootstrap, PublishHealth
  <2>2. UNCHANGED <<lock, source, built, damages, record, pin, registered, poisoned>>
    BY <1>4 DEF Bootstrap, PublishHealth
  <2> QED BY <2>1, <2>2, BaselineTyped DEF TypeOK
<1>5. CASE InspectStale(r) \/ BeginRecovery(r) \/ RecordFails(r) \/ LinkRefused(r)
  <2>1. /\ health' \in {health, Recovery} /\ lock' \in {lock, NoRun, r}
        /\ UNCHANGED <<source, built, damaged, damages, record, gens, pin, registered,
                      poisoned>>
    BY <1>5 DEF InspectStale, BeginRecovery, RecordFails, LinkRefused
  <2> QED BY <2>1, RecoveryTyped DEF TypeOK
<1>6. CASE StartCommand(r) \/ CommandSucceeds(r)
  <2>1. pin[r] \in Digests \union {NoDigest}
    BY DEF TypeOK
  <2>2. /\ source' \in {source, "partial", "whole"}
        /\ built' \in {built, NoDigest, pin[r]}
        /\ damaged' \in {damaged, FALSE}
        /\ UNCHANGED <<lock, damages, record, health, gens, pin, registered, poisoned>>
    BY <1>6 DEF StartCommand, CommandSucceeds
  <2> QED BY <2>1, <2>2 DEF TypeOK
<1>7. CASE WriteRecord(r)
  <2>1. record' \in [digest : Digests \union {NoDigest}, gen : 0..MaxGen]
    BY <1>7 DEF WriteRecord, TypeOK
  <2>2. /\ lock' = NoRun
        /\ UNCHANGED <<source, built, damaged, damages, health, gens, pin, registered,
                      poisoned>>
    BY <1>7 DEF WriteRecord
  <2> QED BY <2>1, <2>2 DEF TypeOK
<1>8. CASE MakeLink(r)
  <2>1. registered' \in [Runs -> 0..MaxGen]
    BY <1>8 DEF MakeLink, TypeOK
  <2> QED BY <1>8, <2>1 DEF MakeLink, TypeOK
<1>9. CASE LinkError(r)
  <2>1. record' \in [digest : Digests \union {NoDigest}, gen : 0..MaxGen]
    BY <1>9, NothingTyped DEF LinkError, TypeOK
  <2> QED BY <1>9, <2>1 DEF LinkError, TypeOK
<1>10. CASE DamageSource(r)
  <2>1. damages' \in 0..MaxDamage /\ damaged' = TRUE
    BY <1>10 DEF DamageSource, TypeOK
  <2> QED BY <1>10, <2>1 DEF DamageSource, TypeOK
<1>11. CASE CheckSharedHealth(r)
  <2>1. /\ health' \in {health, Recovery} /\ lock' \in {lock, r}
        /\ poisoned' = poisoned \union {r}
        /\ UNCHANGED <<source, built, damaged, damages, record, gens, pin, registered>>
    BY <1>11 DEF CheckSharedHealth
  <2> QED BY <2>1, RecoveryTyped DEF TypeOK
<1> QED BY <1>1, <1>2, <1>3, <1>4, <1>5, <1>6, <1>7, <1>8, <1>9, <1>10, <1>11 DEF RunStep

(* The files and the source have their types, and no generation exceeds the *)
(* number of published baselines (worktree_link_integrity.py).              *)
THEOREM SetupTyping ==
  ASSUME ConstantsAreSound, MaxDamage \in Nat PROVE Spec => []TypeOK
<1>1. Init => TypeOK
  <2>1. 0 \in 0..MaxGen /\ 0 \in 0..MaxDamage
    BY DEF ConstantsAreSound
  <2> QED BY <2>1, NothingTyped DEF Init, TypeOK
<1>2. SetupInv /\ TypeOK /\ [Next]_vars => TypeOK'
  <2> SUFFICES ASSUME SetupInv, TypeOK, [Next]_vars PROVE TypeOK'
    OBVIOUS
  <2>1. CASE EmptyStore
    <3>1. damages' \in 0..MaxDamage
      BY <2>1 DEF EmptyStore, TypeOK
    <3> QED BY <2>1, <3>1 DEF EmptyStore, TypeOK, files
  <2>2. CASE UNCHANGED vars
    BY <2>2 DEF vars, world, files, TypeOK
  <2> QED BY <2>1, <2>2, RunStepTyped DEF Next
<1> QED BY <1>1, <1>2, SetupInvariant, PTL DEF Spec
=============================================================================
