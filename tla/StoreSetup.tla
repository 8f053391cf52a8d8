----------------------------- MODULE StoreSetup -----------------------------
(***************************************************************************)
(* The dependency environment of a shared store (worktree_setup.py,        *)
(* worktree_link_integrity.py).                                            *)
(*                                                                         *)
(* The operator's setup command builds a source (.venv, node_modules) in   *)
(* the shared clone, and the worktree of every run links it.  Two private  *)
(* files describe it: the setup record says which digest of the key files  *)
(* was installed by a command that exited with zero, the health record     *)
(* holds a baseline of the source's structure, or says that it is stale.   *)
(* All of it changes under the store lock, one file write at a time, and a *)
(* run can die between two of them or in the middle of the command.        *)
(***************************************************************************)
EXTENDS Naturals

CONSTANTS
  Runs,        \* runs of the host that share the store
  Commanded,   \* those started with --worktree-setup
  Digests,     \* digests of the key files at the base commits a run can pin
  NoRun,       \* nobody
  NoDigest,    \* nothing installed; the source of a manually managed store
  MaxGen,      \* how many baselines are published (bound)
  MaxDamage    \* how often a turn damages the source through its link (bound)

VARIABLES
  lock,        \* the run that holds store_lock, or NoRun
  source,      \* "none", "partial", or "whole" (a nonempty usable source)
  built,       \* the digest the source was installed for
  damaged,     \* entries of the source its last baseline saw are missing
  damages,     \* how often that happened (bounded by MaxDamage)
  record,      \* setup.json: [digest, gen], or NoDigest and 0
  health,      \* link-health.json: generation (0: no file), stale, pending, backed
  gens,        \* generations published so far
  pin,         \* the digest at the base commit each run pinned
  registered,  \* the health generation each run registered its link with
  poisoned,    \* runs whose checkout is poisoned
  pc

files == <<record, health>>
world == <<source, built, damaged, damages>>
vars == <<lock, world, files, gens, pin, registered, poisoned, pc>>

Goto(r, label) == pc' = [pc EXCEPT ![r] = label]
NoRecord == [digest |-> NoDigest, gen |-> 0]
NoHealth == [gen |-> 0, stale |-> FALSE, pending |-> FALSE, backed |-> FALSE]

Absent == health = NoHealth
Usable == source # "none"

(* The inspection: a stale or pending record, a setup-backed baseline that *)
(* no setup record confirms, or a probe that finds less than it recorded.  *)
Unconfirmed == health.backed /\ record.gen # health.gen
Refused == Absent \/ health.stale \/ health.pending \/ Unconfirmed \/ damaged \/ ~Usable

(* What ensure_health itself marks: a valid record that says so, while a   *)
(* probe that fails only refuses.                                          *)
Markable == ~Absent /\ (health.stale \/ Unconfirmed)

(* begin_recovery: a valid baseline is kept and marked stale; without one  *)
(* a pending record is written that can only refuse.                       *)
Recovery == IF Absent THEN [gen |-> 0, stale |-> TRUE, pending |-> TRUE, backed |-> TRUE]
                      ELSE [health EXCEPT !.stale = TRUE]

Init ==
  /\ lock = NoRun
  /\ source \in {"none", "whole"}
  /\ built = NoDigest /\ damaged = FALSE /\ damages = 0
  /\ record = NoRecord /\ health = NoHealth
  /\ gens = 0
  /\ pin = [r \in Runs |-> NoDigest]
  /\ registered = [r \in Runs |-> 0]
  /\ poisoned = {}
  /\ pc = [r \in Runs |-> "idle"]

-----------------------------------------------------------------------------
(* prepare_store: the base is pinned and its setup ensured in one hold.    *)
BeginPrepare(r) ==
  /\ pc[r] = "idle" /\ lock = NoRun
  /\ lock' = r
  /\ \E d \in Digests : pin' = [pin EXCEPT ![r] = d]
  /\ Goto(r, "inspecting")
  /\ UNCHANGED <<world, files, gens, registered, poisoned>>

(* invalidate_store_setup_state, then the removal of the store: one that   *)
(* still holds a source is not stale and is never recreated.               *)
ForgetSetup(r) ==
  /\ pc[r] = "inspecting" /\ ~Usable
  /\ record' = NoRecord /\ health' = NoHealth
  /\ Goto(r, "recreating")
  /\ UNCHANGED <<lock, world, gens, pin, registered, poisoned>>

RecreateStore(r) ==
  /\ pc[r] = "recreating"
  /\ Goto(r, "deciding")
  /\ UNCHANGED <<lock, world, files, gens, pin, registered, poisoned>>

(* A manually managed source: nothing on disk says that setup was ever run. *)
MayBootstrap(r) == Absent /\ r \notin Commanded /\ record = NoRecord /\ Usable

(* publish: a new baseline of what is there now, with whatever a turn of   *)
(* another run has taken from it before.                                   *)
Baseline(backed) ==
  /\ gens < MaxGen
  /\ damaged' = FALSE
  /\ gens' = gens + 1
  /\ health' = [gen |-> gens', stale |-> FALSE, pending |-> FALSE, backed |-> backed]

Bootstrap(r) ==
  /\ pc[r] = "inspecting" /\ MayBootstrap(r)
  /\ Baseline(FALSE)
  /\ Goto(r, "deciding")
  /\ UNCHANGED <<lock, source, built, damages, record, pin, registered, poisoned>>

(* mark_stale, if there is a valid baseline to mark; a probe that cannot be *)
(* read refuses without it.  The setup record goes after the mark.         *)
InspectStale(r) ==
  /\ pc[r] = "inspecting" /\ Refused /\ ~Absent /\ ~MayBootstrap(r)
  /\ health' = IF Markable THEN Recovery ELSE health
  /\ Goto(r, IF Markable THEN "staling" ELSE "deciding")
  /\ UNCHANGED <<lock, world, record, gens, pin, registered, poisoned>>

MarkStale(r) ==
  /\ pc[r] = "staling"
  /\ record' = NoRecord
  /\ Goto(r, "deciding")
  /\ UNCHANGED <<lock, world, health, gens, pin, registered, poisoned>>

InspectDone(r) ==
  /\ pc[r] = "inspecting"
  /\ ~Refused \/ (Absent /\ ~MayBootstrap(r))
  /\ Goto(r, "deciding")
  /\ UNCHANGED <<lock, world, files, gens, pin, registered, poisoned>>

(* record_matches, a usable source and a healthy baseline.                 *)
SetupMatches(r) == record.digest = pin[r] /\ ~Refused

Prepared(r) ==
  /\ pc[r] = "deciding"
  /\ IF r \in Commanded THEN SetupMatches(r) ELSE ~Refused
  /\ lock' = NoRun
  /\ Goto(r, "prepared")
  /\ UNCHANGED <<world, files, gens, pin, registered, poisoned>>

(* Without the command, or while a direct run holds the store, or because  *)
(* tracked files are modified: an error, and nothing is touched.           *)
PrepareRefused(r) ==
  /\ pc[r] = "deciding"
  /\ r \in Commanded => ~SetupMatches(r)
  /\ r \notin Commanded => Refused
  /\ lock' = NoRun
  /\ Goto(r, "failed")
  /\ UNCHANGED <<world, files, gens, pin, registered, poisoned>>

-----------------------------------------------------------------------------
(* Mutant of InvalidateRecord: the record of the last success is kept.     *)
KeepRecord(r) ==
  /\ pc[r] = "deciding" /\ r \in Commanded /\ ~SetupMatches(r)
  /\ gens < MaxGen
  /\ Goto(r, "invalidated")
  /\ UNCHANGED <<lock, world, files, gens, pin, registered, poisoned>>

InvalidateRecord(r) ==
  /\ pc[r] = "deciding" /\ r \in Commanded /\ ~SetupMatches(r)
  /\ gens < MaxGen
  /\ record' = NoRecord
  /\ Goto(r, "invalidated")
  /\ UNCHANGED <<lock, world, health, gens, pin, registered, poisoned>>

(* Mutant of BeginRecovery: nothing remembers that a setup was begun.      *)
NoRecovery(r) ==
  /\ pc[r] = "invalidated"
  /\ Goto(r, "recovering")
  /\ UNCHANGED <<lock, world, files, gens, pin, registered, poisoned>>

BeginRecovery(r) ==
  /\ pc[r] = "invalidated"
  /\ health' = Recovery
  /\ Goto(r, "recovering")
  /\ UNCHANGED <<lock, world, record, gens, pin, registered, poisoned>>

(* The tree is checked out at the pin and the command starts.              *)
StartCommand(r) ==
  /\ pc[r] = "recovering"
  /\ source' \in {source, "partial"}
  /\ built' = IF source' = "partial" THEN NoDigest ELSE built
  /\ Goto(r, "running")
  /\ UNCHANGED <<lock, damaged, damages, files, gens, pin, registered, poisoned>>

CommandSucceeds(r) ==
  /\ pc[r] = "running"
  /\ source' = "whole" /\ built' = pin[r] /\ damaged' = FALSE
  /\ Goto(r, "installed")
  /\ UNCHANGED <<lock, damages, files, gens, pin, registered, poisoned>>

(* A nonzero exit, a timeout or an unusable source: the marks stay.        *)
CommandFails(r) ==
  /\ pc[r] = "running"
  /\ lock' = NoRun
  /\ Goto(r, "failed")
  /\ UNCHANGED <<world, files, gens, pin, registered, poisoned>>

PublishHealth(r) ==
  /\ pc[r] = "installed"
  /\ Baseline(TRUE)
  /\ Goto(r, "published")
  /\ UNCHANGED <<lock, source, built, damages, record, pin, registered, poisoned>>

WriteRecord(r) ==
  /\ pc[r] = "published"
  /\ record' = [digest |-> pin[r], gen |-> health.gen]
  /\ lock' = NoRun
  /\ Goto(r, "prepared")
  /\ UNCHANGED <<world, health, gens, pin, registered, poisoned>>

(* The record cannot be written: the baseline is made stale again.         *)
RecordFails(r) ==
  /\ pc[r] = "published"
  /\ health' = Recovery
  /\ lock' = NoRun
  /\ Goto(r, "failed")
  /\ UNCHANGED <<world, record, gens, pin, registered, poisoned>>

-----------------------------------------------------------------------------
(* The second hold: health is inspected again, never bootstrapped, right   *)
(* before the worktree and its link are made.                              *)
MakeLink(r) ==
  /\ pc[r] = "prepared" /\ lock = NoRun
  /\ ~Refused
  /\ registered' = [registered EXCEPT ![r] = health.gen]
  /\ Goto(r, "working")
  /\ UNCHANGED <<lock, world, files, gens, pin, poisoned>>

LinkRefused(r) ==
  /\ pc[r] = "prepared" /\ lock = NoRun
  /\ Refused
  /\ lock' = r
  /\ health' = IF Markable THEN Recovery ELSE health
  /\ Goto(r, IF Markable THEN "refusedStale" ELSE "refusing")
  /\ UNCHANGED <<world, record, gens, pin, registered, poisoned>>

(* The exception after the inspection; mark_stale also drops the record.   *)
LinkError(r) ==
  /\ pc[r] \in {"refusing", "refusedStale"}
  /\ record' = IF pc[r] = "refusedStale" THEN NoRecord ELSE record
  /\ lock' = NoRun
  /\ Goto(r, "failed")
  /\ UNCHANGED <<world, health, gens, pin, registered, poisoned>>

(* A turn of a working run writes through its link.                        *)
DamageSource(r) ==
  /\ pc[r] = "working" /\ r \notin poisoned
  /\ source = "whole" /\ damages < MaxDamage
  /\ damaged' = TRUE
  /\ damages' = damages + 1
  /\ UNCHANGED <<lock, source, built, files, gens, pin, registered, poisoned, pc>>

(* Whatever cleans temporary directories takes the tree with the source.   *)
EmptyStore ==
  /\ lock = NoRun /\ Usable /\ damages < MaxDamage
  /\ source' = "none" /\ built' = NoDigest /\ damaged' = FALSE
  /\ damages' = damages + 1
  /\ UNCHANGED <<lock, files, gens, pin, registered, poisoned, pc>>

(* confirm_failure: twice the same structural loss against a baseline that *)
(* the setup record confirms, or a health file that disappeared although   *)
(* this run registered its generation.                                     *)
ConfirmFailure(r) ==
  \/ ~Absent /\ ~health.stale /\ ~health.pending /\ ~Unconfirmed /\ damaged
  \/ Absent /\ registered[r] # 0 /\ (record = NoRecord \/ record.gen = registered[r])

(* The check before and after every turn: the checkout is poisoned, the    *)
(* source marked stale when the loss is confirmed.                         *)
CheckSharedHealth(r) ==
  /\ pc[r] = "working" /\ r \notin poisoned /\ lock = NoRun
  /\ Refused
  /\ poisoned' = poisoned \union {r}
  /\ IF ConfirmFailure(r)
       THEN lock' = r /\ health' = Recovery /\ Goto(r, "marking")
       ELSE UNCHANGED <<lock, health, pc>>
  /\ UNCHANGED <<world, record, gens, pin, registered>>

(* mark_stale drops the setup record even if the mark cannot be written.   *)
Marked(r) ==
  /\ pc[r] = "marking"
  /\ record' = NoRecord
  /\ lock' = NoRun
  /\ Goto(r, "working")
  /\ UNCHANGED <<world, health, gens, pin, registered, poisoned>>

EndRun(r) ==
  /\ pc[r] = "working"
  /\ Goto(r, "done")
  /\ UNCHANGED <<lock, world, files, gens, pin, registered, poisoned>>

(* The process dies in any of these steps; a command that was running is   *)
(* killed wherever it was.                                                 *)
Crash(r) ==
  /\ pc[r] \notin {"idle", "done", "failed", "crashed"}
  /\ lock' = IF lock = r THEN NoRun ELSE lock
  /\ Goto(r, "crashed")
  /\ UNCHANGED <<world, files, gens, pin, registered, poisoned>>

RunStep(r) ==
  \/ BeginPrepare(r) \/ ForgetSetup(r) \/ RecreateStore(r) \/ Bootstrap(r)
  \/ InspectStale(r) \/ MarkStale(r) \/ InspectDone(r) \/ Prepared(r)
  \/ PrepareRefused(r) \/ InvalidateRecord(r) \/ BeginRecovery(r)
  \/ StartCommand(r) \/ CommandSucceeds(r) \/ CommandFails(r)
  \/ PublishHealth(r) \/ WriteRecord(r) \/ RecordFails(r)
  \/ MakeLink(r) \/ LinkRefused(r) \/ LinkError(r) \/ DamageSource(r)
  \/ CheckSharedHealth(r) \/ Marked(r) \/ EndRun(r) \/ Crash(r)

Next == EmptyStore \/ \E r \in Runs : RunStep(r)

Spec == Init /\ [][Next]_vars

-----------------------------------------------------------------------------
TypeOK ==
  /\ lock \in Runs \union {NoRun}
  /\ source \in {"none", "partial", "whole"} /\ built \in Digests \union {NoDigest}
  /\ damaged \in BOOLEAN /\ damages \in 0..MaxDamage
  /\ record \in [digest : Digests \union {NoDigest}, gen : 0..MaxGen]
  /\ health \in [gen : 0..MaxGen, stale : BOOLEAN, pending : BOOLEAN, backed : BOOLEAN]
  /\ gens \in 0..MaxGen
  /\ pin \in [Runs -> Digests \union {NoDigest}]
  /\ registered \in [Runs -> 0..MaxGen]
  /\ poisoned \in SUBSET Runs

(* The setup record never promises more than a command that exited with    *)
(* zero installed, whatever died in between (ensure_store_setup).          *)
SetupRecordIsTrue ==
  record # NoRecord /\ Usable => built = record.digest /\ source = "whole"

(* No run links a source that a setup left unfinished or that lost entries *)
(* its baseline saw: a failed first setup is never taken for a manually    *)
(* managed source (ensure_health).                                         *)
LinkedSourceIsWhole ==
  \A r \in Runs : pc[r] = "prepared" /\ pc'[r] = "working" =>
    source = "whole" /\ ~damaged

(* prepare_store hands out a pin only with the setup of that very pin.     *)
PinHasItsSetup ==
  \A r \in Commanded : pc[r] # "prepared" /\ pc'[r] = "prepared" =>
    built = pin[r] /\ source = "whole"

(* A store that was found damaged stays refused until a setup succeeds: no *)
(* reader takes a new baseline of a damaged source.                        *)
OnlySetupClearsStale ==
  health.stale /\ ~health'.stale =>
    health' = NoHealth \/ (built \in Digests /\ source = "whole")

(* What a run is given to work with is what its setup installed: at the    *)
(* pin, at the link, and in the mark that a damaged source is refused by.  *)
OnlySoundSourcesAreUsed ==
  [][LinkedSourceIsWhole /\ PinHasItsSetup /\ OnlySetupClearsStale]_vars
=============================================================================
