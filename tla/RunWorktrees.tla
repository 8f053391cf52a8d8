---------------------------- MODULE RunWorktrees ----------------------------
(***************************************************************************)
(* Per-run worktrees of one shared store (run_worktrees.py).               *)
(*                                                                         *)
(* Every run checks out a detached worktree of its own, linked to a clone  *)
(* that all runs of the host share.  A blocking host flock per store       *)
(* serialises preparation, pruning, creation and removal; a crash frees    *)
(* it, and frees the run's claims, in the middle of any of them.  What is  *)
(* on disk then is what the next run finds: a path, an administrative      *)
(* entry in the store's .git, and an owner record next to the lock.        *)
(*                                                                         *)
(* A direct run works in the store itself: it was given the store as an    *)
(* explicit checkout and claims it, but takes no part in the worktrees.    *)
(***************************************************************************)
EXTENDS FiniteSets, Naturals

CONSTANTS
  Runs,      \* runs with a worktree; the token of a run, hence its path, never recurs
  NoRun,     \* nobody
  MaxStale   \* how often the store loses its working tree (bound)

VARIABLES
  lock,      \* the run that holds store_lock, or NoRun
  store,     \* the shared clone: "absent", "stale" (no tracked file left), "good"
  gen,       \* history: which incarnation of the store this is
  stales,    \* how often it went stale (bounded by MaxStale)
  direct,    \* the incarnation a direct run has claimed, 0 when none has
  probed,    \* probe_free_claim(store) holds the claim lock of the store
  path,      \* the worktree of each run: "none", "bare" (no .git file yet), "linked"
  admin,     \* the runs with an entry in .git/worktrees
  record,    \* the owner record of each run: "none", "pending", "ready"
  claim,     \* the runs that hold the claim on their own path
  pc,        \* where each run is
  victim,    \* the worktree a run removes: another run's, its own, or NoRun
  made,      \* history: the incarnation in which each worktree became ready, 0 when never
  doomed     \* history: dead worktrees that were whole when a run began to prune

disk == <<store, gen, stales, path, admin, record, made>>
vars == <<lock, store, gen, stales, direct, probed, path, admin, record, claim,
          pc, victim, made, doomed>>

Goto(r, label) == pc' = [pc EXCEPT ![r] = label]
Lock(r) == lock = NoRun /\ lock' = r
Unlock == lock' = NoRun

Dead == {r \in Runs : pc[r] \in {"crashed", "failed", "done"}}

(* identify_owned_worktree: path and entry point to each other, and a ready *)
(* record names both.                                                      *)
Identified(r) == path[r] = "linked" /\ r \in admin /\ record[r] = "ready"

(* git worktree prune forgets an entry whose path has no .git file; a       *)
(* failure is ignored (check=False).                                       *)
Pruned(kept) == kept \in {admin, {r \in admin : path[r] = "linked"}}

Init ==
  /\ lock = NoRun /\ gen = 1 /\ stales = 0 /\ direct = 0 /\ probed = FALSE
  /\ store \in {"absent", "stale", "good"}
  /\ path = [r \in Runs |-> "none"]
  /\ admin = {}
  /\ record = [r \in Runs |-> "none"]
  /\ claim = {}
  /\ pc = [r \in Runs |-> "idle"]
  /\ victim = [r \in Runs |-> NoRun]
  /\ made = [r \in Runs |-> 0]
  /\ doomed = [r \in Runs |-> {}]

(* The run claims its checkouts before it prepares any of them.            *)
ClaimPath(r) ==
  /\ pc[r] = "idle"
  /\ claim' = claim \union {r}
  /\ Goto(r, "claimed")
  /\ UNCHANGED <<lock, disk, direct, probed, victim, doomed>>

-----------------------------------------------------------------------------
(* prepare_store, in one hold of the lock and of the probe of the store.   *)
BeginPrepare(r) ==
  /\ pc[r] = "claimed" /\ Lock(r)
  /\ probed' = (direct = 0)
  /\ Pruned(admin')
  /\ Goto(r, "preparing")
  /\ UNCHANGED <<store, gen, stales, path, record, made, direct, claim, victim, doomed>>

MayRecreate == store = "stale" /\ admin = {} /\ probed

(* The setup state goes, then the tree, and with it every entry.           *)
RemoveStore(r) ==
  /\ pc[r] = "preparing" /\ MayRecreate
  /\ store' = "absent"
  /\ admin' = {}
  /\ UNCHANGED <<lock, gen, stales, path, record, made, direct, probed, claim,
                 pc, victim, doomed>>

(* An empty directory is made before git initialises it: stale until then. *)
InitStore(r) ==
  /\ pc[r] = "preparing" /\ probed
  /\ store = "absent"
  /\ store' \in {"stale", "good"}
  /\ gen' = gen + 1
  /\ IF store' = "good" THEN UNCHANGED pc ELSE Goto(r, "failing")
  /\ UNCHANGED <<lock, stales, path, admin, record, made, direct, probed, claim,
                 victim, doomed>>

(* Missing, or stale without linked worktrees, while a direct run holds it, *)
(* or a step of git fails: the run ends with an error.                     *)
PrepareRefused(r) ==
  /\ pc[r] = "preparing"
  /\ Goto(r, "failing")
  /\ UNCHANGED <<lock, disk, direct, probed, claim, victim, doomed>>

(* A stale store stays under its worktrees, and when setup could restore it. *)
EndPrepare(r) ==
  /\ pc[r] = "preparing" /\ store # "absent"
  /\ Unlock
  /\ probed' = FALSE
  /\ Goto(r, "prepared")
  /\ UNCHANGED <<disk, direct, claim, victim, doomed>>

-----------------------------------------------------------------------------
(* prune_dead_worktrees, in a hold of its own.                             *)
BeginPrune(r) ==
  /\ pc[r] = "prepared" /\ Lock(r)
  /\ Pruned(admin')
  /\ doomed' = [doomed EXCEPT ![r] = {d \in Dead : Identified(d)}]
  /\ Goto(r, "pruning")
  /\ UNCHANGED <<store, gen, stales, path, record, made, direct, probed, claim, victim>>

(* Mutant of Prunable: the claim of the entry is not probed.               *)
PrunableUnprobed(r, d) == d # r /\ Identified(d)

(* Not its own, positively ours, and claimed by no run.                    *)
Prunable(r, d) == d # r /\ Identified(d) /\ d \notin claim

PickVictim(r) ==
  /\ pc[r] = "pruning" /\ victim[r] = NoRun
  /\ \E d \in Runs : /\ Prunable(r, d)
                     /\ victim' = [victim EXCEPT ![r] = d]
  /\ UNCHANGED <<lock, disk, direct, probed, claim, pc, doomed>>

(* _remove_owned_locked.  git removes the tree entry by entry, so a crash  *)
(* may leave a path without its .git file; remove_checkout_tree takes what *)
(* git could not.                                                          *)
RemoveTree(r) ==
  /\ \E d \in Runs \ {NoRun} :
       /\ d = victim[r]
       /\ \/ path[d] = "linked" /\ path' = [path EXCEPT ![d] = "bare"]
          \/ path[d] = "bare" /\ path' = [path EXCEPT ![d] = "none"]
  /\ UNCHANGED <<lock, store, gen, stales, admin, record, made, direct, probed,
                 claim, pc, victim, doomed>>

(* Git fails halfway and the path is not identified any more: it is left.  *)
RemovalFails(r) ==
  /\ victim[r] # NoRun /\ path[victim[r]] = "bare"
  /\ victim' = [victim EXCEPT ![r] = NoRun]
  /\ IF pc[r] = "removing" THEN Goto(r, "removed") ELSE UNCHANGED pc
  /\ UNCHANGED <<lock, disk, direct, probed, claim, doomed>>

(* remove_checkout_tree raises: a prune ends with an error, a finalizer is *)
(* only logged.                                                            *)
RemovalRaises(r) ==
  /\ victim[r] # NoRun /\ path[victim[r]] # "none"
  /\ victim' = [victim EXCEPT ![r] = NoRun]
  /\ Goto(r, IF pc[r] = "removing" THEN "removed" ELSE "failing")
  /\ UNCHANGED <<lock, disk, direct, probed, claim, doomed>>

(* Mutant of ForgetVictim: the record goes although git keeps the entry.   *)
ForgetVictimAnyway(r) ==
  /\ victim[r] # NoRun /\ path[victim[r]] = "none"
  /\ Pruned(admin')
  /\ record' = [record EXCEPT ![victim[r]] = "none"]
  /\ victim' = [victim EXCEPT ![r] = NoRun]
  /\ IF pc[r] = "removing" THEN Goto(r, "removed") ELSE UNCHANGED pc
  /\ UNCHANGED <<lock, store, gen, stales, path, made, direct, probed, claim, doomed>>

(* The owner record is the evidence for a later prune: it stays while git  *)
(* still registers the entry.                                              *)
ForgetVictim(r) ==
  /\ victim[r] # NoRun /\ path[victim[r]] = "none"
  /\ Pruned(admin')
  /\ record' = [record EXCEPT ![victim[r]] =
                  IF victim[r] \in admin' THEN @ ELSE "none"]
  /\ victim' = [victim EXCEPT ![r] = NoRun]
  /\ IF pc[r] = "removing" THEN Goto(r, "removed") ELSE UNCHANGED pc
  /\ UNCHANGED <<lock, store, gen, stales, path, made, direct, probed, claim, doomed>>

(* A record of a path that is gone, unless it is ready and still registered. *)
Stray(d) == path[d] = "none" /\ ~(d \in admin /\ record[d] = "ready")

EndPrune(r) ==
  /\ pc[r] = "pruning" /\ victim[r] = NoRun
  /\ ~\E d \in Runs : Prunable(r, d)
  /\ record' = [d \in Runs |-> IF Stray(d) THEN "none" ELSE record[d]]
  /\ Unlock
  /\ Goto(r, "pruned")
  /\ UNCHANGED <<store, gen, stales, path, admin, made, direct, probed, claim,
                 victim, doomed>>

-----------------------------------------------------------------------------
(* add_run_worktree: the pending record, the path, the entry, the link, the *)
(* ready record; a worktree of this process that exists is only checked.   *)
ReserveWorktree(r) ==
  /\ pc[r] = "pruned" /\ Lock(r)
  /\ path[r] = "none"
  /\ record' = [record EXCEPT ![r] = "pending"]
  /\ Goto(r, "adding")
  /\ UNCHANGED <<store, gen, stales, path, admin, made, direct, probed, claim,
                 victim, doomed>>

MakePath(r) ==
  /\ pc[r] = "adding" /\ path[r] = "none" /\ store # "absent"
  /\ path' = [path EXCEPT ![r] = "bare"]
  /\ UNCHANGED <<lock, store, gen, stales, admin, record, made, direct, probed,
                 claim, pc, victim, doomed>>

MakeAdmin(r) ==
  /\ pc[r] = "adding" /\ path[r] = "bare" /\ r \notin admin
  /\ admin' = admin \union {r}
  /\ UNCHANGED <<lock, store, gen, stales, path, record, made, direct, probed,
                 claim, pc, victim, doomed>>

LinkPath(r) ==
  /\ pc[r] = "adding" /\ path[r] = "bare" /\ r \in admin
  /\ path' = [path EXCEPT ![r] = "linked"]
  /\ UNCHANGED <<lock, store, gen, stales, admin, record, made, direct, probed,
                 claim, pc, victim, doomed>>

WorktreeReady(r) ==
  /\ pc[r] = "adding" /\ path[r] = "linked"
  /\ record' = [record EXCEPT ![r] = "ready"]
  /\ made' = [made EXCEPT ![r] = gen]
  /\ Unlock
  /\ Goto(r, "working")
  /\ UNCHANGED <<store, gen, stales, path, admin, direct, probed, claim, victim,
                 doomed>>

(* A step fails, and what was made is removed again under the pending       *)
(* record, one thing at a time: the entry before the path while the link is *)
(* made, the path before the entry once it is.                              *)
LinkFails(r) ==
  /\ pc[r] = "adding"
  /\ Goto(r, "unlinking")
  /\ UNCHANGED <<lock, disk, direct, probed, claim, victim, doomed>>

AddFails(r) ==
  /\ pc[r] = "adding" /\ path[r] = "linked"
  /\ Goto(r, "undoing")
  /\ UNCHANGED <<lock, disk, direct, probed, claim, victim, doomed>>

UndoPath(r) ==
  /\ \/ pc[r] = "undoing"
     \/ pc[r] = "unlinking" /\ r \notin admin
  /\ \/ path[r] = "linked" /\ path' = [path EXCEPT ![r] = "bare"]
     \/ path[r] = "bare" /\ path' = [path EXCEPT ![r] = "none"]
  /\ UNCHANGED <<lock, store, gen, stales, admin, record, made, direct, probed,
                 claim, pc, victim, doomed>>

UndoAdmin(r) ==
  /\ r \in admin
  /\ \/ pc[r] = "unlinking"
     \/ pc[r] = "undoing" /\ path[r] = "none"
  /\ admin' = admin \ {r}
  /\ UNCHANGED <<lock, store, gen, stales, path, record, made, direct, probed,
                 claim, pc, victim, doomed>>

(* Nothing is left, or a removal is refused or raises: the rest stays.     *)
UndoEnds(r) ==
  /\ pc[r] \in {"unlinking", "undoing"}
  /\ Goto(r, "failing")
  /\ UNCHANGED <<lock, disk, direct, probed, claim, victim, doomed>>

(* The checkout is prepared again for a later stage of the same run.       *)
PrepareAgain(r) ==
  /\ pc[r] = "working" /\ stales < MaxStale
  /\ Goto(r, "claimed")
  /\ UNCHANGED <<lock, disk, direct, probed, claim, victim, doomed>>

ReuseWorktree(r) ==
  /\ pc[r] = "pruned" /\ lock = NoRun
  /\ path[r] # "none"
  /\ Goto(r, IF Identified(r) THEN "working" ELSE "failing")
  /\ UNCHANGED <<lock, disk, direct, probed, claim, victim, doomed>>

-----------------------------------------------------------------------------
(* The finalizer of the run, registered once its worktree exists, and then *)
(* the release of its claims.  A run that fails goes the same way.         *)
BeginRemove(r) ==
  /\ pc[r] = "working" /\ Lock(r)
  /\ victim' = [victim EXCEPT ![r] = IF Identified(r) THEN r ELSE NoRun]
  /\ Goto(r, IF Identified(r) THEN "removing" ELSE "removed")
  /\ UNCHANGED <<disk, direct, probed, claim, doomed>>

EndRun(r) ==
  /\ pc[r] = "removed"
  /\ Unlock
  /\ claim' = claim \ {r}
  /\ Goto(r, "done")
  /\ UNCHANGED <<disk, direct, probed, victim, doomed>>

Fail(r) ==
  /\ pc[r] = "failing"
  /\ lock' = IF lock = r THEN NoRun ELSE lock
  /\ probed' = IF lock = r THEN FALSE ELSE probed
  /\ claim' = claim \ {r}
  /\ Goto(r, "failed")
  /\ UNCHANGED <<disk, direct, victim, doomed>>

(* The process dies: its flocks go, what it made stays.                    *)
Crash(r) ==
  /\ pc[r] \notin {"idle"} /\ r \notin Dead
  /\ lock' = IF lock = r THEN NoRun ELSE lock
  /\ probed' = IF lock = r THEN FALSE ELSE probed
  /\ claim' = claim \ {r}
  /\ victim' = [victim EXCEPT ![r] = NoRun]
  /\ Goto(r, "crashed")
  /\ UNCHANGED <<disk, direct, doomed>>

-----------------------------------------------------------------------------
(* A direct run claims the store, works in it and ends; the store loses    *)
(* its tracked files to whatever cleans the host's temporary directories.  *)
DirectBegins ==
  /\ direct = 0 /\ ~probed /\ store = "good"
  /\ direct' = gen
  /\ UNCHANGED <<lock, disk, probed, claim, pc, victim, doomed>>

DirectEnds ==
  /\ direct # 0
  /\ direct' = 0
  /\ UNCHANGED <<lock, disk, probed, claim, pc, victim, doomed>>

StoreGoesStale ==
  /\ store = "good" /\ stales < MaxStale
  /\ store' = "stale"
  /\ stales' = stales + 1
  /\ UNCHANGED <<lock, gen, path, admin, record, made, direct, probed, claim, pc,
                 victim, doomed>>

PrepareStep(r) ==
  \/ BeginPrepare(r) \/ RemoveStore(r) \/ InitStore(r) \/ PrepareRefused(r)
  \/ EndPrepare(r)
PruneStep(r) ==
  \/ BeginPrune(r) \/ PickVictim(r) \/ RemoveTree(r) \/ RemovalFails(r)
  \/ RemovalRaises(r) \/ ForgetVictim(r) \/ EndPrune(r)
AddStep(r) ==
  \/ ReserveWorktree(r) \/ MakePath(r) \/ MakeAdmin(r) \/ LinkPath(r)
  \/ WorktreeReady(r) \/ LinkFails(r) \/ AddFails(r) \/ UndoPath(r) \/ UndoAdmin(r)
  \/ UndoEnds(r) \/ ReuseWorktree(r)
EndStep(r) == EndRun(r) \/ Fail(r)

Next ==
  \/ \E r \in Runs : \/ ClaimPath(r) \/ PrepareStep(r) \/ PruneStep(r) \/ AddStep(r)
                    \/ PrepareAgain(r) \/ BeginRemove(r) \/ EndStep(r) \/ Crash(r)
  \/ DirectBegins \/ DirectEnds \/ StoreGoesStale

(* A run that holds the lock goes on; nothing is assumed of the order in    *)
(* which flock serves those that wait, nor of how long a run works.         *)
Fairness ==
  \A r \in Runs : WF_vars(PrepareStep(r) \/ PruneStep(r) \/ AddStep(r) \/ EndStep(r))

Spec == Init /\ [][Next]_vars
FairSpec == Spec /\ Fairness

-----------------------------------------------------------------------------
Labels == {"idle", "claimed", "preparing", "prepared", "pruning", "pruned",
           "adding", "unlinking", "undoing", "working", "removing", "removed",
           "failing", "done", "failed", "crashed"}

TypeOK ==
  /\ lock \in Runs \union {NoRun}
  /\ store \in {"absent", "stale", "good"}
  /\ gen \in Nat /\ stales \in 0..MaxStale /\ direct \in Nat
  /\ probed \in BOOLEAN
  /\ path \in [Runs -> {"none", "bare", "linked"}]
  /\ admin \in SUBSET Runs /\ claim \in SUBSET Runs
  /\ record \in [Runs -> {"none", "pending", "ready"}]
  /\ pc \in [Runs -> Labels]
  /\ victim \in [Runs -> Runs \union {NoRun}]
  /\ made \in [Runs -> Nat]
  /\ doomed \in [Runs -> SUBSET Runs]

(* A working run keeps its worktree, its entry in the store it was made    *)
(* from and its record, whatever starting runs prune or recreate           *)
(* (prune_dead_worktrees, _prepare_store_locked).                          *)
WorkingWorktreeStays ==
  \A r \in Runs : pc[r] = "working" => Identified(r) /\ made[r] = gen

(* The store a direct run has claimed is not recreated under it.           *)
ClaimedStoreStays == direct # 0 => direct = gen /\ store # "absent"

(* Nothing that is in use is taken, a worktree or the store itself.        *)
UsedStays == WorkingWorktreeStays /\ ClaimedStoreStays

(* A path never stands without an owner record, and a worktree that was     *)
(* ready once keeps its ready record until its path and its entry are both  *)
(* gone: a prune can always name and finish what a crash, a refused removal *)
(* or a failing git left of it.  Only the entry of a worktree that never    *)
(* became ready may outlive its record, when its clean-up was cut short     *)
(* after the path and git could not prune (add_run_worktree,                *)
(* prune_dead_worktrees); nobody works in such a one.                       *)
NothingUnrecorded ==
  \A r \in Runs :
    /\ path[r] # "none" => record[r] # "none"
    /\ made[r] # 0 /\ (path[r] # "none" \/ r \in admin) => record[r] = "ready"

(* The sweep of a starting run takes every whole worktree whose run was    *)
(* dead when it began.                                                     *)
DeadWorktreesAreSwept ==
  \A r \in Runs : pc[r] = "pruned" => \A d \in doomed[r] : ~Identified(d)

(* What a crash leaves is found again: it is named, and swept if whole.    *)
LeftoversAreFound == NothingUnrecorded /\ DeadWorktreesAreSwept

(* No run keeps the lock of the store: not by an error or a crash in one of  *)
(* the holds, nor by what another run left on disk (store_lock).            *)
LockIsFreed == []<>(lock = NoRun)
=============================================================================
