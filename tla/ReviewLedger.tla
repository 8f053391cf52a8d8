---------------------------- MODULE ReviewLedger ----------------------------
(***************************************************************************)
(* The ledger of unresolved review items of a pull request                 *)
(* (unresolved_items.py, and the settlement and partition helpers of       *)
(* pr_loop_decisions.py and pr_loop_support.py).                           *)
(*                                                                         *)
(* A ledger holds three kinds of items.                                    *)
(*   items  findings of reviewers, one per reviewer who filed it: the      *)
(*          owners that have not cleared it yet ({} when there is none).   *)
(*          Several findings of one reviewer count as one.                 *)
(*   ci     the github-pr-checks obligation: the head that failed, the     *)
(*          candidate head that may requalify it, and its lifecycle.       *)
(*   conf   the merge-conflict item: the head it was confirmed against.    *)
(*                                                                         *)
(* A vote is the set of findings a review leaves blocking, its own new one *)
(* included.  A validated review disposes of every item it was shown, and  *)
(* approves exactly when it leaves nothing blocking.                       *)
(***************************************************************************)
EXTENDS Integers

CONSTANTS
  Reviewers,  \* configured reviewers
  Heads,      \* commits the pull request may point to
  NoHead      \* no commit

ASSUME NoHeadAssumption == NoHead \notin Heads

Lifecycles == {"none", "repair", "awaiting", "ready", "qualifying"}
CiItems == [life : Lifecycles, failed : Heads \cup {NoHead}, cand : Heads \cup {NoHead}]
NoCi == [life |-> "none", failed |-> NoHead, cand |-> NoHead]
Ledgers == [items : [Reviewers -> SUBSET Reviewers], ci : CiItems, conf : Heads \cup {NoHead}]
EmptyLedger == [items |-> [r \in Reviewers |-> {}], ci |-> NoCi, conf |-> NoHead]

Open(L) == {i \in Reviewers : L.items[i] # {}}
HasCi(L) == L.ci.life # "none"
HasConflict(L) == L.conf # NoHead

-----------------------------------------------------------------------------
(* Reviewer findings *)

NoVote == [voted |-> FALSE, blocks |-> {}]
Vote(B) == [voted |-> TRUE, blocks |-> B]
Votes == [voted : BOOLEAN, blocks : SUBSET Reviewers]

Voters(votes) == {r \in Reviewers : votes[r].voted}
Blockers(votes, i) == {r \in Voters(votes) : i \in votes[r].blocks}

(* Owner-scoped: a blocking vote makes its reviewer an owner, a clearing   *)
(* vote discharges only the reviewer's own obligation.                     *)
OwnerScoped(votes, i, owners) ==
  (owners \ (Voters(votes) \ Blockers(votes, i))) \cup Blockers(votes, i)

(* Mutant of Aggregate: one clearing vote outweighs the blocking ones.     *)
ClearedByAny(votes, i, owners) ==
  IF Voters(votes) \ Blockers(votes, i) # {} THEN {} ELSE owners \cup Blockers(votes, i)

(* Aggregate: one blocking vote keeps the item for its owners; any other   *)
(* set of dispositions removes it.                                         *)
Aggregate(votes, i, owners) ==
  IF Blockers(votes, i) # {} THEN (IF owners = {} THEN {i} ELSE owners)
  ELSE IF Voters(votes) = {} THEN owners ELSE {}

SettleItem(ownerScoped, votes, i, owners) ==
  IF ownerScoped THEN OwnerScoped(votes, i, owners) ELSE Aggregate(votes, i, owners)

Settle(ownerScoped, L, votes) ==
  [L EXCEPT !.items = [i \in Reviewers |-> SettleItem(ownerScoped, votes, i, L.items[i])]]

-----------------------------------------------------------------------------
(* The CI obligation *)

UpsertCi(L, h) == [L EXCEPT !.ci = [life |-> "repair", failed |-> h, cand |-> NoHead]]
ClearCi(L) == [L EXCEPT !.ci = NoCi]
SetLife(L, life) == [L EXCEPT !.ci.life = IF HasCi(L) THEN life ELSE "none"]

(* Only a head other than the failed one becomes a candidate; going back   *)
(* to the failed head withdraws the candidate.                             *)
AdvanceForHead(L, h) ==
  LET ci == L.ci
  IN  CASE ci.life = "none" -> L
        [] ci.life # "none" /\ ci.failed = h
             -> IF ci.life = "repair" THEN L
                ELSE [L EXCEPT !.ci = [ci EXCEPT !.life = "repair", !.cand = NoHead]]
        [] ci.life # "none" /\ ci.failed # h
             -> IF ci.life # "repair" /\ ci.cand = h THEN L
                ELSE [L EXCEPT !.ci = [ci EXCEPT !.life = "awaiting", !.cand = h]]

CiIsCandidate(L, h) ==
  /\ L.ci.life \in {"awaiting", "ready", "qualifying"}
  /\ L.ci.cand = h
  /\ L.ci.failed # h

-----------------------------------------------------------------------------
(* The merge-conflict item: probe is what GitHub answers about the live    *)
(* head, h the head of the round.  An unknown answer keeps a conflict      *)
(* confirmed against h and drops any other.                                *)

ReconcileConflict(L, probe, live, h) ==
  [L EXCEPT !.conf = CASE probe = "conflicted" -> live
                       [] probe = "mergeable"  -> NoHead
                       [] probe = "unknown"    -> IF L.conf = h THEN h ELSE NoHead]

-----------------------------------------------------------------------------
(* What blocks whom *)

Active(L) == Open(L) # {} \/ HasCi(L) \/ HasConflict(L)

(* Mutant of CoderBlocked: a failed check is left to the next watch.       *)
CoderBlockedByReviews(L, h) == Open(L) # {} \/ HasConflict(L)

(* The coder works before any gate, watch or merge.                        *)
CoderBlocked(L, h) == Open(L) # {} \/ HasConflict(L) \/ (HasCi(L) /\ ~CiIsCandidate(L, h))
FinalizationReady(L) == ~Active(L)
=============================================================================
