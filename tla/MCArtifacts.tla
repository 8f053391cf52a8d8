---------------------------- MODULE MCArtifacts ----------------------------
(***************************************************************************)
(* One turn of an agent, and what a run leaves where the next run finds it: *)
(* the reviews of a round, and the source that worktree setup installs in   *)
(* the store.  The three share no variable of the models, so a behaviour is *)
(* one of exactly one of them, the part, while the others stay where they   *)
(* begin.                                                                   *)
(***************************************************************************)
EXTENDS AgentTurn, FiniteSets

CONSTANTS
  a1, a2, r1, r2, r3, d1, d2, g1, g2,
  Reviewers, Actors, MaxAttempts, MaxFaults,                  \* of Publication
  Runs, Commanded, Digests, NoRunner, NoDigest, MaxGen, MaxDamage \* of StoreSetup

ASSUME RoundAssumption ==
  IsFiniteSet(Reviewers) /\ MaxAttempts \in Nat \ {0} /\ MaxFaults \in Nat
ASSUME StoreAssumption ==
  /\ Commanded \subseteq Runs /\ NoRunner \notin Runs
  /\ NoDigest \notin Digests /\ MaxGen \in Nat /\ MaxDamage \in Nat

(* Another backend, and three Antigravity models of two quota groups.       *)
MCChains == {<<>>, <<g1, g1, g2>>}

VARIABLES
  part,
  spool, comments, turns, ctx, rejects, actor, at, run, post, faults, disturbed,
  lock, source, built, damaged, damages, record, health, gens, pin, registered,
  poisoned, step

roundVars == <<spool, comments, turns, ctx, rejects, actor, at, run, post,
               faults, disturbed>>
storeVars == <<lock, source, built, damaged, damages, record, health, gens, pin,
               registered, poisoned, step>>

(* A board of reviewers; the account may change and anything may fail.      *)
Round == INSTANCE Publication WITH pc <- at

(* Runs with and without --worktree-setup share a store.                    *)
Store == INSTANCE StoreSetup WITH pc <- step, NoRun <- NoRunner

MCInit ==
  /\ part \in {"turn", "round", "setup"}
  /\ Init /\ Round!Init /\ Store!Init
  /\ chain # <<>> => kind = "plan"       \* has every recovery an Antigravity turn has
  /\ part # "turn" => chain = <<>> /\ kind = "other" /\ memory = [g \in Groups |-> "open"]
  /\ part # "round" => disturbed = {} /\ actor = a1
  /\ part # "setup" => source = "none"

MCNext ==
  \/ part = "turn" /\ Next /\ UNCHANGED <<part, roundVars, storeVars>>
  \/ part = "round" /\ Round!Next /\ UNCHANGED <<part, vars, storeVars>>
  \/ part = "setup" /\ Store!Next /\ UNCHANGED <<part, vars, roundVars>>

MCSpec ==
  /\ MCInit
  /\ [][MCNext]_<<part, vars, roundVars, storeVars>>
  /\ WF_vars(part = "turn" /\ Turn)
  /\ WF_roundVars(part = "round" /\ Round!Program)

-----------------------------------------------------------------------------
(* Every variable has its type.                                             *)
ArtifactsTypeOK == TypeOK /\ Round!TypeOK /\ Store!TypeOK

(* A turn ends, however its recoveries nest (_run_validated_agent_in_scope). *)
AnswerOrStop == part = "turn" => TurnEnds

(* The properties of the round, explained in Publication.                   *)

(* No body of a review is public twice, and no anchor without its sidecar   *)
(* (publication_resume.py:18 and 158).                                      *)
BodiesAreSound == Round!BodiesAreSound

(* No new reviewer works beside a public review (review_rounds.py:1261).    *)
TurnsAreIndependent == Round!TurnsAreIndependent

(* No reviewer at all does (docs/local_agent_loop.md:3860).                 *)
NoTurnBesidePublicPeer == Round!NoTurnBesidePublicPeer

(* A response that still validates stays in the spool (review_spool.py:14). *)
ResponseKept == Round!ResponseKept

(* A round that nobody disturbs is published in the end                     *)
(* (docs/local_agent_loop.md:3877).                                         *)
UndisturbedRoundEnds == part = "round" => Round!RoundEnds

(* The properties of the store, explained in StoreSetup.                    *)

(* The setup record promises no more than a finished command installed      *)
(* (ensure_store_setup).                                                    *)
SetupRecordIsTrue == Store!SetupRecordIsTrue

(* No run links an unfinished or damaged source, a pin is handed out with   *)
(* its own setup, and only a setup that succeeds clears the stale mark      *)
(* (ensure_health, prepare_store).                                          *)
OnlySoundSourcesAreUsed == Store!OnlySoundSourcesAreUsed
=============================================================================
