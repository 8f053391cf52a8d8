------------------------------ MODULE Publication ------------------------------
(***************************************************************************)
(* Publishing one parallel review round on a pull request.  The reviews    *)
(* are withheld in a private spool until every turn has returned; then     *)
(* each becomes several comments (a sidecar, then the anchor that carries  *)
(* the round's metadata), frozen with the actor that posts them before the *)
(* first one is posted.  A later run resumes from the spool.  Modelled:    *)
(*   publication_resume.py  RoundPublication (gate, prepare, freeze,       *)
(*                          resume, legacy check)                          *)
(*   review_spool.py        the records and when they are removed          *)
(*   review_rounds.py       the preflight and the launcher                 *)
(*   github.py              a comment write and its reconciliation         *)
(*   pr_loop.py             the order of these in a round                  *)
(* A body is named by its reviewer, its position and the turn that wrote   *)
(* it: the digests of the code are equality of those names.  A write that  *)
(* fails transiently was applied at once or will never be.  The round's    *)
(* pull request head does not move (another head is another spool).        *)
(***************************************************************************)
EXTENDS Naturals, Sequences, FiniteSets, SequencesExt

CONSTANTS
  Reviewers,    \* the board of the round
  Actors,       \* GitHub accounts the runs may authenticate as
  MaxAttempts,  \* writes of one body (3 in the code)
  MaxFaults     \* crashes, failed writes, reads or turns, and changes outside

VARIABLES
  spool,      \* reviewer -> its spooled record
  comments,   \* the round's comments, oldest first
  turns,      \* reviewer -> turns it has run
  ctx,        \* version of the surfaced requirements
  rejects,    \* reviewers whose response of an earlier version fails validation
  actor,      \* the authenticated account
  pc,         \* where the current run is, "idle" between two runs
  run,        \* what the current run has read and decided
  post,       \* the body being written: its index and the attempts made
  faults,
  disturbed   \* what has changed the round from outside the program

vars == <<spool, comments, turns, ctx, rejects, actor, pc, run, post, faults,
          disturbed>>

outside == <<ctx, rejects, actor, disturbed>>

Sidecar == 1
Anchor == 2
Bodies == Sidecar .. Anchor

Versions == 0 .. 1
Outcomes == {"none", "response", "unavailable", "fatal"}
Absent == [kind |-> "absent"]

\* The configured order of the board: no property depends on which it is.
Ordered(S) == SetToSeqs(S)

(***************************************************************************)
(* Reading the spool and the conversation.                                 *)
(***************************************************************************)
Responses == {"fresh", "legacy", "carrier"}
HasResponse(r) == spool[r].kind \in Responses

\* The spooled text still passes the round's validator.
Replayable(r) ==
  HasResponse(r) /\ (spool[r].made = run.ctx \/ r \notin rejects)

Posted(r, i, t, a) ==
  Cardinality({n \in DOMAIN comments : /\ comments[n].reviewer = r
                                       /\ comments[n].index = i
                                       /\ comments[n].turn = t
                                       /\ comments[n].actor = a})

HasAnchor(r) == \E n \in DOMAIN comments : /\ comments[n].reviewer = r
                                           /\ comments[n].index = Anchor

\* The reviewer's latest anchor still covers the surfaced requirements.
Accepted(r, c) ==
  \E n \in DOMAIN comments :
    /\ comments[n].reviewer = r
    /\ comments[n].index = Anchor
    /\ comments[n].ctx = c
    /\ \A m \in DOMAIN comments :
         comments[m].reviewer = r /\ comments[m].index = Anchor => m <= n

\* classify_frozen_sequence: how many leading bodies are public, or a refusal.
Refused == 3
Classified(r) ==
  LET seen(i) == Posted(r, i, spool[r].turn, actor)
  IN  IF \E i \in Bodies : seen(i) > 1 THEN Refused
      ELSE IF seen(Anchor) = 1 THEN IF seen(Sidecar) = 1 THEN 2 ELSE Refused
      ELSE seen(Sidecar)

\* RoundPublication._resume lets the run go on with this carrier.
Resumable(r) ==
  /\ spool[r].ctx = run.ctx
  /\ spool[r].actor = actor
  /\ Classified(r) # Refused

\* RoundPublication._check_legacy: nothing of an earlier publication is visible.
LegacyClean(r) ==
  ~ \E n \in DOMAIN comments :
      \/ comments[n].index = Sidecar
      \/ (comments[n].reviewer = r /\ comments[n].index = Anchor)

\* The preflight lets the round go on with this reviewer's record.
Passes(r) ==
  /\ spool[r].kind = "carrier" => Replayable(r) /\ Resumable(r)
  /\ spool[r].kind = "legacy" => LegacyClean(r)

-----------------------------------------------------------------------------
NoRun == [ctx |-> 0, completed |-> {}, accepted |-> {}, working |-> {},
          replayed |-> {}, outcome |-> [r \in Reviewers |-> "none"],
          queue |-> <<>>]

NoPost == [index |-> 0, tries |-> 0, baseline |-> TRUE]

Legacy(t) == [kind |-> "legacy", turn |-> t, made |-> 0]

Body(r, i, t, a, c) ==
  [reviewer |-> r, index |-> i, turn |-> t, actor |-> a, ctx |-> c]

\* A round starts with no record, or with the record of one reviewer that a
\* version before the carriers left, some of its bodies posted or none.
Init ==
  /\ ctx = 0 /\ rejects = {} /\ actor \in Actors
  /\ pc = "idle" /\ run = NoRun /\ post = NoPost /\ faults = 0
  /\ \/ /\ spool = [r \in Reviewers |-> Absent]
        /\ comments = <<>>
        /\ turns = [r \in Reviewers |-> 0]
        /\ disturbed = {}
     \/ \E r \in Reviewers, k \in 0 .. 2, a \in Actors :
          /\ spool = [s \in Reviewers |-> IF s = r THEN Legacy(1) ELSE Absent]
          /\ comments = [i \in 1 .. k |-> Body(r, i, 1, a, 0)]
          /\ turns = [s \in Reviewers |-> IF s = r THEN 1 ELSE 0]
          /\ disturbed = {"legacy"}

Fault == faults < MaxFaults /\ faults' = faults + 1

\* The run raises: nothing of its memory survives.
Stop == pc' = "idle" /\ run' = NoRun /\ post' = NoPost

(***************************************************************************)
(* The start of a round: what is posted, then the check of every record.   *)
(***************************************************************************)
StartRun ==
  /\ pc = "idle"
  /\ pc' = "gate"
  /\ run' = [NoRun EXCEPT !.ctx = ctx,
                          !.completed = {r \in Reviewers : HasAnchor(r)},
                          !.accepted = {r \in Reviewers : Accepted(r, ctx)}]
  /\ UNCHANGED <<spool, comments, turns, post, faults, outside>>

\* A selected reviewer with no accepted anchor has nothing to replay.
NeedsFreshTurn ==
  \E r \in Reviewers \ run.accepted :
    spool[r].kind # "failure" /\ ~ Replayable(r)

Pending(r) == spool[r].kind = "carrier" /\ Classified(r) < Anchor
Partial(r) == spool[r].kind = "carrier" /\ Classified(r) = Sidecar

\* Posting may wait: no attachment is public that a fresh turn would read.
Deferrable == NeedsFreshTurn /\ \A r \in Reviewers : ~ Partial(r)

\* _preflight_spooled_publications: every record passes or nothing is posted.
Preflight ==
  /\ pc = "gate"
  /\ IF (\E r \in Reviewers : ~ Passes(r)) \/ (NeedsFreshTurn /\ ~ Deferrable)
     THEN Stop
     ELSE \E plans \in Ordered({r \in Reviewers : ~ NeedsFreshTurn /\ Pending(r)}) :
              /\ run' = [run EXCEPT !.queue = plans]
              /\ pc' = IF plans = <<>> THEN "launch" ELSE "suffix"
              /\ UNCHANGED post
  /\ UNCHANGED <<spool, comments, turns, faults, outside>>

\* The actor or a listing cannot be read: a record that needs it stops the run.
PreflightUnread ==
  /\ pc = "gate"
  /\ \E r \in Reviewers : spool[r].kind \in {"carrier", "legacy"}
  /\ Fault /\ Stop
  /\ UNCHANGED <<spool, comments, turns, outside>>

(***************************************************************************)
(* _launch_reviewer_turns.                                                 *)
(***************************************************************************)
Waiting == Reviewers \ run.accepted
Rejected == Waiting \cap run.completed
Replayed == {r \in Waiting \ Rejected :
               spool[r].kind = "failure" \/ Replayable(r)}
Launched == Waiting \ Replayed

\* The peers whose review of the round is public: those of the round's start,
\* or those read again after the checkpoint of a scheduling policy was posted.
PublicPeers(r, again) ==
  (IF again THEN {p \in Reviewers : HasAnchor(p)} ELSE run.completed) \ {r}

(* Mutant of Launchable: a fresh turn runs beside a published review. *)
LaunchableBesidePeers(again) ==
  \A r \in Waiting \ Rejected : spool[r].kind = "carrier" => Replayable(r)

Launchable(again) ==
  /\ \A r \in Waiting \ Rejected : spool[r].kind = "carrier" => Replayable(r)
  /\ \A r \in Launched : PublicPeers(r, again) = {}

\* The launcher drops the record of a reviewer whose posted review was
\* rejected, replays the others and starts every turn that is left.
Launch ==
  /\ pc = "launch"
  /\ spool' = [r \in Reviewers |-> IF r \in Rejected THEN Absent ELSE spool[r]]
  /\ \E again \in BOOLEAN :
     IF ~ Launchable(again)
     THEN Stop /\ UNCHANGED turns
     ELSE /\ \E order \in Ordered({r \in Replayed : HasResponse(r)}) :
             run' = [run EXCEPT
               !.working = Launched,
               !.replayed = Replayed,
               !.outcome = [r \in Reviewers |->
                 IF r \notin Replayed THEN "none"
                 ELSE IF spool[r].kind = "failure" THEN "unavailable"
                 ELSE "response"],
               !.queue = order]
          /\ turns' = [r \in Reviewers |->
                         turns[r] + IF r \in Launched THEN 1 ELSE 0]
          /\ pc' = "turns"
          /\ UNCHANGED post
  /\ UNCHANGED <<comments, faults, outside>>

\* A turn returns; one that cannot be settled is raised by the round.
TurnReturns(r) ==
  /\ pc = "turns" /\ r \in run.working
  /\ \E o \in {"response", "unavailable", "fatal"} :
       /\ IF o = "fatal" THEN Fault ELSE UNCHANGED faults
       /\ run' = [run EXCEPT !.working = @ \ {r}, !.outcome[r] = o,
                             !.queue = IF o = "response" THEN Append(@, r) ELSE @]
  /\ UNCHANGED <<spool, comments, turns, pc, post, outside>>

TurnsReturned ==
  /\ pc = "turns" /\ run.working = {}
  /\ pc' = "store"
  /\ UNCHANGED <<spool, comments, turns, run, post, faults, outside>>

Settled(o) == {r \in Reviewers : run.outcome[r] = o}
Unstored == (Settled("response") \cup Settled("unavailable")) \ run.replayed

\* One atomic file per outcome that settles its reviewer.
StoreOutcome(r) ==
  /\ pc = "store" /\ r \in Unstored
  /\ spool' = [spool EXCEPT ![r] =
       IF run.outcome[r] = "response"
       THEN [kind |-> "fresh", turn |-> turns[r], made |-> run.ctx]
       ELSE [kind |-> "failure"]]
  /\ run' = [run EXCEPT !.replayed = @ \cup {r}]
  /\ UNCHANGED <<comments, turns, pc, post, faults, outside>>

(* Mutant of Withheld: a failed peer does not hold the healthy reviews back. *)
WithheldNever == FALSE

\* A reviewer must be invoked again: the healthy reviews wait for it.
Withheld == Settled("fatal") # {} /\ Settled("response") # {}

Stored ==
  /\ pc = "store" /\ Unstored = {}
  /\ IF Withheld THEN Stop
     ELSE pc' = "publish" /\ UNCHANGED <<run, post>>
  /\ UNCHANGED <<spool, comments, turns, faults, outside>>

(***************************************************************************)
(* Publication, one reviewer after another in the order of completion.     *)
(***************************************************************************)
Current == Head(run.queue)

Carrier(r) ==
  [kind |-> "carrier", turn |-> spool[r].turn, made |-> spool[r].made,
   actor |-> actor, ctx |-> run.ctx]

\* RoundPublication._freeze writes the carrier before the first post.
Frozen(r) == IF spool[r].kind = "carrier" THEN spool[r] ELSE Carrier(r)

Write(i, readable) == [index |-> i, tries |-> 0, baseline |-> readable]

\* RoundPublication.prepare, then the baseline of the first body to post.
Prepare ==
  /\ pc = "publish" /\ run.queue # <<>>
  /\ LET r == Current
     IN  IF \/ spool[r].kind = "carrier" /\ ~ Resumable(r)
            \/ spool[r].kind = "legacy" /\ ~ LegacyClean(r)
         THEN Stop /\ UNCHANGED <<spool, faults>>
         ELSE /\ spool' = [spool EXCEPT ![r] = Frozen(r)]
              /\ LET done == IF spool[r].kind = "carrier" THEN Classified(r) ELSE 0
                 IN  IF done = Anchor
                     THEN pc' = "remove" /\ UNCHANGED <<post, faults>>
                     ELSE \E readable \in BOOLEAN :
                            /\ pc' = "post"
                            /\ post' = Write(done + 1, readable)
                            /\ IF readable THEN UNCHANGED faults ELSE Fault
              /\ UNCHANGED run
  /\ UNCHANGED <<comments, turns, outside>>

\* The actor or the listing is unavailable: no carrier, and no post.
PrepareUnread ==
  /\ pc = "publish" /\ run.queue # <<>>
  /\ Fault /\ Stop
  /\ UNCHANGED <<spool, comments, turns, outside>>

\* The preflight posts the missing suffix of a verified carrier.
PostSuffix ==
  /\ pc = "suffix"
  /\ \E readable \in BOOLEAN :
       /\ post' = Write(Classified(Current) + 1, readable)
       /\ IF readable THEN UNCHANGED faults ELSE Fault
  /\ pc' = "post"
  /\ UNCHANGED <<spool, comments, turns, run, outside>>

InPreflight == run.outcome = NoRun.outcome /\ run.working = {}

(* Mutant of LastBody: the sidecar is taken for the whole review. *)
LastBodySidecar == Sidecar

\* The body whose post publishes the review.
LastBody == Anchor

\* The body is public as far as the run knows: the next one, or the end.
BodyPosted ==
  IF post.index < LastBody
  THEN /\ \E readable \in BOOLEAN :
            /\ post' = Write(post.index + 1, readable)
            /\ IF readable THEN UNCHANGED faults ELSE Fault
       /\ pc' = "post" /\ UNCHANGED run
  ELSE /\ post' = NoPost /\ UNCHANGED faults
       /\ IF InPreflight
          THEN /\ run' = [run EXCEPT !.queue = Tail(@)]
               /\ pc' = IF Len(run.queue) = 1 THEN "launch" ELSE "suffix"
          ELSE pc' = "remove" /\ UNCHANGED run

Appended == Append(comments, Body(Current, post.index, spool[Current].turn, actor, run.ctx))

\* post_comment_with_reconciliation: the write succeeds.
WriteAnswered ==
  /\ pc = "post"
  /\ comments' = Appended
  /\ BodyPosted
  /\ UNCHANGED <<spool, turns, outside>>

\* The answer is a transient error, and the write was applied or was not.
WriteUnanswered ==
  /\ pc = "post"
  /\ Fault
  /\ comments' \in {comments, Appended}
  /\ IF post.baseline
     THEN /\ pc' = "reconcile" /\ post' = [post EXCEPT !.tries = @ + 1]
          /\ UNCHANGED run
     ELSE Stop
  /\ UNCHANGED <<spool, turns, outside>>

\* The answer is a permanent error.
WriteRefused ==
  /\ pc = "post"
  /\ Fault /\ Stop
  /\ UNCHANGED <<spool, comments, turns, outside>>

(* Mutant of Landed: the write is tried again without looking. *)
LandedUnknown == 0

\* The comments of this account that carry the body just written.
Landed == Posted(Current, post.index, spool[Current].turn, actor)

Reconcile ==
  /\ pc = "reconcile"
  /\ \/ Landed = 1 /\ BodyPosted
     \/ /\ Landed = 0 /\ post.tries < MaxAttempts
        /\ pc' = "post" /\ UNCHANGED <<run, post, faults>>
     \/ /\ Landed > 1 \/ (Landed = 0 /\ post.tries = MaxAttempts)
        /\ Stop /\ UNCHANGED faults
  /\ UNCHANGED <<spool, comments, turns, outside>>

ReconcileUnread ==
  /\ pc = "reconcile"
  /\ Fault /\ Stop
  /\ UNCHANGED <<spool, comments, turns, outside>>

\* Published: a rerun resumes this reviewer from its anchor.
RemoveRecord ==
  /\ pc = "remove"
  /\ spool' = [spool EXCEPT ![Current] = Absent]
  /\ run' = [run EXCEPT !.queue = Tail(@)]
  /\ pc' = "publish"
  /\ UNCHANGED <<comments, turns, post, faults, outside>>

\* The round's spool is discarded; a fatal failure is raised only now when
\* nothing was withheld.
DiscardSpool ==
  /\ pc = "publish" /\ run.queue = <<>>
  /\ spool' = [r \in Reviewers |-> Absent]
  /\ IF Settled("fatal") # {} THEN Stop
     ELSE pc' = "done" /\ run' = NoRun /\ UNCHANGED post
  /\ UNCHANGED <<comments, turns, faults, outside>>

(***************************************************************************)
(* What happens outside the program.                                       *)
(***************************************************************************)
Crash ==
  /\ pc \notin {"idle", "done"}
  /\ Fault /\ Stop
  /\ UNCHANGED <<spool, comments, turns, outside>>

\* A requirement is added or edited; an older response may still validate.
RequirementsChange ==
  /\ pc # "done" /\ ctx = 0 /\ Fault
  /\ ctx' = 1 /\ disturbed' = disturbed \cup {"requirements"}
  /\ rejects' \in SUBSET Reviewers
  /\ UNCHANGED <<spool, comments, turns, actor, pc, run, post>>

ActorChanges ==
  /\ pc = "idle" /\ Fault
  /\ actor' \in Actors \ {actor}
  /\ disturbed' = disturbed \cup {"actor"}
  /\ UNCHANGED <<spool, comments, turns, ctx, rejects, pc, run, post>>

\* The operator deletes one comment, or every comment of the round as the
\* recovery list asks.
CommentsDeleted ==
  /\ pc = "idle" /\ comments # <<>> /\ Fault
  /\ comments' \in {<<>>} \cup {RemoveAt(comments, n) : n \in DOMAIN comments}
  /\ disturbed' = disturbed \cup {"comments"}
  /\ UNCHANGED <<spool, turns, ctx, rejects, actor, pc, run, post>>

\* The next run is on another host, or the cache is cleared.
SpoolLost ==
  /\ pc = "idle" /\ Fault
  /\ \E r \in Reviewers : spool[r] # Absent
  /\ spool' = [r \in Reviewers |-> Absent]
  /\ disturbed' = disturbed \cup {"spool"}
  /\ UNCHANGED <<comments, turns, ctx, rejects, actor, pc, run, post>>

Program ==
  \/ StartRun
  \/ Preflight \/ PreflightUnread
  \/ Launch \/ TurnsReturned \/ Stored
  \/ \E r \in Reviewers : TurnReturns(r) \/ StoreOutcome(r)
  \/ Prepare \/ PrepareUnread \/ PostSuffix
  \/ WriteAnswered \/ WriteUnanswered \/ WriteRefused
  \/ Reconcile \/ ReconcileUnread
  \/ RemoveRecord \/ DiscardSpool

Next ==
  \/ Program
  \/ Crash \/ RequirementsChange \/ ActorChanges \/ CommentsDeleted
  \/ SpoolLost

Spec == Init /\ [][Next]_vars

\* A step of the program is never put off for ever and the operator runs it
\* again after a stop.
Fairness == WF_vars(Program)
FairSpec == Spec /\ Fairness

-----------------------------------------------------------------------------
Disturbances == {"legacy", "requirements", "actor", "comments", "spool"}
Records ==
  {Absent, [kind |-> "failure"]}
    \cup [kind : {"fresh", "legacy"}, turn : Nat, made : Versions]
    \cup [kind : {"carrier"}, turn : Nat, made : Versions, actor : Actors,
           ctx : Versions]

\* The type invariant, which also bounds what is public: the spool never holds
\* a turn that was not run.
TypeOK ==
  /\ spool \in [Reviewers -> Records]
  /\ \A r \in Reviewers : HasResponse(r) => spool[r].turn \in 1 .. turns[r]
  /\ comments \in Seq([reviewer : Reviewers, index : Bodies, turn : Nat,
                       actor : Actors, ctx : Versions])
  /\ turns \in [Reviewers -> Nat]
  /\ ctx \in Versions /\ rejects \subseteq Reviewers /\ actor \in Actors
  /\ pc \in {"idle", "gate", "suffix", "launch", "turns", "store", "publish",
              "post", "reconcile", "remove", "done"}
  /\ run.ctx \in Versions
  /\ run.accepted \subseteq run.completed
  /\ run.outcome \in [Reviewers -> Outcomes]
  /\ post \in [index : 0 .. Anchor, tries : 0 .. MaxAttempts, baseline : BOOLEAN]
  /\ faults \in 0 .. MaxFaults /\ disturbed \subseteq Disturbances

\* No body of a review is public twice, whatever was answered, retried,
\* interrupted, resumed or left by an older version (publication_resume.py:18).
NoBodyTwice ==
  \A m, n \in DOMAIN comments :
    /\ comments[m].reviewer = comments[n].reviewer
    /\ comments[m].index = comments[n].index
    /\ comments[m].turn = comments[n].turn
    => m = n

\* An anchor is never public without the sidecar of the same turn before it,
\* unless somebody deletes it (publication_resume.py:158).
AnchorsAreWhole ==
  "comments" \notin disturbed =>
    \A n \in DOMAIN comments :
      comments[n].index = Anchor =>
        \E m \in 1 .. n : /\ comments[m].reviewer = comments[n].reviewer
                          /\ comments[m].turn = comments[n].turn
                          /\ comments[m].index = Sidecar

\* What is public is published once and whole.
BodiesAreSound == NoBodyTwice /\ AnchorsAreWhole

\* While a reviewer that has published nothing in this round runs its turn, no
\* peer's review is public, and no attachment of one either as long as the spool
\* and the comments are left alone (review_rounds.py:1261).
TurnsAreIndependent ==
  pc = "turns" =>
    \A r \in run.working \ run.completed : \A n \in DOMAIN comments :
      comments[n].reviewer # r =>
        /\ comments[n].index # Anchor
        /\ disturbed \cap {"spool", "comments"} # {}

\* The documentation says it of every reviewer: none is ever invoked while a
\* same-round peer's body is public (docs/local_agent_loop.md:3860).  The code
\* reads the public peers at the round's start and may post a frozen review
\* after that (pr_loop.py:5032).
NoTurnBesidePublicPeer ==
  pc = "turns" =>
    \A r \in run.working : \A n \in DOMAIN comments :
      comments[n].index = Anchor => comments[n].reviewer = r

\* A response that still validates leaves the spool only when a review of its
\* reviewer is public, or with the whole spool (review_spool.py:14).
ResponseKept ==
  [][\A r \in Reviewers :
       HasResponse(r) /\ (spool[r].made = ctx \/ r \notin rejects) =>
         \/ HasResponse(r)' /\ spool'[r].turn = spool[r].turn
         \/ HasAnchor(r)
         \/ "spool" \in disturbed']_vars

\* A round nobody disturbs is published in the end, after any crash and any
\* failed turn, read or write (docs/local_agent_loop.md:3877).
RoundEnds == <>(pc = "done" \/ disturbed # {})
=============================================================================
