-------------------------- MODULE PublicationProofs -------------------------
(***************************************************************************)
(* Proofs about the publication of a parallel round, for any finite board,  *)
(* any accounts and any number of faults: what is public is published once  *)
(* and whole, no new reviewer works beside a public review, and a response  *)
(* that still validates stays in the spool until its review is public.      *)
(*                                                                         *)
(* What outlives a run is sound by itself (Durable): every body belongs to  *)
(* a turn that was run, a fresh record has published nothing, and what a    *)
(* carrier has published was posted by the account it names.  What a run    *)
(* remembers is sound because it was read off that (RunInv), and nothing of *)
(* it survives the run.                                                     *)
(***************************************************************************)
EXTENDS Publication, TLAPS, FiniteSetTheorems, SequenceTheorems

(* The constants as the program has them: a board has an end, a body is     *)
(* written at least once, and the faults are counted.                       *)
ConstantsAreSound ==
  IsFiniteSet(Reviewers) /\ MaxAttempts \in Nat \ {0} /\ MaxFaults \in Nat

Running == pc \notin {"idle", "done"}
Writing == pc \in {"post", "reconcile"}
Resuming == pc = "suffix" \/ (Writing /\ InPreflight)
Turning == pc \in {"turns", "store"}
Publishing == pc \in {"publish", "remove"} \/ (Writing /\ ~InPreflight)

Bodied == [reviewer : Reviewers, index : Bodies, turn : Nat, actor : Actors, ctx : Versions]
Writes == [index : 0 .. Anchor, tries : 0 .. MaxAttempts, baseline : BOOLEAN]
Memories ==
  [ctx : Versions, completed : SUBSET Reviewers, accepted : SUBSET Reviewers,
   working : SUBSET Reviewers, replayed : SUBSET Reviewers,
   outcome : [Reviewers -> Outcomes], queue : Seq(Reviewers)]
Types == TypeOK /\ run \in Memories

Queued == {run.queue[n] : n \in DOMAIN run.queue}
First == run.queue[1]
Public(r, i, t) ==
  \E n \in DOMAIN comments : /\ comments[n].reviewer = r
                             /\ comments[n].index = i
                             /\ comments[n].turn = t

-----------------------------------------------------------------------------
(* What outlives a run *)

(* Every body belongs to a turn that was run.                               *)
TurnsAreCounted ==
  \A n \in DOMAIN comments : comments[n].turn <= turns[comments[n].reviewer]

(* A fresh record has published nothing.                                    *)
FreshIsUnposted ==
  \A r \in Reviewers : spool[r].kind = "fresh" =>
    \A n \in DOMAIN comments :
      comments[n].reviewer = r => comments[n].turn # spool[r].turn

(* What a carrier has published was posted by the account it names.         *)
CarrierNamesActor ==
  \A r \in Reviewers : spool[r].kind = "carrier" =>
    \A n \in DOMAIN comments :
      comments[n].reviewer = r /\ comments[n].turn = spool[r].turn =>
        comments[n].actor = spool[r].actor

(* A sidecar without a review is that of a carrier, or of a record of an    *)
(* older version, as long as the spool and the comments are left alone.     *)
SidecarIsAccounted ==
  disturbed \cap {"spool", "comments"} = {} =>
    \A n \in DOMAIN comments : comments[n].index = Sidecar =>
      \/ HasAnchor(comments[n].reviewer)
      \/ spool[comments[n].reviewer].kind = "legacy"
      \/ /\ spool[comments[n].reviewer].kind = "carrier"
         /\ comments[n].turn = spool[comments[n].reviewer].turn

(* No record was made under requirements that are not surfaced yet.         *)
MadeIsPast == \A r \in Reviewers : HasResponse(r) => spool[r].made <= ctx

Durable ==
  /\ NoBodyTwice /\ AnchorsAreWhole /\ TurnsAreCounted /\ FreshIsUnposted
  /\ CarrierNamesActor /\ SidecarIsAccounted /\ MadeIsPast

-----------------------------------------------------------------------------
(* What a run knows *)

(* It works under requirements of now or of before, and what it took for    *)
(* published at its start is.                                               *)
Context ==
  /\ run.ctx <= ctx
  /\ Running => \A r \in Reviewers : HasResponse(r) => spool[r].made <= run.ctx
  /\ \A r \in run.completed : HasAnchor(r)

Phases ==
  /\ pc \in {"idle", "done"} => run = NoRun
  /\ pc \in {"gate", "suffix", "launch"} => InPreflight
  /\ pc \in {"suffix", "post", "reconcile", "remove"} => run.queue # <<>>
  /\ \A m, n \in DOMAIN run.queue : run.queue[m] = run.queue[n] => m = n
  /\ pc # "turns" => run.working = {}
  /\ run.working \cap run.replayed = {}

(* A carrier whose review is not public, and is the current account's.      *)
Unfinished(r) ==
  /\ spool[r].kind = "carrier" /\ spool[r].actor = actor
  /\ ~ Public(r, Anchor, spool[r].turn)

(* The queue holds carriers to finish, then responses to publish.           *)
QueueIsReady ==
  /\ pc = "suffix" => \A n \in DOMAIN run.queue : Unfinished(run.queue[n])
  /\ Writing /\ InPreflight =>
       \A n \in DOMAIN run.queue : n # 1 => Unfinished(run.queue[n])
  /\ Turning \/ Publishing =>
       \A n \in DOMAIN run.queue : run.outcome[run.queue[n]] = "response"
  /\ Turning => \A n \in DOMAIN run.queue :
       run.queue[n] \in run.replayed => HasResponse(run.queue[n])
  /\ Publishing => \A n \in DOMAIN run.queue : HasResponse(run.queue[n])

(* The body being written is the next one of a frozen review.               *)
WriteIsNext ==
  /\ Writing => /\ spool[First].kind = "carrier" /\ spool[First].actor = actor
                /\ post.index \in Bodies
                /\ post.index = Anchor => Public(First, Sidecar, spool[First].turn)
                /\ post.index = Sidecar => ~ Public(First, Anchor, spool[First].turn)
                /\ pc = "post" => /\ ~ Public(First, post.index, spool[First].turn)
                                  /\ post.tries < MaxAttempts
  /\ pc = "remove" => HasAnchor(First)

(* A record that the program may drop: it no longer validates, and nothing  *)
(* of it is public.                                                         *)
Stuck(r) ==
  /\ ~ Replayable(r) /\ spool[r].kind # "carrier"
  /\ spool[r].kind = "legacy" =>
       \A n \in DOMAIN comments : comments[n].reviewer = r => comments[n].index # Sidecar

(* A reviewer whose turn of this run is not stored yet.                     *)
Open(r) == r \in run.working \/ (run.outcome[r] # "none" /\ r \notin run.replayed)

(* Nothing is public of the turns of this run, and only a record that no    *)
(* longer validates is overwritten by one.                                  *)
TurnsAreOpen ==
  Turning => \A r \in Reviewers :
    /\ Open(r) => /\ turns[r] >= 1
                  /\ \A n \in DOMAIN comments :
                       comments[n].reviewer = r => comments[n].turn # turns[r]
                  /\ HasResponse(r) => Stuck(r)
    /\ run.outcome[r] = "response" => r \in Queued
    /\ r \in run.working => run.outcome[r] = "none"

(* Every response is waiting, published or of no use.                       *)
NothingIsForgotten ==
  Turning \/ Publishing => \A r \in Reviewers :
    HasResponse(r) => r \in Queued \/ HasAnchor(r) \/ Stuck(r)

AnchorsKnown ==
  \A n \in DOMAIN comments : comments[n].index = Anchor =>
    comments[n].reviewer \in run.completed

(* The record of this reviewer has published all of its review or nothing.  *)
Quiet(r) ==
  /\ spool[r].kind = "legacy" => LegacyClean(r)
  /\ spool[r].kind = "carrier" /\ Public(r, Sidecar, spool[r].turn) =>
       Public(r, Anchor, spool[r].turn)

(* A run that posts before its turns has no fresh turn to start; one that   *)
(* has knows every public review.                                           *)
PeersAreKnown ==
  /\ pc = "gate" => AnchorsKnown
  /\ Resuming => ~ NeedsFreshTurn
  /\ pc = "launch" =>
       ~ NeedsFreshTurn \/ (AnchorsKnown /\ \A r \in Reviewers : Quiet(r))
  /\ TurnsAreIndependent

RunInv ==
  /\ Context /\ Phases /\ QueueIsReady /\ WriteIsNext /\ TurnsAreOpen
  /\ NothingIsForgotten /\ PeersAreKnown

RoundInv == Types /\ Durable /\ RunInv

-----------------------------------------------------------------------------
(* Records and comments *)

(* The fields that a record of a kind has.                                  *)
LEMMA RecordFields ==
  ASSUME NEW e \in Records
  PROVE  /\ e.kind \in {"absent", "failure", "fresh", "legacy", "carrier"}
         /\ e.kind \in Responses => e.turn \in Nat /\ e.made \in Versions
         /\ e.kind = "carrier" => e.actor \in Actors /\ e.ctx \in Versions
BY DEF Records, Absent, Responses

(* What a comment is.                                                       *)
LEMMA CommentFields ==
  ASSUME Types, NEW n \in DOMAIN comments
  PROVE  /\ comments[n].reviewer \in Reviewers /\ comments[n].index \in {Sidecar, Anchor}
         /\ comments[n].turn \in Nat
<1>1. comments \in Seq(Bodied)
  BY DEF Types, TypeOK, Bodied
<1>2. comments[n] \in Bodied
  BY <1>1, ElementOfSeq, LenProperties
<1> QED BY <1>2 DEF Bodied, Bodies, Sidecar, Anchor

(* How often a body of one turn is public is a number of comments.          *)
LEMMA PostedCounts ==
  ASSUME comments \in Seq(Bodied), NEW r, NEW i, NEW t, NEW a
  PROVE  /\ Posted(r, i, t, a) \in Nat
         /\ Posted(r, i, t, a) = 0 <=>
              ~ \E n \in DOMAIN comments : /\ comments[n].reviewer = r
                                           /\ comments[n].index = i
                                           /\ comments[n].turn = t
                                           /\ comments[n].actor = a
<1> DEFINE S == {n \in DOMAIN comments : /\ comments[n].reviewer = r
                                         /\ comments[n].index = i
                                         /\ comments[n].turn = t
                                         /\ comments[n].actor = a}
<1>1. IsFiniteSet(DOMAIN comments)
  BY FS_Interval, LenProperties
<1>2. IsFiniteSet(S)
  BY <1>1, FS_Subset
<1>3. Cardinality(S) \in Nat /\ (Cardinality(S) = 0 <=> S = {})
  BY <1>2, FS_CardinalityType, FS_EmptySet
<1> QED BY <1>3 DEF Posted

(* When no body is public twice, it is public once or not at all.           *)
LEMMA PostedOnce ==
  ASSUME comments \in Seq(Bodied), NoBodyTwice, NEW r, NEW i, NEW t, NEW a,
         \A n \in DOMAIN comments :
           comments[n].reviewer = r /\ comments[n].turn = t => comments[n].actor = a
  PROVE  Posted(r, i, t, a) = IF Public(r, i, t) THEN 1 ELSE 0
<1> DEFINE S == {n \in DOMAIN comments : /\ comments[n].reviewer = r
                                         /\ comments[n].index = i
                                         /\ comments[n].turn = t
                                         /\ comments[n].actor = a}
<1>1. CASE ~ Public(r, i, t)
  BY <1>1, PostedCounts DEF Public
<1>2. CASE Public(r, i, t)
  <2>1. PICK n \in DOMAIN comments : /\ comments[n].reviewer = r
                                     /\ comments[n].index = i
                                     /\ comments[n].turn = t
    BY <1>2 DEF Public
  <2>2. S = {n}
    BY <2>1 DEF NoBodyTwice
  <2>3. Cardinality(S) = 1
    BY <2>2, FS_Singleton
  <2> QED BY <1>2, <2>3 DEF Posted
<1> QED BY <1>1, <1>2

(* How much of a carrier of the current account is public.                  *)
LEMMA CarrierStatus ==
  ASSUME Types, Durable, NEW r \in Reviewers,
         spool[r].kind = "carrier", spool[r].actor = actor
  PROVE  LET said(i) == Public(r, i, spool[r].turn)
         IN  Classified(r) = IF said(Anchor) THEN IF said(Sidecar) THEN 2 ELSE Refused
                             ELSE IF said(Sidecar) THEN 1 ELSE 0
<1>1. comments \in Seq(Bodied)
  BY DEF Types, TypeOK, Bodied
<1>2. \A n \in DOMAIN comments :
        comments[n].reviewer = r /\ comments[n].turn = spool[r].turn => comments[n].actor = actor
  BY DEF Durable, CarrierNamesActor
<1>3. \A i \in Bodies : Posted(r, i, spool[r].turn, actor)
                          = IF Public(r, i, spool[r].turn) THEN 1 ELSE 0
  BY <1>1, <1>2, PostedOnce DEF Durable
<1>4. Bodies = {Sidecar, Anchor} /\ Sidecar = 1 /\ Anchor = 2
  BY DEF Bodies, Sidecar, Anchor
<1> QED BY <1>3, <1>4 DEF Classified, Refused

-----------------------------------------------------------------------------
(* The queue *)

(* The reviewer at work is the first of the queue.                          *)
LEMMA QueueHead ==
  ASSUME run \in Memories, run.queue # <<>>
  PROVE  /\ run.queue \in Seq(Reviewers) /\ Len(run.queue) \in Nat \ {0}
         /\ DOMAIN run.queue = 1 .. Len(run.queue)
         /\ 1 \in DOMAIN run.queue /\ First \in Reviewers /\ Current = First
<1>1. run.queue \in Seq(Reviewers)
  BY DEF Memories
<1>2. Len(run.queue) \in Nat \ {0} /\ DOMAIN run.queue = 1 .. Len(run.queue)
  BY <1>1, EmptySeq, LenProperties
<1>3. run.queue[1] \in Reviewers
  BY <1>1, <1>2, ElementOfSeq
<1>4. Head(run.queue) = run.queue[1]
  BY <1>1, <1>2
<1> QED BY <1>1, <1>2, <1>3, <1>4 DEF Current, First

(* The tail of the queue is the queue without its first.                    *)
LEMMA QueueTail ==
  ASSUME run \in Memories, run.queue # <<>>
  PROVE  /\ Tail(run.queue) \in Seq(Reviewers)
         /\ \A n \in DOMAIN Tail(run.queue) :
              n + 1 \in DOMAIN run.queue /\ n \in Nat \ {0}
                /\ Tail(run.queue)[n] = run.queue[n + 1]
         /\ \A n \in DOMAIN run.queue :
              n # 1 => n - 1 \in DOMAIN Tail(run.queue)
                        /\ Tail(run.queue)[n - 1] = run.queue[n]
         /\ Len(run.queue) # 1 => Tail(run.queue) # <<>>
<1> DEFINE q == run.queue
           t == Tail(run.queue)
<1>1. q \in Seq(Reviewers) /\ Len(q) \in Nat \ {0} /\ DOMAIN q = 1 .. Len(q)
  BY QueueHead
<1>2. /\ t \in Seq(Reviewers) /\ Len(t) = Len(q) - 1
      /\ \A i \in 1 .. Len(t) : t[i] = q[i + 1]
  BY <1>1, HeadTailProperties
<1>3. DOMAIN t = 1 .. Len(t) /\ Len(t) \in Nat
  BY <1>2, LenProperties
<1>4. Len(q) # 1 => t # <<>>
  <2>1. t = <<>> => Len(t) = 0
    BY EmptySeq
  <2> QED BY <1>1, <1>2, <2>1
<1> HIDE DEF q, t
<1>5. \A n \in DOMAIN t : n + 1 \in DOMAIN q /\ n \in Nat \ {0} /\ t[n] = q[n + 1]
  BY <1>1, <1>2, <1>3
<1>6. \A n \in DOMAIN q : n # 1 => n - 1 \in DOMAIN t /\ t[n - 1] = q[n]
  BY <1>1, <1>2, <1>3
<1> QED BY <1>2, <1>4, <1>5, <1>6 DEF q, t

(* A queue in some order has each of its reviewers, once.                   *)
LEMMA OrderedQueue ==
  ASSUME ConstantsAreSound, NEW S \in SUBSET Reviewers, NEW s \in Ordered(S)
  PROVE  /\ s \in Seq(Reviewers)
         /\ \A n \in DOMAIN s : s[n] \in S
         /\ \A m, n \in DOMAIN s : s[m] = s[n] => m = n
         /\ \A r \in S : \E n \in DOMAIN s : s[n] = r
<1>1. IsFiniteSet(S) /\ Cardinality(S) \in Nat
  BY FS_Subset, FS_CardinalityType DEF ConstantsAreSound
<1> DEFINE c == Cardinality(S)
<1>2. s \in [1 .. c -> S] /\ \A i, j \in 1 .. c : i # j => s[i] # s[j]
  BY DEF Ordered, SetToSeqs
<1>3. s \in Seq(Reviewers)
  <2>1. s \in [1 .. c -> Reviewers]
    BY <1>2
  <2> QED BY <1>1, <2>1
<1>4. s \in Injection(1 .. c, S)
  BY <1>2 DEF Injection, IsInjective
<1>5. Cardinality(1 .. c) = c
  BY <1>1, FS_Interval
<1>6. s \in Surjection(1 .. c, S)
  BY <1>1, <1>4, <1>5, FS_Injection
<1> QED BY <1>2, <1>3, <1>6 DEF Surjection

-----------------------------------------------------------------------------
(* Steps that leave what outlives a run alone, and steps that end a run *)

(* Durable is about five variables.                                         *)
LEMMA DurableStays ==
  ASSUME Durable, UNCHANGED <<spool, comments, turns, ctx, disturbed>>
  PROVE  Durable'
<1>1. NoBodyTwice' /\ AnchorsAreWhole' /\ TurnsAreCounted'
  BY DEF Durable, NoBodyTwice, AnchorsAreWhole, TurnsAreCounted
<1>2. FreshIsUnposted' /\ CarrierNamesActor'
  BY DEF Durable, FreshIsUnposted, CarrierNamesActor
<1>3. SidecarIsAccounted' /\ MadeIsPast'
  BY DEF Durable, SidecarIsAccounted, MadeIsPast, HasAnchor, HasResponse
<1> QED BY <1>1, <1>2, <1>3 DEF Durable

(* The memory of no run has its type.                                       *)
LEMMA NoRunTyped ==
  NoRun \in Memories /\ NoPost \in [index : 0 .. Anchor, tries : {0}, baseline : BOOLEAN]
<1>1. <<>> \in Seq(Reviewers)
  BY EmptySeq
<1>2. [r \in Reviewers |-> "none"] \in [Reviewers -> Outcomes]
  BY DEF Outcomes
<1> QED BY <1>1, <1>2 DEF NoRun, Memories, Versions, NoPost, Anchor

(* Between two runs there is nothing to know.                               *)
LEMMA NoRunIsSound ==
  ctx \in Versions /\ run = NoRun /\ pc \in {"idle", "done"} => RunInv
<1> SUFFICES ASSUME ctx \in Versions, run = NoRun, pc \in {"idle", "done"}
             PROVE  RunInv
  OBVIOUS
<1>1. DOMAIN run.queue = {} /\ run.working = {} /\ run.completed = {} /\ run.ctx = 0
  BY DEF NoRun
<1>2. Context
  BY <1>1 DEF Context, Running, Versions
<1>3. Phases
  BY <1>1 DEF Phases
<1>4. QueueIsReady /\ WriteIsNext
  BY <1>1 DEF QueueIsReady, WriteIsNext, Writing, Turning, Publishing
<1>5. TurnsAreOpen /\ NothingIsForgotten
  BY DEF TurnsAreOpen, NothingIsForgotten, Turning, Publishing, Writing
<1>6. PeersAreKnown
  BY DEF PeersAreKnown, Resuming, Writing, TurnsAreIndependent
<1> QED BY <1>2, <1>3, <1>4, <1>5, <1>6 DEF RunInv

(* The same of the state after a step.                                      *)
LEMMA EndIsSound ==
  ASSUME ctx' \in Versions, run' = NoRun, pc' \in {"idle", "done"}
  PROVE  RunInv'
<1>1. (ctx \in Versions /\ run = NoRun /\ pc \in {"idle", "done"} => RunInv)'
  BY NoRunIsSound, PTL
<1> QED BY <1>1

(* A counted fault is within its bound.                                     *)
LEMMA FaultIsCounted ==
  ASSUME ConstantsAreSound, Types, Fault \/ UNCHANGED faults
  PROVE  faults' \in 0 .. MaxFaults
<1>1. faults \in 0 .. MaxFaults /\ MaxFaults \in Nat
  BY DEF Types, TypeOK, ConstantsAreSound
<1>2. CASE Fault
  BY <1>1, <1>2 DEF Fault
<1> QED BY <1>1, <1>2

(* A write starts with no attempt made.                                     *)
LEMMA WriteTyped ==
  ASSUME ConstantsAreSound, NEW i \in {1, 2}, NEW readable \in BOOLEAN
  PROVE  /\ Write(i, readable) \in Writes
         /\ Write(i, readable).index = i /\ Write(i, readable).tries = 0
<1>1. 0 \in 0 .. MaxAttempts /\ i \in 0 .. Anchor
  BY DEF ConstantsAreSound, Anchor
<1>2. [index |-> i, tries |-> 0, baseline |-> readable] \in Writes
  BY <1>1 DEF Writes
<1> QED BY <1>2 DEF Write

(* Types of a step that changes only the run's own variables.               *)
LEMMA RunIsTyped ==
  ASSUME Types, UNCHANGED <<spool, comments, turns, outside>>,
         pc' \in {"idle", "gate", "suffix", "launch", "turns", "store", "publish",
                  "post", "reconcile", "remove", "done"},
         run' \in Memories, run'.accepted \subseteq run'.completed,
         post' \in Writes, faults' \in 0 .. MaxFaults
  PROVE  Types'
<1>1. run'.ctx \in Versions /\ run'.outcome \in [Reviewers -> Outcomes]
  BY DEF Memories
<1>2. TypeOK'
  BY <1>1 DEF Types, TypeOK, HasResponse, Writes, outside
<1> QED BY <1>2 DEF Types, Memories

(* A run that ends keeps what outlives it.                                  *)
LEMMA StopIsSound ==
  ASSUME ConstantsAreSound, RoundInv, Stop, Fault \/ UNCHANGED faults,
         UNCHANGED <<spool, comments, turns, outside>>
  PROVE  RoundInv'
<1>1. run' \in Memories /\ post' \in Writes /\ run'.accepted \subseteq run'.completed
  BY NoRunTyped DEF Stop, Writes, NoRun, ConstantsAreSound
<1>2. Types'
  BY <1>1, FaultIsCounted, RunIsTyped DEF Stop, RoundInv
<1>3. RunInv'
  BY EndIsSound DEF Stop, RoundInv, Types, TypeOK, outside
<1> QED BY <1>2, <1>3, DurableStays DEF RoundInv, outside

(* So do a crash, and the errors that end a run and change nothing.         *)
LEMMA FailureStep ==
  ASSUME ConstantsAreSound, RoundInv,
         Crash \/ PreflightUnread \/ PrepareUnread \/ WriteRefused \/ ReconcileUnread
  PROVE  RoundInv'
BY StopIsSound DEF Crash, PreflightUnread, PrepareUnread, WriteRefused, ReconcileUnread, outside

-----------------------------------------------------------------------------
(* Writing a body *)

(* What the conversation gains, if anything, is the body being written.     *)
Gains(b) ==
  /\ comments' \in Seq(Bodied)
  /\ \A n \in DOMAIN comments : n \in DOMAIN comments' /\ comments'[n] = comments[n]
  /\ \A n \in DOMAIN comments' : n \in DOMAIN comments \/ comments'[n] = b

Writing1 == Body(First, post.index, spool[First].turn, actor, run.ctx)

(* The body being written is that of a carrier whose turn was run.          *)
LEMMA WritingTyped ==
  ASSUME RoundInv, Writing
  PROVE  /\ Writing1 \in Bodied /\ run.queue # <<>>
         /\ First \in Reviewers /\ spool[First].kind = "carrier"
         /\ spool[First].turn \in 1 .. turns[First]
         /\ spool[First].actor = actor /\ actor \in Actors
         /\ post.index \in Bodies
<1>1. run.queue # <<>> /\ run \in Memories
  BY DEF RoundInv, RunInv, Phases, Writing, Types
<1>2. First \in Reviewers
  BY <1>1, QueueHead
<1>3. spool[First].kind = "carrier" /\ spool[First].actor = actor /\ post.index \in Bodies
  BY DEF RoundInv, RunInv, WriteIsNext
<1>4. spool[First].turn \in 1 .. turns[First] /\ actor \in Actors /\ turns[First] \in Nat
  BY <1>2, <1>3 DEF RoundInv, Types, TypeOK, HasResponse, Responses
<1>5. run.ctx \in Versions
  BY <1>1 DEF Memories
<1>6. spool[First].turn \in Nat
  BY <1>4
<1> QED BY <1>1, <1>2, <1>3, <1>4, <1>5, <1>6 DEF Writing1, Body, Bodied

(* What is public stays public, and only the body being written is new.     *)
LEMMA GainsKeep ==
  ASSUME RoundInv, Writing, Gains(Writing1)
  PROVE  /\ \A r : HasAnchor(r) => HasAnchor(r)'
         /\ \A r, i, t : Public(r, i, t) => Public(r, i, t)'
         /\ \A r, i, t : Public(r, i, t)' =>
              Public(r, i, t) \/ (r = First /\ i = post.index)
         /\ \A n \in DOMAIN comments' :
              (n \in DOMAIN comments /\ comments'[n] = comments[n]) \/ comments'[n].reviewer = First
<1>1. Writing1.reviewer = First /\ Writing1.index = post.index
  BY DEF Writing1, Body
<1>2. \A n \in DOMAIN comments : n \in DOMAIN comments' /\ comments'[n] = comments[n]
  BY DEF Gains
<1>3. \A n \in DOMAIN comments' :
        \/ n \in DOMAIN comments /\ comments'[n] = comments[n]
        \/ comments'[n].reviewer = First /\ comments'[n].index = post.index
  BY <1>1, <1>2 DEF Gains
<1>4. \A r : HasAnchor(r) => HasAnchor(r)'
  BY <1>2 DEF HasAnchor
<1>5. \A r, i, t : Public(r, i, t) => Public(r, i, t)'
  BY <1>2 DEF Public
<1>6. \A r, i, t : Public(r, i, t)' => Public(r, i, t) \/ (r = First /\ i = post.index)
  BY <1>3 DEF Public
<1> QED BY <1>3, <1>4, <1>5, <1>6

(* While its review is being written, a run keeps what it knows.            *)
LEMMA WritingGoesOn ==
  ASSUME RoundInv, Writing, Gains(Writing1), Durable', WriteIsNext',
         UNCHANGED <<spool, turns, run, outside>>,
         pc' \in {"post", "reconcile"} \/ (pc' = "remove" /\ ~ InPreflight),
         post' \in Writes, faults' \in 0 .. MaxFaults
  PROVE  RoundInv'
<1>1. First \in Reviewers /\ spool[First].kind = "carrier" /\ run.queue # <<>>
      /\ run \in Memories
  BY WritingTyped DEF RoundInv, Types
<1>2. /\ \A r : HasAnchor(r) => HasAnchor(r)'
      /\ \A r, i, t : Public(r, i, t)' =>
              Public(r, i, t) \/ (r = First /\ i = post.index)
      /\ \A n \in DOMAIN comments' :
           (n \in DOMAIN comments /\ comments'[n] = comments[n]) \/ comments'[n].reviewer = First
  BY GainsKeep
<1>3. Types'
  <2>1. TypeOK'
    BY DEF RoundInv, Types, TypeOK, HasResponse, Writes, outside, Gains, Bodied
  <2> QED BY <2>1 DEF RoundInv, Types, Memories
<1>4. Running /\ Running'
  BY DEF Running, Writing
<1>5. Context'
  BY <1>2, <1>4 DEF RoundInv, RunInv, Context, HasResponse, outside
<1>6. Phases'
  BY <1>1 DEF RoundInv, RunInv, Phases, InPreflight, Writing
<1>7. QueueIsReady'
  <2>1. InPreflight' <=> InPreflight
    BY DEF InPreflight
  <2>2. ~ Turning' /\ ~ Turning
    BY DEF Turning, Writing
  <2>3. Publishing' <=> Publishing
    BY <2>1 DEF Publishing, Writing
  <2>4. \A n \in DOMAIN run.queue : Writing' /\ InPreflight' /\ n # 1 => Unfinished(run.queue[n])'
    <3> SUFFICES ASSUME InPreflight, NEW n \in DOMAIN run.queue, n # 1
                 PROVE  Unfinished(run.queue[n])'
      BY <2>1
    <3>1. run.queue[n] # First
      BY <1>1, QueueHead DEF First, RoundInv, RunInv, Phases
    <3>2. Unfinished(run.queue[n])
      BY DEF RoundInv, RunInv, QueueIsReady
    <3> QED BY <3>1, <3>2, <1>2 DEF Unfinished, outside
  <2> QED BY <2>2, <2>3, <2>4 DEF RoundInv, RunInv, QueueIsReady, HasResponse
<1>8. TurnsAreOpen'
  BY DEF TurnsAreOpen, Turning
<1>9. NothingIsForgotten'
  <2> SUFFICES ASSUME Publishing', NEW r \in Reviewers, HasResponse(r)
               PROVE  r \in Queued \/ HasAnchor(r)' \/ Stuck(r)'
    BY DEF NothingIsForgotten, Turning, Queued, HasResponse
  <2>1. Publishing
    BY DEF Publishing, Writing, InPreflight
  <2>2. Stuck(r) => Stuck(r)'
    <3>1. Replayable(r)' <=> Replayable(r)
      BY DEF Replayable, HasResponse, outside
    <3> QED BY <3>1, <1>1, <1>2 DEF Stuck
  <2> QED BY <2>1, <2>2, <1>2 DEF RoundInv, RunInv, NothingIsForgotten
<1>10. PeersAreKnown'
  <2>1. NeedsFreshTurn' <=> NeedsFreshTurn
    BY DEF NeedsFreshTurn, Replayable, HasResponse, outside
  <2>2. Resuming' => Resuming
    BY DEF Resuming, Writing, InPreflight
  <2> QED BY <2>1, <2>2 DEF RoundInv, RunInv, PeersAreKnown, TurnsAreIndependent
<1> QED BY <1>3, <1>5, <1>6, <1>7, <1>8, <1>9, <1>10 DEF RoundInv, RunInv

(* The preflight takes a review it has finished off its queue.              *)
LEMMA SuffixDone ==
  ASSUME RoundInv, Writing, InPreflight, Gains(Writing1), Durable',
         UNCHANGED <<spool, turns, outside>>,
         run' = [run EXCEPT !.queue = Tail(@)],
         pc' = IF Len(run.queue) = 1 THEN "launch" ELSE "suffix",
         post' \in Writes, faults' \in 0 .. MaxFaults
  PROVE  RoundInv'
<1>1. First \in Reviewers /\ run.queue # <<>> /\ run \in Memories
  BY WritingTyped DEF RoundInv, Types
<1>2. /\ \A r : HasAnchor(r) => HasAnchor(r)'
      /\ \A r, i, t : Public(r, i, t)' =>
              Public(r, i, t) \/ (r = First /\ i = post.index)
  BY GainsKeep
<1>3. /\ run' \in Memories /\ run'.queue = Tail(run.queue) /\ run'.ctx = run.ctx
      /\ run'.completed = run.completed /\ run'.accepted = run.accepted
      /\ run'.working = run.working /\ run'.outcome = run.outcome
      /\ run'.replayed = run.replayed
  BY <1>1, QueueTail DEF Memories
<1>t. PICK t : t = Tail(run.queue)
  OBVIOUS
<1>4. /\ \A n \in DOMAIN t : n + 1 \in DOMAIN run.queue /\ n \in Nat \ {0}
                              /\ t[n] = run.queue[n + 1]
      /\ Len(run.queue) # 1 => t # <<>>
  BY <1>1, <1>t, QueueTail
<1>5. Types'
  <2>1. run'.accepted \subseteq run'.completed
    BY <1>3 DEF RoundInv, Types, TypeOK
  <2>2. run'.ctx \in Versions /\ run'.outcome \in [Reviewers -> Outcomes]
    BY <1>3 DEF Memories
  <2>3. pc' \in {"launch", "suffix"}
    OBVIOUS
  <2>4. TypeOK'
    BY <2>1, <2>2, <2>3 DEF RoundInv, Types, TypeOK, HasResponse, Writes, outside, Gains, Bodied
  <2> QED BY <1>3, <2>4 DEF Types, Memories
<1>6. pc' \in {"launch", "suffix"} /\ (pc' = "suffix" => t # <<>>) /\ Running /\ InPreflight'
  BY <1>3, <1>4 DEF Running, Writing, InPreflight, NoRun
<1>7. Context'
  BY <1>2, <1>3, <1>6 DEF RoundInv, RunInv, Context, HasResponse, outside
<1>8. Phases'
  <2>1. \A m, n \in DOMAIN t : t[m] = t[n] => m = n
    <3> SUFFICES ASSUME NEW m \in DOMAIN t, NEW n \in DOMAIN t, t[m] = t[n]
                 PROVE  m = n
      OBVIOUS
    <3>1. m + 1 = n + 1 /\ m \in Nat /\ n \in Nat
      BY <1>4 DEF RoundInv, RunInv, Phases
    <3> QED BY <3>1
  <2>2. run'.working = {}
    BY <1>3 DEF InPreflight
  <2> QED BY <1>3, <1>t, <1>6, <2>1, <2>2 DEF Phases
<1>9. QueueIsReady'
  <2>1. \A n \in DOMAIN t : Unfinished(t[n])'
    <3> SUFFICES ASSUME NEW n \in DOMAIN t
                 PROVE  Unfinished(t[n])'
      OBVIOUS
    <3> DEFINE k == n + 1
    <3>1. k \in DOMAIN run.queue /\ k # 1 /\ t[n] = run.queue[k]
      BY <1>4
    <3> HIDE DEF k
    <3>2. PICK r : r = t[n]
      OBVIOUS
    <3>3. r # First /\ Unfinished(r)
      BY <3>1, <3>2, <1>1, QueueHead DEF First, RoundInv, RunInv, Phases, QueueIsReady
    <3>4. Unfinished(r)'
      BY <3>3, <1>2 DEF Unfinished, outside
    <3> QED BY <3>2, <3>4
  <2> QED BY <2>1, <1>3, <1>t, <1>6 DEF QueueIsReady, Turning, Publishing, Writing
<1>10. WriteIsNext' /\ TurnsAreOpen' /\ NothingIsForgotten'
  BY <1>6 DEF WriteIsNext, TurnsAreOpen, NothingIsForgotten, Writing, Turning, Publishing
<1>11. PeersAreKnown'
  <2>1. NeedsFreshTurn' <=> NeedsFreshTurn
    BY <1>3 DEF NeedsFreshTurn, Replayable, HasResponse, outside
  <2>2. ~ NeedsFreshTurn
    BY DEF RoundInv, RunInv, PeersAreKnown, Resuming
  <2> QED BY <1>6, <2>1, <2>2 DEF PeersAreKnown, TurnsAreIndependent
<1> QED BY <1>5, <1>7, <1>8, <1>9, <1>10, <1>11 DEF RoundInv, RunInv

(* Once a body is public, the next one of its review is written, or the     *)
(* review is done.                                                          *)
LEMMA BodyPostedIsSound ==
  ASSUME ConstantsAreSound, RoundInv, Writing, Gains(Writing1), Durable',
         \E n \in DOMAIN comments' :
           /\ comments'[n].reviewer = First
           /\ comments'[n].index = post.index
           /\ comments'[n].turn = spool[First].turn,
         BodyPosted,
         UNCHANGED <<spool, turns, outside>>
  PROVE  RoundInv'
<1>1. /\ First \in Reviewers /\ spool[First].kind = "carrier" /\ spool[First].actor = actor
      /\ post.index \in Bodies
  BY WritingTyped
<1>2. Sidecar = 1 /\ Anchor = 2 /\ LastBody = 2 /\ post.index \in {1, 2}
  BY <1>1 DEF Bodies, Sidecar, Anchor, LastBody
<1>3. \A r, i, t : Public(r, i, t)' => Public(r, i, t) \/ (r = First /\ i = post.index)
  BY GainsKeep
<1>f. PICK f, t : f = First /\ t = spool[First].turn
  OBVIOUS
<1>4. CASE post.index = 1
  <2>1. PICK readable \in BOOLEAN : post' = Write(2, readable) /\ (Fault \/ UNCHANGED faults)
    BY <1>2, <1>4 DEF BodyPosted
  <2>2. pc' = "post" /\ UNCHANGED run
    BY <1>2, <1>4 DEF BodyPosted
  <2>3. post' \in Writes /\ post'.index = 2 /\ post'.tries = 0
    BY <2>1, WriteTyped
  <2>f. faults' \in 0 .. MaxFaults
    BY <2>1, FaultIsCounted DEF RoundInv
  <2>4. ~ Public(f, Anchor, t)'
    BY <1>2, <1>3, <1>4, <1>f DEF RoundInv, RunInv, WriteIsNext
  <2>p. Public(f, Sidecar, t)'
    BY <1>2, <1>4, <1>f DEF Public
  <2>g. First' = f /\ spool'[First'].turn = t
    BY <1>f, <2>2 DEF First
  <2>5. WriteIsNext'
    BY <1>1, <1>2, <1>f, <2>2, <2>3, <2>4, <2>p, <2>g DEF WriteIsNext, outside, Bodies, ConstantsAreSound
  <2> QED BY <2>2, <2>3, <2>f, <2>5, WritingGoesOn
<1>5. CASE post.index = 2
  <2>1. post' = NoPost /\ UNCHANGED faults
    BY <1>2, <1>5 DEF BodyPosted
  <2>2. post' \in Writes /\ faults' \in 0 .. MaxFaults
    BY <2>1, NoRunTyped, FaultIsCounted DEF Writes, ConstantsAreSound, RoundInv
  <2>3. CASE InPreflight
    BY <2>2, <2>3, <1>2, <1>5, SuffixDone DEF BodyPosted
  <2>4. CASE ~ InPreflight
    <3>1. pc' = "remove" /\ UNCHANGED run
      BY <2>4, <1>2, <1>5 DEF BodyPosted
    <3>2. HasAnchor(f)' /\ First' = f
      BY <1>2, <1>5, <1>f, <3>1 DEF HasAnchor, First
    <3>3. WriteIsNext'
      BY <3>1, <3>2 DEF WriteIsNext, Writing
    <3> QED BY <3>1, <3>3, <2>2, <2>4, WritingGoesOn
  <2> QED BY <2>3, <2>4
<1> QED BY <1>2, <1>4, <1>5

(* A body that was not public is written after all the others.              *)
LEMMA AppendKeeps ==
  ASSUME RoundInv, pc = "post", comments' = Appended,
         UNCHANGED <<spool, turns, ctx, disturbed>>
  PROVE  /\ Gains(Writing1) /\ Durable'
         /\ \E n \in DOMAIN comments' : comments'[n] = Writing1
<1> DEFINE f == First
           t == spool[First].turn
           i == post.index
           b == Writing1
           N == Len(comments)
<1>1. /\ b \in Bodied /\ f \in Reviewers /\ spool[f].kind = "carrier"
      /\ t \in 1 .. turns[f] /\ spool[f].actor = actor /\ i \in Bodies
      /\ run.queue # <<>> /\ t = spool[f].turn
  BY WritingTyped DEF Writing
<1>2. /\ ~ Public(f, i, t)
      /\ i = Anchor => Public(f, Sidecar, t)
  BY DEF RoundInv, RunInv, WriteIsNext, Writing
<1>3. b.reviewer = f /\ b.turn = t /\ b.actor = actor /\ b.index = i
  BY DEF Writing1, Body
<1>4. comments' = Append(comments, b)
  BY <1>1, QueueHead DEF Appended, Writing1, RoundInv, Types
<1>5. comments \in Seq(Bodied) /\ turns \in [Reviewers -> Nat]
  BY DEF RoundInv, Types, TypeOK, Bodied
<1> HIDE DEF f, t, i, b
<1>6. /\ comments' \in Seq(Bodied) /\ N \in Nat
      /\ DOMAIN comments = 1 .. N /\ DOMAIN comments' = 1 .. N + 1
      /\ \A n \in 1 .. N : comments'[n] = comments[n]
      /\ comments'[N + 1] = b
  BY <1>1, <1>4, <1>5, AppendProperties, LenProperties
<1> HIDE DEF N
<1>7. N + 1 \in 1 .. N + 1 /\ \A n \in 1 .. N + 1 : n \in 1 .. N \/ n = N + 1
  BY <1>6
<1>8. \A n \in 1 .. N : n \in 1 .. N + 1
  BY <1>6
<1>9. Gains(b) /\ \E n \in DOMAIN comments' : comments'[n] = b
  BY <1>6, <1>7, <1>8 DEF Gains
<1>10. NoBodyTwice'
  <2>1. \A n \in 1 .. N : ~ (comments[n].reviewer = f /\ comments[n].index = i /\ comments[n].turn = t)
    BY <1>2, <1>6 DEF Public
  <2>2. \A m, n \in 1 .. N : /\ comments[m].reviewer = comments[n].reviewer
                            /\ comments[m].index = comments[n].index
                            /\ comments[m].turn = comments[n].turn
                            => m = n
    BY <1>6 DEF RoundInv, Durable, NoBodyTwice
  <2> QED BY <2>1, <2>2, <1>3, <1>6, <1>7 DEF NoBodyTwice
<1>11. AnchorsAreWhole'
  <2> SUFFICES ASSUME "comments" \notin disturbed, NEW n \in 1 .. N + 1,
                      comments'[n].index = Anchor
               PROVE  \E m \in 1 .. n : /\ comments'[m].reviewer = comments'[n].reviewer
                                        /\ comments'[m].turn = comments'[n].turn
                                        /\ comments'[m].index = Sidecar
    BY <1>6 DEF AnchorsAreWhole
  <2>1. CASE n \in 1 .. N
    <3>1. PICK m \in 1 .. n : /\ comments[m].reviewer = comments[n].reviewer
                             /\ comments[m].turn = comments[n].turn
                             /\ comments[m].index = Sidecar
      BY <2>1, <1>6 DEF RoundInv, Durable, AnchorsAreWhole
    <3>2. m \in 1 .. N
      BY <2>1, <1>6
    <3> QED BY <3>1, <3>2, <2>1, <1>6
  <2>2. CASE n = N + 1
    <3>1. PICK m \in 1 .. N : /\ comments[m].reviewer = f
                             /\ comments[m].turn = t
                             /\ comments[m].index = Sidecar
      BY <2>2, <1>2, <1>3, <1>6 DEF Public
    <3>2. m \in 1 .. n
      BY <2>2, <1>6
    <3> QED BY <3>1, <3>2, <2>2, <1>3, <1>6
  <2> QED BY <2>1, <2>2, <1>7
<1>12. TurnsAreCounted'
  BY <1>1, <1>3, <1>5, <1>6, <1>7 DEF RoundInv, Durable, TurnsAreCounted
<1>13. FreshIsUnposted' /\ CarrierNamesActor'
  <2>1. FreshIsUnposted'
    BY <1>1, <1>3, <1>6, <1>7 DEF RoundInv, Durable, FreshIsUnposted
  <2>2. CarrierNamesActor'
    BY <1>1, <1>3, <1>6, <1>7 DEF RoundInv, Durable, CarrierNamesActor
  <2> QED BY <2>1, <2>2
<1>14. SidecarIsAccounted'
  <2> SUFFICES ASSUME disturbed \cap {"spool", "comments"} = {}, NEW n \in 1 .. N + 1,
                      comments'[n].index = Sidecar, NEW r, r = comments'[n].reviewer
               PROVE  \/ HasAnchor(r)'
                      \/ spool[r].kind = "legacy"
                      \/ spool[r].kind = "carrier" /\ comments'[n].turn = spool[r].turn
    BY <1>6 DEF SidecarIsAccounted, HasAnchor
  <2>1. HasAnchor(r) => HasAnchor(r)'
    BY <1>6, <1>8 DEF HasAnchor
  <2>2. CASE n \in 1 .. N
    BY <2>1, <2>2, <1>6 DEF RoundInv, Durable, SidecarIsAccounted
  <2>3. CASE n = N + 1
    BY <2>3, <1>1, <1>3, <1>6
  <2> QED BY <2>2, <2>3, <1>7
<1>15. MadeIsPast'
  BY DEF RoundInv, Durable, MadeIsPast, HasResponse
<1> QED BY <1>9, <1>10, <1>11, <1>12, <1>13, <1>14, <1>15 DEF Durable, b

(* Nothing is gained by a step that writes nothing.                         *)
LEMMA NothingGained ==
  ASSUME RoundInv, UNCHANGED comments, NEW b
  PROVE  Gains(b)
<1>1. comments \in Seq(Bodied)
  BY DEF RoundInv, Types, TypeOK, Bodied
<1> QED BY <1>1 DEF Gains

(* The write succeeds.                                                      *)
LEMMA WriteAnsweredStep ==
  ASSUME ConstantsAreSound, RoundInv, WriteAnswered
  PROVE  RoundInv'
<1>1. Writing /\ pc = "post" /\ UNCHANGED <<spool, turns, outside>> /\ BodyPosted
  BY DEF WriteAnswered, Writing
<1>2. Gains(Writing1) /\ Durable' /\ \E n \in DOMAIN comments' : comments'[n] = Writing1
  BY <1>1, AppendKeeps DEF WriteAnswered, outside
<1>3. Writing1.reviewer = First /\ Writing1.index = post.index /\ Writing1.turn = spool[First].turn
  BY DEF Writing1, Body
<1>4. \E n \in DOMAIN comments' : /\ comments'[n].reviewer = First
                                 /\ comments'[n].index = post.index
                                 /\ comments'[n].turn = spool[First].turn
  BY <1>2, <1>3
<1> QED BY <1>1, <1>2, <1>4, BodyPostedIsSound

(* The write fails transiently, applied or not.                             *)
LEMMA WriteUnansweredStep ==
  ASSUME ConstantsAreSound, RoundInv, WriteUnanswered
  PROVE  RoundInv'
<1>1. /\ Writing /\ pc = "post" /\ UNCHANGED <<spool, turns, outside>>
      /\ faults' \in 0 .. MaxFaults
      /\ comments' = comments \/ comments' = Appended
  BY FaultIsCounted DEF WriteUnanswered, Writing, RoundInv
<1>2. Gains(Writing1) /\ Durable'
  <2>1. CASE comments' = comments
    BY <1>1, <2>1, NothingGained, DurableStays DEF RoundInv, outside
  <2>2. CASE comments' = Appended
    BY <1>1, <2>2, AppendKeeps DEF outside
  <2> QED BY <1>1, <2>1, <2>2
<1>3. CASE post.baseline
  <2>1. /\ pc' = "reconcile" /\ UNCHANGED run
        /\ post' = [post EXCEPT !.tries = @ + 1]
    BY <1>3 DEF WriteUnanswered
  <2>2. post \in Writes /\ post.tries < MaxAttempts /\ MaxAttempts \in Nat
    BY <1>1 DEF RoundInv, Types, TypeOK, Writes, RunInv, WriteIsNext, ConstantsAreSound
  <2>3. post' \in Writes /\ post'.index = post.index
    <3>1. post.tries \in 0 .. MaxAttempts
      BY <2>2 DEF Writes
    <3>2. post.tries + 1 \in 0 .. MaxAttempts
      BY <2>2, <3>1
    <3> QED BY <2>1, <2>2, <3>2 DEF Writes
  <2>4. WriteIsNext'
    <3>1. PICK f, t : f = First /\ t = spool[First].turn
      OBVIOUS
    <3>2. First' = f /\ spool'[f] = spool[f] /\ actor' = actor
      BY <1>1, <2>1, <3>1 DEF First, outside
    <3>3. /\ spool[f].kind = "carrier" /\ spool[f].actor = actor /\ post.index \in Bodies
          /\ post.index = Anchor => Public(f, Sidecar, t)
          /\ post.index = Sidecar => ~ Public(f, Anchor, t)
      BY <1>1, <3>1 DEF RoundInv, RunInv, WriteIsNext
    <3>4. /\ Public(f, Sidecar, t) => Public(f, Sidecar, t)'
          /\ Public(f, Anchor, t)' => Public(f, Anchor, t) \/ post.index = Anchor
      BY <1>1, <1>2, GainsKeep
    <3>5. Sidecar # Anchor
      BY DEF Sidecar, Anchor
    <3> QED BY <2>1, <2>3, <3>1, <3>2, <3>3, <3>4, <3>5 DEF WriteIsNext
  <2> QED BY <1>1, <1>2, <2>1, <2>3, <2>4, WritingGoesOn
<1>4. CASE ~ post.baseline
  <2>1. Stop
    BY <1>4 DEF WriteUnanswered
  <2>2. run' \in Memories /\ post' \in Writes /\ run'.accepted \subseteq run'.completed
        /\ run'.ctx \in Versions /\ run'.outcome \in [Reviewers -> Outcomes]
    BY <2>1, NoRunTyped DEF Stop, Writes, NoRun, ConstantsAreSound, Memories
  <2>3. TypeOK'
    BY <1>1, <1>2, <2>1, <2>2
       DEF RoundInv, Types, TypeOK, HasResponse, Writes, outside, Gains, Bodied, Stop
  <2>4. RunInv'
    BY <1>1, <2>1, EndIsSound DEF Stop, RoundInv, Types, TypeOK, outside
  <2> QED BY <1>2, <2>2, <2>3, <2>4 DEF RoundInv, Types, Memories
<1> QED BY <1>3, <1>4

(* The listing after a failed write says whether it was applied.            *)
LEMMA ReconcileStep ==
  ASSUME ConstantsAreSound, RoundInv, Reconcile
  PROVE  RoundInv'
<1>1. Writing /\ pc = "reconcile" /\ UNCHANGED <<spool, comments, turns, outside>>
  BY DEF Reconcile, Writing
<1>2. Gains(Writing1) /\ Durable'
  BY <1>1, NothingGained, DurableStays DEF RoundInv, outside
<1>3. Landed = IF Public(First, post.index, spool[First].turn) THEN 1 ELSE 0
  <2>1. /\ First \in Reviewers /\ spool[First].kind = "carrier"
        /\ spool[First].actor = actor /\ run.queue # <<>>
    BY <1>1, WritingTyped
  <2>2. \A n \in DOMAIN comments :
          comments[n].reviewer = First /\ comments[n].turn = spool[First].turn =>
            comments[n].actor = actor
    BY <2>1 DEF RoundInv, Durable, CarrierNamesActor
  <2>3. comments \in Seq(Bodied) /\ NoBodyTwice /\ Current = First
    BY <2>1, QueueHead DEF RoundInv, Types, TypeOK, Bodied, Durable
  <2> QED BY <2>2, <2>3, PostedOnce DEF Landed
<1>4. CASE Landed = 1 /\ BodyPosted
  <2>1. \E n \in DOMAIN comments' : /\ comments'[n].reviewer = First
                                   /\ comments'[n].index = post.index
                                   /\ comments'[n].turn = spool[First].turn
    BY <1>1, <1>3, <1>4 DEF Public
  <2> QED BY <1>1, <1>2, <1>4, <2>1, BodyPostedIsSound
<1>5. CASE Landed = 0 /\ post.tries < MaxAttempts /\ pc' = "post" /\ UNCHANGED <<run, post, faults>>
  <2>1. ~ Public(First, post.index, spool[First].turn)
    BY <1>3, <1>5
  <2>2. WriteIsNext'
    BY <1>1, <1>5, <2>1 DEF RoundInv, RunInv, WriteIsNext, Writing, First, Public, outside
  <2>3. post' \in Writes /\ faults' \in 0 .. MaxFaults
    BY <1>5 DEF RoundInv, Types, TypeOK, Writes
  <2> QED BY <1>1, <1>2, <1>5, <2>2, <2>3, WritingGoesOn
<1>6. CASE Stop /\ UNCHANGED faults
  BY <1>1, <1>6, StopIsSound
<1> QED BY <1>4, <1>5, <1>6 DEF Reconcile

(* The next body of a carrier is the one after those that are public.       *)
LEMMA NextBody ==
  ASSUME ConstantsAreSound, Types, Durable, NEW r \in Reviewers,
         spool[r].kind = "carrier", spool[r].actor = actor, Classified(r) \in {0, 1},
         NEW readable \in BOOLEAN
  PROVE  LET w == Write(Classified(r) + 1, readable)
         IN  /\ w \in Writes /\ w.index \in Bodies /\ w.tries < MaxAttempts
             /\ w.index = Anchor => Public(r, Sidecar, spool[r].turn)
             /\ ~ Public(r, Anchor, spool[r].turn)
             /\ ~ Public(r, w.index, spool[r].turn)
<1>1. Classified(r) = IF Public(r, Anchor, spool[r].turn)
                      THEN IF Public(r, Sidecar, spool[r].turn) THEN 2 ELSE 3
                      ELSE IF Public(r, Sidecar, spool[r].turn) THEN 1 ELSE 0
  BY CarrierStatus DEF Refused
<1>2. /\ ~ Public(r, Anchor, spool[r].turn)
      /\ Classified(r) = 0 => ~ Public(r, Sidecar, spool[r].turn)
      /\ Classified(r) = 1 => Public(r, Sidecar, spool[r].turn)
  BY <1>1
<1>3. Sidecar = 1 /\ Anchor = 2 /\ Bodies = {1, 2} /\ MaxAttempts \in Nat \ {0}
  BY DEF Sidecar, Anchor, Bodies, ConstantsAreSound
<1>4. CASE Classified(r) = 0
  <2>1. Classified(r) + 1 = 1
    BY <1>4
  <2> QED BY <2>1, <1>2, <1>3, <1>4, WriteTyped
<1>5. CASE Classified(r) = 1
  <2>1. Classified(r) + 1 = 2
    BY <1>5
  <2> QED BY <2>1, <1>2, <1>3, <1>5, WriteTyped
<1> QED BY <1>4, <1>5

(* The preflight writes the next body of an unfinished review.              *)
LEMMA PostSuffixStep ==
  ASSUME ConstantsAreSound, RoundInv, PostSuffix
  PROVE  RoundInv'
<1>1. /\ pc = "suffix" /\ pc' = "post" /\ UNCHANGED <<spool, comments, turns, run, outside>>
  BY DEF PostSuffix
<1>2. run.queue # <<>> /\ run \in Memories /\ InPreflight
  BY <1>1 DEF RoundInv, RunInv, Phases, Types
<1>3. First \in Reviewers /\ Current = First /\ 1 \in DOMAIN run.queue
  BY <1>2, QueueHead
<1>4. Unfinished(First)
  BY <1>1, <1>3 DEF RoundInv, RunInv, QueueIsReady, First
<1>5. Classified(First) \in {0, 1}
  BY <1>3, <1>4, CarrierStatus DEF RoundInv, Unfinished
<1>6. PICK readable \in BOOLEAN : /\ post' = Write(Classified(First) + 1, readable)
                                 /\ (Fault \/ UNCHANGED faults)
  BY <1>3 DEF PostSuffix
<1>7. /\ post' \in Writes /\ post'.index \in Bodies /\ post'.tries < MaxAttempts
      /\ post'.index = Anchor => Public(First, Sidecar, spool[First].turn)
      /\ ~ Public(First, Anchor, spool[First].turn)
      /\ ~ Public(First, post'.index, spool[First].turn)
  BY <1>3, <1>4, <1>5, <1>6, NextBody DEF RoundInv, Unfinished
<1>8. faults' \in 0 .. MaxFaults
  BY <1>6, FaultIsCounted DEF RoundInv
<1>9. Types'
  BY <1>1, <1>2, <1>7, <1>8, RunIsTyped DEF RoundInv, Types, TypeOK
<1>10. Running' /\ Running /\ InPreflight' /\ Writing'
  BY <1>1, <1>2 DEF Running, InPreflight, Writing
<1>11. Context' /\ Phases'
  BY <1>1, <1>2, <1>10 DEF RoundInv, RunInv, Context, Phases, HasAnchor, HasResponse, outside
<1>12. QueueIsReady'
  BY <1>1, <1>10 DEF RoundInv, RunInv, QueueIsReady, Turning, Publishing, Unfinished, Public, outside
<1>13. WriteIsNext'
  <2>1. PICK f, t : f = First /\ t = spool[First].turn
    OBVIOUS
  <2>2. First' = f /\ spool'[f] = spool[f] /\ actor' = actor
    BY <1>1, <2>1 DEF First, outside
  <2>3. \A i : Public(f, i, t)' <=> Public(f, i, t)
    BY <1>1 DEF Public
  <2> QED BY <1>1, <1>4, <1>7, <2>1, <2>2, <2>3 DEF WriteIsNext, Unfinished, ConstantsAreSound
<1>14. TurnsAreOpen' /\ NothingIsForgotten'
  BY <1>1, <1>10 DEF TurnsAreOpen, NothingIsForgotten, Turning, Publishing
<1>15. PeersAreKnown'
  <2>1. NeedsFreshTurn' <=> NeedsFreshTurn
    BY <1>1 DEF NeedsFreshTurn, Replayable, HasResponse, outside
  <2> QED BY <1>1, <2>1 DEF RoundInv, RunInv, PeersAreKnown, Resuming, TurnsAreIndependent
<1> QED BY <1>1, <1>9, <1>11, <1>12, <1>13, <1>14, <1>15, DurableStays DEF RoundInv, RunInv, outside

(* Freezing a response changes what kind of record holds it, and nothing of *)
(* a response that is frozen now is public.                                 *)
LEMMA FreezeKeeps ==
  ASSUME RoundInv, NEW f \in Reviewers, HasResponse(f),
         spool[f].kind = "carrier" => spool[f].actor = actor,
         spool[f].kind = "legacy" => LegacyClean(f),
         spool' = [spool EXCEPT ![f] = Frozen(f)],
         UNCHANGED <<comments, turns, outside>>
  PROVE  /\ Durable' /\ spool' \in [Reviewers -> Records]
         /\ \A r \in Reviewers : r # f => spool'[r] = spool[r]
         /\ spool'[f].kind = "carrier" /\ spool'[f].actor = actor
         /\ spool'[f].turn = spool[f].turn /\ spool'[f].made = spool[f].made
         /\ spool[f].kind = "carrier" => spool'[f] = spool[f]
         /\ spool[f].kind # "carrier" =>
              \A n \in DOMAIN comments :
                comments[n].reviewer = f => comments[n].turn # spool[f].turn
<1>1. spool \in [Reviewers -> Records] /\ actor \in Actors /\ run.ctx \in Versions
  BY DEF RoundInv, Types, TypeOK
<1>2. spool[f].turn \in Nat /\ spool[f].made \in Versions
      /\ spool[f].kind \in {"fresh", "legacy", "carrier"}
  BY <1>1, RecordFields DEF HasResponse, Responses
<1>3. /\ Frozen(f) \in Records /\ Frozen(f).kind = "carrier" /\ Frozen(f).actor = actor
      /\ Frozen(f).turn = spool[f].turn /\ Frozen(f).made = spool[f].made
      /\ spool[f].kind = "carrier" => Frozen(f) = spool[f]
  <2>1. CASE spool[f].kind = "carrier"
    BY <1>1, <2>1 DEF Frozen
  <2>2. CASE spool[f].kind # "carrier"
    <3>1. Carrier(f) \in Records
      BY <1>1, <1>2 DEF Carrier, Records
    <3> QED BY <2>2, <3>1 DEF Frozen, Carrier
  <2> QED BY <2>1, <2>2
<1>4. /\ spool' \in [Reviewers -> Records] /\ spool'[f] = Frozen(f)
      /\ \A r \in Reviewers : r # f => spool'[r] = spool[r]
  BY <1>1, <1>3
<1>5. \A n \in DOMAIN comments : comments[n].reviewer \in Reviewers /\ comments[n].index \in {Sidecar, Anchor}
  BY CommentFields DEF RoundInv
<1>6. ASSUME spool[f].kind # "carrier", NEW n \in DOMAIN comments, comments[n].reviewer = f
      PROVE  comments[n].turn # spool[f].turn
  <2>1. CASE spool[f].kind = "fresh"
    BY <1>6, <2>1 DEF RoundInv, Durable, FreshIsUnposted
  <2>2. CASE spool[f].kind = "legacy"
    BY <1>5, <1>6, <2>2 DEF LegacyClean
  <2> QED BY <1>2, <1>6, <2>1, <2>2
<1>7. NoBodyTwice' /\ AnchorsAreWhole' /\ TurnsAreCounted'
  BY DEF RoundInv, Durable, NoBodyTwice, AnchorsAreWhole, TurnsAreCounted, outside
<1>8. FreshIsUnposted'
  BY <1>3, <1>4 DEF RoundInv, Durable, FreshIsUnposted
<1>9. CarrierNamesActor'
  BY <1>3, <1>4, <1>6 DEF RoundInv, Durable, CarrierNamesActor
<1>10. SidecarIsAccounted'
  <2> SUFFICES ASSUME disturbed \cap {"spool", "comments"} = {}, NEW n \in DOMAIN comments,
                      comments[n].index = Sidecar
               PROVE  \/ HasAnchor(comments[n].reviewer)
                      \/ spool'[comments[n].reviewer].kind = "legacy"
                      \/ /\ spool'[comments[n].reviewer].kind = "carrier"
                         /\ comments[n].turn = spool'[comments[n].reviewer].turn
    BY DEF SidecarIsAccounted, HasAnchor, outside
  <2>1. CASE comments[n].reviewer = f
    <3>1. spool[f].kind # "legacy"
      BY DEF LegacyClean
    <3> QED BY <2>1, <3>1, <1>3, <1>4 DEF RoundInv, Durable, SidecarIsAccounted
  <2>2. CASE comments[n].reviewer # f
    BY <2>2, <1>4, <1>5 DEF RoundInv, Durable, SidecarIsAccounted
  <2> QED BY <2>1, <2>2
<1>11. MadeIsPast'
  BY <1>3, <1>4 DEF RoundInv, Durable, MadeIsPast, HasResponse, outside
<1> QED BY <1>3, <1>4, <1>6, <1>7, <1>8, <1>9, <1>10, <1>11 DEF Durable

(* A response is frozen, and its first body that is not public is written.  *)
LEMMA PrepareStep ==
  ASSUME ConstantsAreSound, RoundInv, Prepare
  PROVE  RoundInv'
<1>1. /\ pc = "publish" /\ run.queue # <<>> /\ run \in Memories
      /\ UNCHANGED <<comments, turns, outside>>
  BY DEF Prepare, RoundInv, Types
<1>2. PICK f : f = First
  OBVIOUS
<1>3. f \in Reviewers /\ Current = f /\ 1 \in DOMAIN run.queue
  BY <1>1, <1>2, QueueHead
<1>4. Publishing /\ Running /\ ~ Turning /\ ~ Writing
  BY <1>1 DEF Publishing, Running, Turning, Writing
<1>5. HasResponse(f) /\ run.outcome[f] = "response"
  BY <1>2, <1>3, <1>4 DEF RoundInv, RunInv, QueueIsReady, First
<1>6. CASE Stop /\ UNCHANGED <<spool, faults>>
  BY <1>1, <1>6, StopIsSound DEF outside
<1>7. CASE ~ (Stop /\ UNCHANGED <<spool, faults>>)
  <2>1. /\ spool[f].kind = "carrier" => Resumable(f)
        /\ spool[f].kind = "legacy" => LegacyClean(f)
        /\ spool' = [spool EXCEPT ![f] = Frozen(f)] /\ UNCHANGED run
    BY <1>3, <1>7 DEF Prepare
  <2>2. PICK done : done = IF spool[f].kind = "carrier" THEN Classified(f) ELSE 0
    OBVIOUS
  <2>3. \/ done = Anchor /\ pc' = "remove" /\ UNCHANGED <<post, faults>>
        \/ /\ done # Anchor /\ pc' = "post" /\ (Fault \/ UNCHANGED faults)
           /\ \E readable \in BOOLEAN : post' = Write(done + 1, readable)
    BY <1>3, <1>7, <2>2 DEF Prepare
  <2>4. PICK t : t = spool[f].turn
    OBVIOUS
  <2>5. /\ Durable' /\ spool' \in [Reviewers -> Records]
        /\ \A r \in Reviewers : r # f => spool'[r] = spool[r]
        /\ spool'[f].kind = "carrier" /\ spool'[f].actor = actor
        /\ spool'[f].turn = t /\ spool'[f].made = spool[f].made
        /\ spool[f].kind = "carrier" => spool'[f] = spool[f]
        /\ spool[f].kind # "carrier" =>
             \A n \in DOMAIN comments : comments[n].reviewer = f => comments[n].turn # t
    BY <1>1, <1>3, <1>5, <2>1, <2>4, FreezeKeeps DEF Resumable
  <2>6. \A r \in Reviewers : HasResponse(r)' <=> HasResponse(r)
    BY <1>5, <2>5 DEF HasResponse, Responses
  <2>7. spool[f].kind = "carrier" =>
          /\ spool[f].actor = actor /\ done # Refused
          /\ done = IF Public(f, Anchor, t) THEN IF Public(f, Sidecar, t) THEN 2 ELSE Refused
                    ELSE IF Public(f, Sidecar, t) THEN 1 ELSE 0
    BY <1>3, <2>1, <2>2, <2>4, CarrierStatus DEF RoundInv, Resumable
  <2>8. spool[f].kind # "carrier" => done = 0 /\ \A i : ~ Public(f, i, t)
    BY <2>2, <2>5 DEF Public
  <2>9. Anchor = 2 /\ Sidecar = 1 /\ Bodies = {1, 2} /\ MaxAttempts \in Nat \ {0} /\ Refused = 3
    BY DEF Anchor, Sidecar, Bodies, ConstantsAreSound, Refused
  <2>10. done \in {0, 1, 2}
    BY <2>7, <2>8, <2>9
  <2>11. pc' = "post" =>
           /\ post' \in Writes /\ post'.index \in Bodies /\ post'.tries < MaxAttempts
           /\ post'.index = Anchor => Public(f, Sidecar, t)
           /\ ~ Public(f, Anchor, t) /\ ~ Public(f, post'.index, t)
    <3> SUFFICES ASSUME pc' = "post"
                 PROVE  /\ post' \in Writes /\ post'.index \in Bodies /\ post'.tries < MaxAttempts
                        /\ post'.index = Anchor => Public(f, Sidecar, t)
                        /\ ~ Public(f, Anchor, t) /\ ~ Public(f, post'.index, t)
      OBVIOUS
    <3>1. PICK readable \in BOOLEAN : post' = Write(done + 1, readable)
      BY <2>3
    <3>2. done \in {0, 1}
      BY <2>3, <2>9, <2>10
    <3>3. CASE done = 0
      <4>1. done + 1 = 1
        BY <3>3
      <4>2. ~ Public(f, Anchor, t) /\ ~ Public(f, Sidecar, t)
        BY <3>3, <2>7, <2>8, <2>9
      <4> QED BY <3>1, <4>1, <4>2, <2>9, WriteTyped
    <3>4. CASE done = 1
      <4>1. done + 1 = 2
        BY <3>4
      <4>2. ~ Public(f, Anchor, t) /\ Public(f, Sidecar, t)
        BY <3>4, <2>7, <2>8, <2>9
      <4> QED BY <3>1, <4>1, <4>2, <2>9, WriteTyped
    <3> QED BY <3>2, <3>3, <3>4
  <2>12. pc' = "remove" => Public(f, Anchor, t)
    BY <2>3, <2>7, <2>8, <2>9
  <2>13. post' \in Writes /\ faults' \in 0 .. MaxFaults
    BY <2>3, <2>11, FaultIsCounted DEF RoundInv, Types, TypeOK, Writes
  <2>14. pc' \in {"post", "remove"}
    BY <2>3
  <2>15. Types'
    <3>1. \A r \in Reviewers : HasResponse(r)' => spool'[r].turn \in 1 .. turns[r]
      BY <2>4, <2>5, <2>6 DEF RoundInv, Types, TypeOK
    <3>2. TypeOK'
      BY <1>1, <2>1, <2>5, <2>13, <2>14, <3>1 DEF RoundInv, Types, TypeOK, Writes, outside
    <3> QED BY <1>1, <2>1, <3>2 DEF Types, Memories
  <2>16. Running' /\ ~ Turning' /\ ~ InPreflight
    <3>1. run.outcome # NoRun.outcome
      BY <1>3, <1>5 DEF NoRun
    <3> QED BY <2>14, <3>1 DEF Running, Turning, InPreflight
  <2>17. Publishing' /\ ~ InPreflight'
    BY <2>1, <2>14, <2>16 DEF Publishing, Writing, InPreflight
  <2>18. Context'
    BY <1>1, <1>4, <2>1, <2>5, <2>6, <2>16 DEF RoundInv, RunInv, Context, HasAnchor, outside
  <2>19. Phases'
    BY <1>1, <2>1, <2>14 DEF RoundInv, RunInv, Phases
  <2>20. QueueIsReady'
    <3>1. \A n \in DOMAIN run.queue : run.queue[n] \in Reviewers
      BY <1>1, QueueHead, ElementOfSeq
    <3> QED BY <2>1, <2>6, <2>14, <2>16, <2>17, <3>1, <1>4
            DEF RoundInv, RunInv, QueueIsReady, InPreflight, Writing
  <2>21. WriteIsNext'
    <3>1. First' = f /\ actor' = actor /\ spool'[f].turn = t
      BY <1>1, <1>2, <2>1, <2>5 DEF First, outside
    <3>2. \A i : Public(f, i, t)' <=> Public(f, i, t)
      BY <1>1 DEF Public
    <3>3. Public(f, Anchor, t) => HasAnchor(f)'
      BY <1>1 DEF Public, HasAnchor
    <3> QED BY <2>5, <2>11, <2>12, <2>14, <3>1, <3>2, <3>3 DEF WriteIsNext, Writing
  <2>22. TurnsAreOpen'
    BY <2>16 DEF TurnsAreOpen
  <2>23. NothingIsForgotten'
    <3> SUFFICES ASSUME NEW r \in Reviewers, HasResponse(r)
                 PROVE  r \in Queued \/ HasAnchor(r)' \/ Stuck(r)'
      BY <2>1, <2>6 DEF NothingIsForgotten, Queued
    <3>1. CASE r = f
      BY <1>2, <1>3, <3>1 DEF Queued, First
    <3>2. CASE r # f
      <4>1. spool'[r] = spool[r] /\ (Replayable(r)' <=> Replayable(r))
        BY <1>1, <2>1, <2>5, <3>2 DEF Replayable, HasResponse, outside
      <4>2. Stuck(r) => Stuck(r)'
        BY <1>1, <4>1 DEF Stuck
      <4>3. HasAnchor(r) => HasAnchor(r)'
        BY <1>1 DEF HasAnchor
      <4> QED BY <4>2, <4>3, <1>4 DEF RoundInv, RunInv, NothingIsForgotten
    <3> QED BY <3>1, <3>2
  <2>24. PeersAreKnown'
    BY <2>14, <2>17 DEF PeersAreKnown, Resuming, TurnsAreIndependent
  <2> QED BY <2>5, <2>15, <2>18, <2>19, <2>20, <2>21, <2>22, <2>23, <2>24 DEF RoundInv, RunInv
<1> QED BY <1>6, <1>7

-----------------------------------------------------------------------------
(* Removing records *)

(* When records leave the spool, what is left is sound as long as every     *)
(* sidecar without a review keeps its record.                               *)
LEMMA DroppingKeeps ==
  ASSUME Types, Durable, spool' \in [Reviewers -> Records],
         \A r \in Reviewers : spool'[r] = spool[r] \/ spool'[r] = Absent,
         UNCHANGED <<comments, ctx>>,
         turns' \in [Reviewers -> Nat], \A r \in Reviewers : turns[r] <= turns'[r],
         disturbed \subseteq disturbed',
         "spool" \in disturbed' \/
           \A n \in DOMAIN comments :
             comments[n].index = Sidecar /\ spool[comments[n].reviewer].kind \in {"legacy", "carrier"} =>
               HasAnchor(comments[n].reviewer) \/ spool'[comments[n].reviewer] = spool[comments[n].reviewer]
  PROVE  /\ Durable'
         /\ \A r \in Reviewers : HasResponse(r)' => HasResponse(r) /\ spool'[r] = spool[r]
<1>1. Absent.kind = "absent"
  BY DEF Absent
<1>2. NoBodyTwice' /\ AnchorsAreWhole'
  BY DEF Durable, NoBodyTwice, AnchorsAreWhole
<1>3. TurnsAreCounted'
  <2> SUFFICES ASSUME NEW n \in DOMAIN comments
               PROVE  comments[n].turn <= turns'[comments[n].reviewer]
    BY DEF TurnsAreCounted
  <2>1. PICK r \in Reviewers : r = comments[n].reviewer
    BY CommentFields
  <2>2. comments[n].turn <= turns[r] /\ turns[r] <= turns'[r]
    BY <2>1 DEF Durable, TurnsAreCounted
  <2>3. comments[n].turn \in Nat /\ turns[r] \in Nat /\ turns'[r] \in Nat
    BY CommentFields DEF Types, TypeOK
  <2> QED BY <2>1, <2>2, <2>3
<1>4. FreshIsUnposted'
  BY <1>1 DEF Durable, FreshIsUnposted
<1>5. CarrierNamesActor'
  BY <1>1 DEF Durable, CarrierNamesActor
<1>6. SidecarIsAccounted'
  <2> SUFFICES ASSUME disturbed' \cap {"spool", "comments"} = {}, NEW n \in DOMAIN comments,
                      comments[n].index = Sidecar
               PROVE  \/ HasAnchor(comments[n].reviewer)
                      \/ spool'[comments[n].reviewer].kind = "legacy"
                      \/ /\ spool'[comments[n].reviewer].kind = "carrier"
                         /\ comments[n].turn = spool'[comments[n].reviewer].turn
    BY DEF SidecarIsAccounted, HasAnchor
  <2>1. disturbed \cap {"spool", "comments"} = {} /\ "spool" \notin disturbed'
    OBVIOUS
  <2> QED BY <2>1 DEF Durable, SidecarIsAccounted
<1>7. \A r \in Reviewers : HasResponse(r)' => HasResponse(r) /\ spool'[r] = spool[r]
  BY <1>1 DEF HasResponse, Responses
<1>8. MadeIsPast'
  BY <1>7 DEF Durable, MadeIsPast
<1> QED BY <1>2, <1>3, <1>4, <1>5, <1>6, <1>7, <1>8 DEF Durable

(* A published record is removed.                                           *)
LEMMA RemoveRecordStep ==
  ASSUME ConstantsAreSound, RoundInv, RemoveRecord
  PROVE  RoundInv'
<1>1. /\ pc = "remove" /\ pc' = "publish" /\ run.queue # <<>> /\ run \in Memories
      /\ UNCHANGED <<comments, turns, post, faults, outside>>
  BY DEF RemoveRecord, RoundInv, RunInv, Phases, Types
<1>2. PICK f, t : f = First /\ t = Tail(run.queue)
  OBVIOUS
<1>3. f \in Reviewers /\ Current = f /\ HasAnchor(f)
  BY <1>1, <1>2, QueueHead DEF RoundInv, RunInv, WriteIsNext
<1>4. /\ run' \in Memories /\ run'.queue = t /\ run'.ctx = run.ctx
      /\ run'.completed = run.completed /\ run'.accepted = run.accepted
      /\ run'.working = run.working /\ run'.outcome = run.outcome
      /\ run'.replayed = run.replayed
  BY <1>1, <1>2, QueueTail DEF Memories, RemoveRecord
<1>5. /\ \A n \in DOMAIN t : n + 1 \in DOMAIN run.queue /\ n \in Nat \ {0}
                              /\ t[n] = run.queue[n + 1]
      /\ \A n \in DOMAIN run.queue :
              n # 1 => n - 1 \in DOMAIN t /\ t[n - 1] = run.queue[n]
      /\ 1 \in DOMAIN run.queue
  BY <1>1, <1>2, QueueTail, QueueHead
<1>6. \A n \in DOMAIN t : t[n] # f /\ t[n] \in Queued /\ t[n] \in Reviewers
  <2> SUFFICES ASSUME NEW n \in DOMAIN t
               PROVE  t[n] # f /\ t[n] \in Queued /\ t[n] \in Reviewers
    OBVIOUS
  <2> DEFINE k == n + 1
  <2>1. k \in DOMAIN run.queue /\ k # 1 /\ t[n] = run.queue[k]
    BY <1>5
  <2> HIDE DEF k
  <2>2. run.queue[k] # f
    BY <2>1, <1>2, <1>5 DEF First, RoundInv, RunInv, Phases
  <2>3. run.queue[k] \in Reviewers
    BY <2>1, <1>1, QueueHead, ElementOfSeq
  <2> QED BY <2>1, <2>2, <2>3 DEF Queued
<1>7. /\ spool' \in [Reviewers -> Records] /\ spool'[f] = Absent
      /\ \A r \in Reviewers : r # f => spool'[r] = spool[r]
  BY <1>3 DEF RemoveRecord, RoundInv, Types, TypeOK, Records
<1>8. /\ Durable'
      /\ \A r \in Reviewers : HasResponse(r)' => HasResponse(r) /\ spool'[r] = spool[r]
  <2>1. \A n \in DOMAIN comments :
          HasAnchor(comments[n].reviewer) \/ spool'[comments[n].reviewer] = spool[comments[n].reviewer]
    BY <1>3, <1>7, CommentFields DEF RoundInv
  <2>2. turns' \in [Reviewers -> Nat] /\ \A r \in Reviewers : turns[r] <= turns'[r]
    BY <1>1 DEF RoundInv, Types, TypeOK
  <2> QED BY <1>1, <1>7, <2>1, <2>2, DroppingKeeps DEF RoundInv, outside
<1>9. Types'
  <2>1. run'.accepted \subseteq run'.completed /\ run'.ctx \in Versions
        /\ run'.outcome \in [Reviewers -> Outcomes]
    BY <1>4 DEF RoundInv, Types, TypeOK, Memories
  <2>2. \A r \in Reviewers : HasResponse(r)' => spool'[r].turn \in 1 .. turns[r]
    BY <1>8 DEF RoundInv, Types, TypeOK
  <2>3. TypeOK'
    BY <1>1, <1>7, <2>1, <2>2 DEF RoundInv, Types, TypeOK, outside
  <2> QED BY <1>4, <2>3 DEF Types, Memories
<1>10. Publishing /\ Publishing' /\ Running /\ ~ Writing' /\ ~ Turning' /\ ~ Resuming'
  BY <1>1 DEF Publishing, Running, Writing, Turning, Resuming
<1>11. Context'
  BY <1>1, <1>4, <1>8, <1>10 DEF RoundInv, RunInv, Context, HasAnchor, outside
<1>12. Phases'
  <2>1. \A m, n \in DOMAIN t : t[m] = t[n] => m = n
    <3> SUFFICES ASSUME NEW m \in DOMAIN t, NEW n \in DOMAIN t, t[m] = t[n]
                 PROVE  m = n
      OBVIOUS
    <3>1. m + 1 = n + 1 /\ m \in Nat /\ n \in Nat
      BY <1>5 DEF RoundInv, RunInv, Phases
    <3> QED BY <3>1
  <2> QED BY <1>1, <1>4, <2>1 DEF RoundInv, RunInv, Phases
<1>13. QueueIsReady'
  <2>1. \A n \in DOMAIN t : HasResponse(t[n])' /\ run.outcome[t[n]] = "response"
    <3> SUFFICES ASSUME NEW n \in DOMAIN t, NEW r, r = t[n]
                 PROVE  HasResponse(r)' /\ run.outcome[r] = "response"
      OBVIOUS
    <3>1. r # f /\ r \in Queued /\ r \in Reviewers
      BY <1>6
    <3>2. HasResponse(r) /\ run.outcome[r] = "response"
      BY <3>1, <1>10 DEF Queued, RoundInv, RunInv, QueueIsReady
    <3> QED BY <3>1, <3>2, <1>7 DEF HasResponse
  <2> QED BY <1>1, <1>4, <1>10, <2>1 DEF QueueIsReady
<1>14. WriteIsNext' /\ TurnsAreOpen' /\ PeersAreKnown'
  BY <1>1, <1>10 DEF WriteIsNext, TurnsAreOpen, PeersAreKnown, TurnsAreIndependent
<1>15. NothingIsForgotten'
  <2> SUFFICES ASSUME NEW r \in Reviewers, HasResponse(r)'
               PROVE  r \in Queued' \/ HasAnchor(r)' \/ Stuck(r)'
    BY DEF NothingIsForgotten
  <2>1. HasResponse(r) /\ spool'[r] = spool[r]
    BY <1>8
  <2>2. HasAnchor(r) => HasAnchor(r)'
    BY <1>1 DEF HasAnchor
  <2>3. Stuck(r) => Stuck(r)'
    BY <1>1, <1>4, <2>1 DEF Stuck, Replayable, HasResponse, outside
  <2>4. ASSUME r \in Queued, r # f PROVE r \in Queued'
    <3>1. PICK n \in DOMAIN run.queue : run.queue[n] = r
      BY <2>4 DEF Queued
    <3>2. n # 1
      BY <3>1, <2>4, <1>2 DEF First
    <3>3. n - 1 \in DOMAIN t /\ t[n - 1] = r
      BY <3>1, <3>2, <1>5
    <3> QED BY <3>3, <1>4 DEF Queued
  <2> QED BY <2>1, <2>2, <2>3, <2>4, <1>3, <1>10 DEF RoundInv, RunInv, NothingIsForgotten
<1> QED BY <1>8, <1>9, <1>11, <1>12, <1>13, <1>14, <1>15 DEF RoundInv, RunInv

(* The whole spool is dropped: what was in it is published or of no use.    *)
LEMMA DiscardSpoolStep ==
  ASSUME ConstantsAreSound, RoundInv, DiscardSpool
  PROVE  RoundInv'
<1>1. /\ pc = "publish" /\ run.queue = <<>> /\ run' = NoRun /\ pc' \in {"idle", "done"}
      /\ post' \in {post, NoPost} /\ UNCHANGED <<comments, turns, faults, outside>>
      /\ spool' = [r \in Reviewers |-> Absent]
  BY DEF DiscardSpool, Stop
<1>2. /\ spool' \in [Reviewers -> Records]
      /\ \A r \in Reviewers : spool'[r] = Absent
  BY <1>1 DEF Records
<1>3. \A n \in DOMAIN comments :
        comments[n].index = Sidecar /\ spool[comments[n].reviewer].kind \in {"legacy", "carrier"} =>
          HasAnchor(comments[n].reviewer)
  <2> SUFFICES ASSUME NEW n \in DOMAIN comments, comments[n].index = Sidecar,
                      NEW r, r = comments[n].reviewer, spool[r].kind \in {"legacy", "carrier"}
               PROVE  HasAnchor(r)
    OBVIOUS
  <2>1. r \in Reviewers
    BY CommentFields DEF RoundInv
  <2>2. HasResponse(r) /\ Publishing /\ Queued = {}
    BY <1>1 DEF HasResponse, Responses, Publishing, Queued
  <2>3. HasAnchor(r) \/ Stuck(r)
    BY <2>1, <2>2 DEF RoundInv, RunInv, NothingIsForgotten
  <2> QED BY <2>3 DEF Stuck
<1>4. /\ Durable'
      /\ \A r \in Reviewers : ~ HasResponse(r)'
  <2>1. turns' \in [Reviewers -> Nat] /\ \A r \in Reviewers : turns[r] <= turns'[r]
    BY <1>1 DEF RoundInv, Types, TypeOK
  <2>2. \A r \in Reviewers : ~ HasResponse(r)'
    BY <1>2 DEF HasResponse, Absent, Responses
  <2> QED BY <1>1, <1>2, <1>3, <2>1, <2>2, DroppingKeeps DEF RoundInv, outside
<1>5. Types'
  <2>1. run' \in Memories /\ post' \in Writes /\ run'.accepted \subseteq run'.completed
        /\ run'.ctx \in Versions /\ run'.outcome \in [Reviewers -> Outcomes]
    BY <1>1, NoRunTyped
       DEF Writes, NoRun, ConstantsAreSound, Memories, RoundInv, Types, TypeOK
  <2>2. TypeOK'
    BY <1>1, <1>2, <1>4, <2>1 DEF RoundInv, Types, TypeOK, Writes, outside
  <2> QED BY <2>1, <2>2 DEF Types, Memories
<1>6. RunInv'
  BY <1>1, EndIsSound DEF RoundInv, Types, TypeOK, outside
<1> QED BY <1>4, <1>5, <1>6 DEF RoundInv

-----------------------------------------------------------------------------
(* What happens outside the program *)

(* A requirement changes.  A run at work has read the older ones, and so    *)
(* were its records made: what it takes for valid stays valid.              *)
LEMMA RequirementsStep ==
  ASSUME ConstantsAreSound, RoundInv, RequirementsChange
  PROVE  RoundInv'
<1>1. /\ pc # "done" /\ ctx = 0 /\ ctx' = 1 /\ rejects' \subseteq Reviewers
      /\ disturbed' = disturbed \cup {"requirements"} /\ faults' \in 0 .. MaxFaults
      /\ UNCHANGED <<spool, comments, turns, actor, pc, run, post>>
  BY FaultIsCounted DEF RequirementsChange, RoundInv
<1>2. \A r \in Reviewers : HasResponse(r) => spool[r].made = 0
  <2> SUFFICES ASSUME NEW r \in Reviewers, HasResponse(r)
               PROVE  spool[r].made = 0
    OBVIOUS
  <2>1. spool[r].made \in Versions /\ spool[r].made <= 0
    BY <1>1, RecordFields DEF RoundInv, Types, TypeOK, HasResponse, Durable, MadeIsPast
  <2> QED BY <2>1 DEF Versions
<1>3. Durable'
  <2>1. NoBodyTwice' /\ AnchorsAreWhole' /\ TurnsAreCounted'
    BY <1>1 DEF RoundInv, Durable, NoBodyTwice, AnchorsAreWhole, TurnsAreCounted
  <2>2. FreshIsUnposted' /\ CarrierNamesActor'
    BY <1>1 DEF RoundInv, Durable, FreshIsUnposted, CarrierNamesActor
  <2>3. SidecarIsAccounted'
    BY <1>1 DEF RoundInv, Durable, SidecarIsAccounted, HasAnchor
  <2>4. MadeIsPast'
    BY <1>1, <1>2 DEF MadeIsPast, HasResponse
  <2> QED BY <2>1, <2>2, <2>3, <2>4 DEF Durable
<1>4. Types'
  <2>1. TypeOK'
    BY <1>1 DEF RoundInv, Types, TypeOK, HasResponse, Versions, Disturbances
  <2> QED BY <1>1, <2>1 DEF RoundInv, Types, Memories
<1>5. CASE ~ Running
  <2>1. run = NoRun
    BY <1>1, <1>5 DEF Running, RoundInv, RunInv, Phases
  <2> QED BY <1>1, <1>3, <1>4, <1>5, <2>1, EndIsSound DEF Running, RoundInv, NoRun, Versions
<1>6. CASE Running
  <2>1. run.ctx = 0
    <3>1. run.ctx \in Versions /\ run.ctx <= 0
      BY <1>1 DEF RoundInv, Types, TypeOK, RunInv, Context
    <3> QED BY <3>1 DEF Versions
  <2>2. \A r \in Reviewers : (Replayable(r) /\ Replayable(r)') \/ ~ HasResponse(r)
    BY <1>1, <1>2, <2>1 DEF Replayable, HasResponse
  <2>3. \A r \in Reviewers : Replayable(r)' <=> Replayable(r)
    BY <1>1, <2>2 DEF Replayable, HasResponse
  <2>4. \A r \in Reviewers : Stuck(r) => Stuck(r)'
    BY <1>1, <2>3 DEF Stuck
  <2>5. NeedsFreshTurn' <=> NeedsFreshTurn
    BY <1>1, <2>3 DEF NeedsFreshTurn
  <2>6. Context'
    BY <1>1, <2>1 DEF RoundInv, RunInv, Context, HasAnchor, HasResponse, Running
  <2>7. Phases' /\ (InPreflight' <=> InPreflight)
    BY <1>1 DEF RoundInv, RunInv, Phases, InPreflight
  <2>8. QueueIsReady'
    BY <1>1 DEF RoundInv, RunInv, QueueIsReady, Writing, Turning, Publishing, InPreflight,
                Unfinished, Public, HasResponse
  <2>9. WriteIsNext'
    BY <1>1 DEF RoundInv, RunInv, WriteIsNext, Writing, First, Public, HasAnchor
  <2>10. TurnsAreOpen'
    <3>1. \A r \in Reviewers : (Open(r)' <=> Open(r)) /\ (HasResponse(r)' <=> HasResponse(r))
      BY <1>1 DEF Open, HasResponse
    <3> QED BY <1>1, <2>4, <3>1 DEF RoundInv, RunInv, TurnsAreOpen, Turning, Queued
  <2>11. NothingIsForgotten'
    <3>1. (Turning' <=> Turning) /\ (Publishing' <=> Publishing)
      BY <1>1 DEF Turning, Publishing, Writing, InPreflight
    <3>2. \A r \in Reviewers : (HasAnchor(r)' <=> HasAnchor(r)) /\ (HasResponse(r)' <=> HasResponse(r))
      BY <1>1 DEF HasAnchor, HasResponse
    <3>3. Queued' = Queued
      BY <1>1 DEF Queued
    <3> QED BY <2>4, <3>1, <3>2, <3>3 DEF RoundInv, RunInv, NothingIsForgotten
  <2>12. PeersAreKnown'
    <3>1. /\ AnchorsKnown => AnchorsKnown'
          /\ \A r \in Reviewers : Quiet(r) => Quiet(r)'
      BY <1>1 DEF AnchorsKnown, Quiet, LegacyClean, Public
    <3>2. TurnsAreIndependent'
      BY <1>1 DEF RoundInv, RunInv, PeersAreKnown, TurnsAreIndependent
    <3>3. Resuming' <=> Resuming
      BY <1>1 DEF Resuming, Writing, InPreflight
    <3> QED BY <1>1, <2>5, <3>1, <3>2, <3>3 DEF RoundInv, RunInv, PeersAreKnown
  <2> QED BY <1>3, <1>4, <2>6, <2>7, <2>8, <2>9, <2>10, <2>11, <2>12 DEF RoundInv, RunInv
<1> QED BY <1>5, <1>6

(* Between two runs, the account changes.                                   *)
LEMMA ActorStep ==
  ASSUME ConstantsAreSound, RoundInv, ActorChanges
  PROVE  RoundInv'
<1>1. /\ pc = "idle" /\ actor' \in Actors /\ faults' \in 0 .. MaxFaults
      /\ disturbed' = disturbed \cup {"actor"}
      /\ UNCHANGED <<spool, comments, turns, ctx, rejects, pc, run, post>>
  BY FaultIsCounted DEF ActorChanges, RoundInv
<1>2. Durable'
  <2>1. NoBodyTwice' /\ AnchorsAreWhole' /\ TurnsAreCounted'
    BY <1>1 DEF RoundInv, Durable, NoBodyTwice, AnchorsAreWhole, TurnsAreCounted
  <2>2. FreshIsUnposted' /\ CarrierNamesActor' /\ MadeIsPast'
    BY <1>1 DEF RoundInv, Durable, FreshIsUnposted, CarrierNamesActor, MadeIsPast, HasResponse
  <2>3. SidecarIsAccounted'
    BY <1>1 DEF RoundInv, Durable, SidecarIsAccounted, HasAnchor
  <2> QED BY <2>1, <2>2, <2>3 DEF Durable
<1>3. TypeOK'
  BY <1>1 DEF RoundInv, Types, TypeOK, HasResponse, Disturbances
<1>4. run = NoRun /\ ctx \in Versions
  BY <1>1 DEF RoundInv, RunInv, Phases, Types, TypeOK
<1>5. RunInv'
  BY <1>1, <1>4, EndIsSound
<1> QED BY <1>1, <1>2, <1>3, <1>5 DEF RoundInv, Types, Memories

(* Between two runs, the spool is lost.                                     *)
LEMMA SpoolLostStep ==
  ASSUME ConstantsAreSound, RoundInv, SpoolLost
  PROVE  RoundInv'
<1>1. /\ pc = "idle" /\ faults' \in 0 .. MaxFaults
      /\ spool' = [r \in Reviewers |-> Absent]
      /\ disturbed' = disturbed \cup {"spool"}
      /\ UNCHANGED <<comments, turns, ctx, rejects, actor, pc, run, post>>
  BY FaultIsCounted DEF SpoolLost, RoundInv
<1>2. /\ spool' \in [Reviewers -> Records]
      /\ \A r \in Reviewers : spool'[r] = Absent
  BY <1>1 DEF Records
<1>3. Durable'
  <2>1. turns' \in [Reviewers -> Nat] /\ \A r \in Reviewers : turns[r] <= turns'[r]
    BY <1>1 DEF RoundInv, Types, TypeOK
  <2> QED BY <1>1, <1>2, <2>1, DroppingKeeps DEF RoundInv
<1>4. \A r \in Reviewers : ~ HasResponse(r)'
  BY <1>2 DEF HasResponse, Absent, Responses
<1>5. TypeOK'
  BY <1>1, <1>2, <1>4 DEF RoundInv, Types, TypeOK, Disturbances
<1>6. run = NoRun /\ ctx \in Versions
  BY <1>1 DEF RoundInv, RunInv, Phases, Types, TypeOK
<1>7. RunInv'
  BY <1>1, <1>6, EndIsSound
<1> QED BY <1>1, <1>3, <1>5, <1>7 DEF RoundInv, Types, Memories

(* What is left of a sequence without one of its elements.                  *)
LEMMA RemoveAtFields ==
  ASSUME NEW S, NEW s \in Seq(S), NEW k \in DOMAIN s
  PROVE  /\ RemoveAt(s, k) \in Seq(S)
         /\ Len(s) \in Nat /\ DOMAIN s = 1 .. Len(s)
         /\ DOMAIN RemoveAt(s, k) = 1 .. (Len(s) - 1)
         /\ \A n \in 1 .. (Len(s) - 1) :
              RemoveAt(s, k)[n] = s[IF n < k THEN n ELSE n + 1]
<1>1. Len(s) \in Nat /\ DOMAIN s = 1 .. Len(s) /\ k \in 1 .. Len(s)
  BY LenProperties
<1> DEFINE a == SubSeq(s, 1, k - 1)
           b == SubSeq(s, k + 1, Len(s))
<1>2. /\ a \in Seq(S) /\ Len(a) = k - 1
      /\ \A i \in 1 .. k - 1 : a[i] = s[i]
  BY <1>1
<1>3. /\ b \in Seq(S) /\ Len(b) = Len(s) - k
      /\ \A i \in 1 .. (Len(s) - k) : b[i] = s[k + i]
  BY <1>1
<1> HIDE DEF a, b
<1>4. RemoveAt(s, k) = a \o b
  BY DEF RemoveAt, a, b
<1>5. /\ a \o b \in Seq(S) /\ Len(a \o b) = Len(s) - 1
      /\ \A n \in 1 .. (Len(s) - 1) :
           (a \o b)[n] = IF n <= k - 1 THEN a[n] ELSE b[n - (k - 1)]
  <2>1. /\ a \o b \in Seq(S) /\ Len(a \o b) = Len(a) + Len(b)
        /\ \A n \in 1 .. Len(a) + Len(b) :
             (a \o b)[n] = IF n <= Len(a) THEN a[n] ELSE b[n - Len(a)]
    BY <1>2, <1>3, ConcatProperties
  <2>2. Len(a) + Len(b) = Len(s) - 1
    BY <1>1, <1>2, <1>3
  <2> QED BY <2>1, <2>2, <1>2
<1>6. ASSUME NEW n \in 1 .. (Len(s) - 1)
      PROVE  (a \o b)[n] = s[IF n < k THEN n ELSE n + 1]
  <2>1. CASE n < k
    <3>1. n <= k - 1 /\ n \in 1 .. k - 1
      BY <2>1, <1>1
    <3> QED BY <3>1, <2>1, <1>2, <1>5
  <2>2. CASE ~ (n < k)
    <3> DEFINE i == n - (k - 1)
    <3>1. ~ (n <= k - 1) /\ i \in 1 .. (Len(s) - k) /\ k + i = n + 1
      BY <2>2, <1>1
    <3> QED BY <3>1, <2>2, <1>3, <1>5
  <2> QED BY <2>1, <2>2
<1>7. DOMAIN (a \o b) = 1 .. (Len(s) - 1)
  BY <1>5, LenProperties
<1> QED BY <1>1, <1>4, <1>5, <1>6, <1>7

(* Between two runs, somebody deletes comments.                             *)
LEMMA CommentsStep ==
  ASSUME ConstantsAreSound, RoundInv, CommentsDeleted
  PROVE  RoundInv'
<1>1. /\ pc = "idle" /\ faults' \in 0 .. MaxFaults
      /\ comments' \in {<<>>} \cup {RemoveAt(comments, k) : k \in DOMAIN comments}
      /\ disturbed' = disturbed \cup {"comments"}
      /\ UNCHANGED <<spool, turns, ctx, rejects, actor, pc, run, post>>
  BY FaultIsCounted DEF CommentsDeleted, RoundInv
<1>2. comments \in Seq(Bodied)
  BY DEF RoundInv, Types, TypeOK, Bodied
<1>3. PICK old \in [DOMAIN comments' -> DOMAIN comments] :
        /\ comments' \in Seq(Bodied)
        /\ \A n \in DOMAIN comments' : comments'[n] = comments[old[n]]
        /\ \A m, n \in DOMAIN comments' : old[m] = old[n] => m = n
  <2>1. CASE comments' = <<>>
    <3>1. DOMAIN comments' = {} /\ comments' \in Seq(Bodied)
      BY <2>1, EmptySeq
    <3>2. [n \in DOMAIN comments' |-> n] \in [DOMAIN comments' -> DOMAIN comments]
      BY <3>1
    <3> QED BY <3>1, <3>2
  <2>2. ASSUME NEW k \in DOMAIN comments, comments' = RemoveAt(comments, k)
        PROVE  \E old \in [DOMAIN comments' -> DOMAIN comments] :
                 /\ comments' \in Seq(Bodied)
                 /\ \A n \in DOMAIN comments' : comments'[n] = comments[old[n]]
                 /\ \A m, n \in DOMAIN comments' : old[m] = old[n] => m = n
    <3> DEFINE old == [n \in DOMAIN comments' |-> IF n < k THEN n ELSE n + 1]
    <3>1. /\ comments' \in Seq(Bodied) /\ Len(comments) \in Nat
          /\ DOMAIN comments = 1 .. Len(comments) /\ DOMAIN comments' = 1 .. (Len(comments) - 1)
          /\ \A n \in DOMAIN comments' : comments'[n] = comments[IF n < k THEN n ELSE n + 1]
      BY <1>2, <2>2, RemoveAtFields
    <3>2. k \in 1 .. Len(comments)
      BY <3>1
    <3>3. old \in [DOMAIN comments' -> DOMAIN comments]
      BY <3>1, <3>2
    <3>4. \A n \in DOMAIN comments' : comments'[n] = comments[old[n]]
      BY <3>1
    <3>5. \A m, n \in DOMAIN comments' : old[m] = old[n] => m = n
      BY <3>1, <3>2
    <3> QED BY <3>1, <3>3, <3>4, <3>5
  <2> QED BY <1>1, <2>1, <2>2
<1>4. NoBodyTwice'
  <2> SUFFICES ASSUME NEW m \in DOMAIN comments', NEW n \in DOMAIN comments',
                      comments'[m].reviewer = comments'[n].reviewer,
                      comments'[m].index = comments'[n].index,
                      comments'[m].turn = comments'[n].turn
               PROVE  m = n
    BY DEF NoBodyTwice
  <2>1. old[m] \in DOMAIN comments /\ old[n] \in DOMAIN comments
    BY <1>3
  <2>2. old[m] = old[n]
    BY <1>3, <2>1 DEF RoundInv, Durable, NoBodyTwice
  <2> QED BY <1>3, <2>2
<1>5. TurnsAreCounted' /\ FreshIsUnposted' /\ CarrierNamesActor'
  <2>1. \A n \in DOMAIN comments' : old[n] \in DOMAIN comments /\ comments'[n] = comments[old[n]]
    BY <1>3
  <2>2. TurnsAreCounted'
    BY <1>1, <2>1 DEF RoundInv, Durable, TurnsAreCounted
  <2>3. FreshIsUnposted'
    BY <1>1, <2>1 DEF RoundInv, Durable, FreshIsUnposted
  <2>4. CarrierNamesActor'
    BY <1>1, <2>1 DEF RoundInv, Durable, CarrierNamesActor
  <2> QED BY <2>2, <2>3, <2>4
<1>6. AnchorsAreWhole' /\ SidecarIsAccounted' /\ MadeIsPast'
  BY <1>1 DEF RoundInv, Durable, AnchorsAreWhole, SidecarIsAccounted, MadeIsPast, HasResponse
<1>7. TypeOK'
  BY <1>1, <1>3 DEF RoundInv, Types, TypeOK, Bodied, HasResponse, Disturbances
<1>8. run = NoRun /\ ctx \in Versions
  BY <1>1 DEF RoundInv, RunInv, Phases, Types, TypeOK
<1>9. RunInv'
  BY <1>1, <1>8, EndIsSound
<1> QED BY <1>1, <1>4, <1>5, <1>6, <1>7, <1>9 DEF RoundInv, Durable, Types, Memories

-----------------------------------------------------------------------------
(* The start of a round *)

(* A run starts from what is posted.                                        *)
LEMMA StartRunStep ==
  ASSUME ConstantsAreSound, RoundInv, StartRun
  PROVE  RoundInv'
<1>1. /\ pc = "idle" /\ pc' = "gate" /\ UNCHANGED <<spool, comments, turns, post, faults, outside>>
      /\ run' = [NoRun EXCEPT !.ctx = ctx,
                              !.completed = {r \in Reviewers : HasAnchor(r)},
                              !.accepted = {r \in Reviewers : Accepted(r, ctx)}]
  BY DEF StartRun
<1>2. NoRun \in Memories /\ ctx \in Versions
  BY NoRunTyped DEF RoundInv, Types, TypeOK
<1>3. /\ run' \in Memories /\ run'.ctx = ctx
      /\ run'.completed = {r \in Reviewers : HasAnchor(r)}
      /\ run'.accepted = {r \in Reviewers : Accepted(r, ctx)}
      /\ run'.working = {} /\ run'.replayed = {} /\ run'.queue = <<>>
      /\ run'.outcome = NoRun.outcome
  BY <1>1, <1>2 DEF NoRun, Memories
<1>4. \A r : Accepted(r, ctx) => HasAnchor(r)
  BY DEF Accepted, HasAnchor
<1>5. Types'
  <2>1. run'.accepted \subseteq run'.completed
    BY <1>3, <1>4
  <2>2. post' \in Writes /\ faults' \in 0 .. MaxFaults
    BY <1>1 DEF RoundInv, Types, TypeOK, Writes
  <2> QED BY <1>1, <1>3, <2>1, <2>2, RunIsTyped DEF RoundInv
<1>6. Context'
  <2>1. ctx <= ctx
    BY <1>2 DEF Versions
  <2> QED BY <1>1, <1>3, <2>1
          DEF RoundInv, Durable, MadeIsPast, Context, HasResponse, HasAnchor, outside
<1>7. Phases' /\ QueueIsReady'
  <2>1. DOMAIN run'.queue = {}
    BY <1>3
  <2>2. Phases'
    BY <1>1, <1>3, <2>1 DEF Phases, InPreflight, NoRun
  <2>3. QueueIsReady'
    BY <2>1 DEF QueueIsReady
  <2> QED BY <2>2, <2>3
<1>8. WriteIsNext' /\ TurnsAreOpen' /\ NothingIsForgotten'
  BY <1>1 DEF WriteIsNext, TurnsAreOpen, NothingIsForgotten, Writing, Turning, Publishing
<1>9. PeersAreKnown'
  <2>1. \A n \in DOMAIN comments : comments[n].reviewer \in Reviewers
    BY CommentFields DEF RoundInv
  <2>2. AnchorsKnown'
    BY <1>1, <1>3, <2>1 DEF AnchorsKnown, HasAnchor
  <2> QED BY <1>1, <2>2 DEF PeersAreKnown, Resuming, Writing, TurnsAreIndependent
<1> QED BY <1>1, <1>5, <1>6, <1>7, <1>8, <1>9, DurableStays DEF RoundInv, RunInv, outside

(* Either the round has no fresh turn to start, and the carriers are to be  *)
(* finished, or nothing is posted and nothing that is public is unfinished. *)
LEMMA PreflightStep ==
  ASSUME ConstantsAreSound, RoundInv, Preflight
  PROVE  RoundInv'
<1>1. pc = "gate" /\ UNCHANGED <<spool, comments, turns, faults, outside>> /\ run \in Memories
  BY DEF Preflight, RoundInv, Types
<1>2. CASE Stop
  BY <1>1, <1>2, StopIsSound
<1>3. CASE ~ Stop
  <2>1. /\ \A r \in Reviewers : Passes(r)
        /\ NeedsFreshTurn => Deferrable
    BY <1>3 DEF Preflight
  <2> DEFINE S == {r \in Reviewers : ~ NeedsFreshTurn /\ Pending(r)}
  <2>2. PICK plans \in Ordered(S) :
          /\ run' = [run EXCEPT !.queue = plans]
          /\ pc' = IF plans = <<>> THEN "launch" ELSE "suffix"
          /\ UNCHANGED post
    BY <1>3 DEF Preflight
  <2>3. /\ plans \in Seq(Reviewers)
        /\ \A n \in DOMAIN plans : plans[n] \in S
        /\ \A m, n \in DOMAIN plans : plans[m] = plans[n] => m = n
    BY <2>2, OrderedQueue
  <2>4. /\ run' \in Memories /\ run'.queue = plans /\ run'.ctx = run.ctx
        /\ run'.completed = run.completed /\ run'.accepted = run.accepted
        /\ run'.working = run.working /\ run'.outcome = run.outcome
        /\ run'.replayed = run.replayed
    BY <1>1, <2>2, <2>3 DEF Memories
  <2>5. pc' \in {"launch", "suffix"} /\ (pc' = "suffix" => plans # <<>>)
    BY <2>2
  <2>6. InPreflight /\ InPreflight'
    BY <1>1, <2>4 DEF RoundInv, RunInv, Phases, InPreflight, NoRun
  <2>7. Types'
    BY <1>1, <2>2, <2>4, <2>5, RunIsTyped DEF RoundInv, Types, TypeOK, Writes
  <2>8. Context'
    BY <1>1, <2>4 DEF RoundInv, RunInv, Context, Running, HasResponse, HasAnchor, outside
  <2>9. Phases'
    BY <2>3, <2>4, <2>5, <2>6 DEF RoundInv, RunInv, Phases, InPreflight
  <2>10. \A r \in S : ~ NeedsFreshTurn /\ Unfinished(r)
    <3> SUFFICES ASSUME NEW r \in S
                 PROVE  ~ NeedsFreshTurn /\ Unfinished(r)
      OBVIOUS
    <3>1. /\ r \in Reviewers /\ ~ NeedsFreshTurn /\ spool[r].kind = "carrier"
          /\ Classified(r) < 2 /\ spool[r].actor = actor
      BY <2>1 DEF Pending, Passes, Resumable, Anchor
    <3>2. Classified(r) = IF Public(r, Anchor, spool[r].turn)
                          THEN IF Public(r, Sidecar, spool[r].turn) THEN 2 ELSE 3
                          ELSE IF Public(r, Sidecar, spool[r].turn) THEN 1 ELSE 0
      BY <3>1, CarrierStatus DEF RoundInv, Refused
    <3>3. ~ Public(r, Anchor, spool[r].turn)
      BY <3>1, <3>2
    <3> QED BY <3>1, <3>3 DEF Unfinished
  <2>11. QueueIsReady'
    <3>1. \A r : Unfinished(r) => Unfinished(r)'
      BY <1>1 DEF Unfinished, Public, outside
    <3>2. \A n \in DOMAIN plans : Unfinished(plans[n])'
      <4> SUFFICES ASSUME NEW n \in DOMAIN plans, NEW r, r = plans[n]
                   PROVE  Unfinished(r)'
        OBVIOUS
      <4> QED BY <2>3, <2>10, <3>1
    <3> QED BY <2>4, <2>5, <3>2 DEF QueueIsReady, Writing, Turning, Publishing
  <2>12. WriteIsNext' /\ TurnsAreOpen' /\ NothingIsForgotten'
    BY <2>5 DEF WriteIsNext, TurnsAreOpen, NothingIsForgotten, Writing, Turning, Publishing
  <2>13. PeersAreKnown'
    <3>1. NeedsFreshTurn' <=> NeedsFreshTurn
      BY <1>1, <2>4 DEF NeedsFreshTurn, Replayable, HasResponse, outside
    <3>2. pc' = "suffix" => ~ NeedsFreshTurn
      <4> SUFFICES ASSUME pc' = "suffix" PROVE ~ NeedsFreshTurn
        OBVIOUS
      <4>1. plans # <<>> /\ plans \in Seq(Reviewers)
        BY <2>3, <2>5
      <4>2. 1 \in DOMAIN plans
        BY <4>1, EmptySeq, LenProperties
      <4> QED BY <4>2, <2>3, <2>10
    <3>3. AnchorsKnown'
      BY <1>1, <2>4 DEF RoundInv, RunInv, PeersAreKnown, AnchorsKnown
    <3>4. ASSUME NeedsFreshTurn, NEW r \in Reviewers PROVE Quiet(r)
      <4>1. spool[r].kind = "legacy" => LegacyClean(r)
        BY <2>1 DEF Passes
      <4>2. ASSUME spool[r].kind = "carrier", Public(r, Sidecar, spool[r].turn)
            PROVE  Public(r, Anchor, spool[r].turn)
        <5>1. Classified(r) # Sidecar /\ spool[r].actor = actor
          BY <2>1, <3>4, <4>2 DEF Deferrable, Partial, Passes, Resumable
        <5>2. ~ Public(r, Anchor, spool[r].turn) => Classified(r) = 1
          BY <4>2, <5>1, CarrierStatus DEF RoundInv
        <5> QED BY <5>1, <5>2 DEF Sidecar
      <4> QED BY <4>1, <4>2 DEF Quiet
    <3>5. \A r : Quiet(r) => Quiet(r)'
      BY <1>1 DEF Quiet, LegacyClean, Public
    <3> QED BY <2>5, <3>1, <3>2, <3>3, <3>4, <3>5
            DEF PeersAreKnown, Resuming, Writing, TurnsAreIndependent
  <2>14. Durable'
    BY <1>1, DurableStays DEF RoundInv, outside
  <2> QED BY <2>7, <2>8, <2>9, <2>11, <2>12, <2>13, <2>14 DEF RoundInv, RunInv
<1> QED BY <1>2, <1>3

-----------------------------------------------------------------------------
(* The turns *)

(* A reviewer whose turn is started, when its review was not rejected, has  *)
(* nothing public and nothing frozen; and then every public review is known.*)
LEMMA LaunchedIsFresh ==
  ASSUME RoundInv, pc = "launch", NEW again \in BOOLEAN, Launchable(again),
         NEW r \in Launched \ Rejected
  PROVE  /\ Stuck(r) /\ AnchorsKnown /\ \A p \in Reviewers : Quiet(p)
<1>1. /\ r \in Waiting \ Rejected /\ r \in Reviewers
      /\ spool[r].kind # "failure" /\ ~ Replayable(r)
  BY DEF Launched, Replayed, Waiting
<1>2. NeedsFreshTurn
  BY <1>1 DEF NeedsFreshTurn, Waiting
<1>3. AnchorsKnown /\ \A p \in Reviewers : Quiet(p)
  BY <1>2 DEF RoundInv, RunInv, PeersAreKnown
<1>4. spool[r].kind # "carrier"
  BY <1>1 DEF Launchable
<1>5. spool[r].kind = "legacy" =>
        \A n \in DOMAIN comments : comments[n].reviewer = r => comments[n].index # Sidecar
  BY <1>1, <1>3 DEF Quiet, LegacyClean
<1> QED BY <1>1, <1>3, <1>4, <1>5 DEF Stuck

(* The launcher starts the turns of a round and replays what is stored.     *)
LEMMA LaunchStep ==
  ASSUME ConstantsAreSound, RoundInv, Launch
  PROVE  RoundInv'
<1>1. /\ pc = "launch" /\ UNCHANGED <<comments, faults, outside>> /\ run \in Memories
      /\ spool' = [r \in Reviewers |-> IF r \in Rejected THEN Absent ELSE spool[r]]
  BY DEF Launch, RoundInv, Types
<1>2. /\ spool' \in [Reviewers -> Records]
      /\ \A r \in Reviewers : spool'[r] = IF r \in Rejected THEN Absent ELSE spool[r]
  BY <1>1 DEF RoundInv, Types, TypeOK, Records
<1>3. PICK again \in BOOLEAN :
        IF ~ Launchable(again)
        THEN Stop /\ UNCHANGED turns
        ELSE /\ \E order \in Ordered({r \in Replayed : HasResponse(r)}) :
                run' = [run EXCEPT
                  !.working = Launched,
                  !.replayed = Replayed,
                  !.outcome = [r \in Reviewers |->
                    IF r \notin Replayed THEN "none"
                    ELSE IF spool[r].kind = "failure" THEN "unavailable"
                    ELSE "response"],
                  !.queue = order]
             /\ turns' = [r \in Reviewers |-> turns[r] + IF r \in Launched THEN 1 ELSE 0]
             /\ pc' = "turns"
             /\ UNCHANGED post
  BY DEF Launch
<1>4. Rejected \subseteq Reviewers /\ \A r \in Rejected : HasAnchor(r)
  BY DEF Rejected, Waiting, RoundInv, RunInv, Context
<1>5. turns \in [Reviewers -> Nat]
  BY DEF RoundInv, Types, TypeOK
<1>6. /\ turns' \in [Reviewers -> Nat]
      /\ \A r \in Reviewers : turns[r] <= turns'[r]
      /\ Launchable(again) => \A r \in Launched : r \in Reviewers => turns'[r] = turns[r] + 1
  <2>1. CASE ~ Launchable(again)
    BY <1>3, <1>5, <2>1
  <2>2. CASE Launchable(again)
    <3>1. turns' = [r \in Reviewers |-> turns[r] + IF r \in Launched THEN 1 ELSE 0]
      BY <1>3, <2>2
    <3> QED BY <1>5, <3>1
  <2> QED BY <2>1, <2>2
<1>7. /\ Durable'
      /\ \A r \in Reviewers : HasResponse(r)' => HasResponse(r) /\ spool'[r] = spool[r]
  <2>1. \A n \in DOMAIN comments :
          HasAnchor(comments[n].reviewer) \/ spool'[comments[n].reviewer] = spool[comments[n].reviewer]
    BY <1>2, <1>4, CommentFields DEF RoundInv
  <2> QED BY <1>1, <1>2, <1>6, <2>1, DroppingKeeps DEF RoundInv, outside
<1>8. \A r \in Reviewers : HasResponse(r)' => spool'[r].turn \in 1 .. turns'[r]
  <2> SUFFICES ASSUME NEW r \in Reviewers, HasResponse(r)'
               PROVE  spool'[r].turn \in 1 .. turns'[r]
    OBVIOUS
  <2>1. spool'[r].turn \in 1 .. turns[r]
    BY <1>7 DEF RoundInv, Types, TypeOK
  <2> QED BY <2>1, <1>5, <1>6
<1>9. CASE ~ Launchable(again)
  <2>1. Stop /\ UNCHANGED turns
    BY <1>3, <1>9
  <2>2. run' \in Memories /\ post' \in Writes /\ run'.accepted \subseteq run'.completed
        /\ run'.ctx \in Versions /\ run'.outcome \in [Reviewers -> Outcomes]
    BY <2>1, NoRunTyped DEF Stop, Writes, NoRun, ConstantsAreSound, Memories
  <2>3. TypeOK'
    BY <1>1, <1>2, <1>6, <1>8, <2>1, <2>2 DEF RoundInv, Types, TypeOK, Writes, outside, Stop
  <2>4. RunInv'
    BY <1>1, <2>1, EndIsSound DEF Stop, RoundInv, Types, TypeOK, outside
  <2> QED BY <1>7, <2>2, <2>3, <2>4 DEF RoundInv, Types, Memories
<1>10. CASE Launchable(again)
  <2> DEFINE S == {r \in Replayed : HasResponse(r)}
             o == [r \in Reviewers |-> IF r \notin Replayed THEN "none"
                                       ELSE IF spool[r].kind = "failure" THEN "unavailable"
                                       ELSE "response"]
  <2>1. PICK order \in Ordered(S) :
          run' = [run EXCEPT !.working = Launched, !.replayed = Replayed,
                             !.outcome = o, !.queue = order]
    BY <1>3, <1>10
  <2>2. pc' = "turns" /\ UNCHANGED post
    BY <1>3, <1>10
  <2>3. Launched \subseteq Reviewers /\ Replayed \subseteq Reviewers /\ S \in SUBSET Reviewers
        /\ Launched \cap Replayed = {}
    BY DEF Launched, Replayed, Waiting
  <2>4. o \in [Reviewers -> Outcomes]
    BY DEF Outcomes
  <2>5. /\ order \in Seq(Reviewers)
        /\ \A n \in DOMAIN order : order[n] \in S
        /\ \A m, n \in DOMAIN order : order[m] = order[n] => m = n
        /\ \A r \in S : \E n \in DOMAIN order : order[n] = r
    BY <2>1, <2>3, OrderedQueue
  <2>6. /\ \A r \in Reviewers : r \notin Replayed => o[r] = "none"
        /\ \A r \in S : o[r] = "response"
        /\ \A r \in Reviewers : o[r] = "response" => r \in S
    <3>1. \A r \in S : spool[r].kind # "failure"
      BY DEF HasResponse, Responses
    <3>2. \A r \in Replayed : spool[r].kind # "failure" => HasResponse(r)
      BY DEF Replayed, Replayable
    <3> QED BY <2>3, <3>1, <3>2
  <2> HIDE DEF S, o
  <2>7. /\ run' \in Memories /\ run'.queue = order /\ run'.ctx = run.ctx
        /\ run'.completed = run.completed /\ run'.accepted = run.accepted
        /\ run'.working = Launched /\ run'.outcome = o
        /\ run'.replayed = Replayed
    BY <1>1, <2>1, <2>3, <2>4, <2>5 DEF Memories
  <2>8. Types'
    <3>1. run'.accepted \subseteq run'.completed /\ run'.ctx \in Versions
          /\ run'.outcome \in [Reviewers -> Outcomes]
      BY <2>4, <2>7 DEF RoundInv, Types, TypeOK, Memories
    <3>2. TypeOK'
      BY <1>1, <1>2, <1>6, <1>8, <2>2, <3>1 DEF RoundInv, Types, TypeOK, outside
    <3> QED BY <2>7, <3>2 DEF Types, Memories
  <2>9. Running /\ Running' /\ Turning' /\ ~ Publishing' /\ ~ Writing'
    BY <1>1, <2>2 DEF Running, Turning, Publishing, Writing
  <2>10. Context'
    BY <1>1, <1>7, <2>7, <2>9 DEF RoundInv, RunInv, Context, HasAnchor, outside
  <2>11. Phases'
    BY <2>2, <2>3, <2>5, <2>7 DEF Phases
  <2>12. S \cap Rejected = {} /\ S \subseteq Replayed
         /\ \A r \in S : HasResponse(r) /\ spool'[r] = spool[r] /\ HasResponse(r)'
    <3>1. S \cap Rejected = {} /\ \A r \in S : HasResponse(r)
      BY DEF S, Replayed
    <3> QED BY <3>1, <1>2, <2>3 DEF HasResponse, S
  <2>13. QueueIsReady'
    <3>1. \A n \in DOMAIN order : HasResponse(order[n])'
      <4> SUFFICES ASSUME NEW n \in DOMAIN order, NEW r, r = order[n]
                   PROVE  HasResponse(r)'
        OBVIOUS
      <4> QED BY <2>5, <2>12
    <3> QED BY <2>2, <2>5, <2>6, <2>7, <2>9, <3>1 DEF QueueIsReady
  <2>14. WriteIsNext'
    BY <2>2, <2>9 DEF WriteIsNext
  <2>15. \A r \in Launched : HasResponse(r)' => r \notin Rejected /\ Stuck(r)
    BY <1>1, <1>2, <1>10, <2>3, LaunchedIsFresh DEF HasResponse, Responses, Absent
  <2>16. \A r \in Reviewers : HasResponse(r)' /\ Stuck(r) => Stuck(r)'
    BY <1>1, <1>7, <2>7 DEF Stuck, Replayable, HasResponse, outside
  <2>17. TurnsAreOpen'
    <3> SUFFICES ASSUME NEW r \in Reviewers
                 PROVE  /\ Open(r)' =>
                             /\ turns'[r] >= 1
                             /\ \A n \in DOMAIN comments :
                                  comments[n].reviewer = r => comments[n].turn # turns'[r]
                             /\ HasResponse(r)' => Stuck(r)'
                        /\ run'.outcome[r] = "response" => r \in Queued'
                        /\ r \in run'.working => run'.outcome[r] = "none"
      BY <1>1 DEF TurnsAreOpen
    <3>1. Open(r)' => r \in Launched
      BY <2>6, <2>7 DEF Open
    <3>2. ASSUME r \in Launched
          PROVE  /\ turns'[r] >= 1
                 /\ \A n \in DOMAIN comments :
                       comments[n].reviewer = r => comments[n].turn # turns'[r]
      <4>1. turns'[r] = turns[r] + 1 /\ turns[r] \in Nat
        BY <1>5, <1>6, <1>10, <3>2
      <4>2. \A n \in DOMAIN comments :
              comments[n].reviewer = r => comments[n].turn <= turns[r] /\ comments[n].turn \in Nat
        BY CommentFields DEF RoundInv, Durable, TurnsAreCounted
      <4> QED BY <4>1, <4>2
    <3>3. run'.outcome[r] = "response" => r \in Queued'
      BY <2>5, <2>6, <2>7 DEF Queued
    <3>4. r \in Launched => run'.outcome[r] = "none"
      BY <2>3, <2>6, <2>7
    <3> QED BY <2>7, <2>15, <2>16, <3>1, <3>2, <3>3, <3>4
  <2>18. NothingIsForgotten'
    <3> SUFFICES ASSUME NEW r \in Reviewers, HasResponse(r)'
                 PROVE  r \in Queued' \/ HasAnchor(r)' \/ Stuck(r)'
      BY DEF NothingIsForgotten
    <3>1. HasResponse(r)
      BY <1>7
    <3>2. CASE r \in Replayed
      <4>1. r \in S
        BY <3>1, <3>2 DEF S
      <4> QED BY <4>1, <2>5, <2>7 DEF Queued
    <3>3. CASE r \in Launched
      BY <3>3, <2>15, <2>16
    <3>4. CASE r \in run.accepted
      BY <1>1, <3>4 DEF RoundInv, Types, TypeOK, RunInv, Context, HasAnchor
    <3> QED BY <3>2, <3>3, <3>4 DEF Launched, Waiting
  <2>19. PeersAreKnown'
    <3> SUFFICES ASSUME NEW r \in Launched \ run.completed, NEW n \in DOMAIN comments,
                        NEW p, p = comments[n].reviewer, p # r
                 PROVE  /\ comments[n].index # Anchor
                        /\ disturbed \cap {"spool", "comments"} # {}
      BY <1>1, <2>2, <2>7, <2>9 DEF PeersAreKnown, TurnsAreIndependent, Resuming, outside
    <3>1. r \in Launched \ Rejected
      BY DEF Rejected
    <3>2. AnchorsKnown /\ \A q \in Reviewers : Quiet(q)
      BY <1>1, <1>10, <3>1, LaunchedIsFresh
    <3>3. p \in Reviewers /\ comments[n].index \in {Sidecar, Anchor} /\ r \in Reviewers
      BY <2>3, CommentFields DEF RoundInv
    <3>4. ~ HasAnchor(p)
      <4> SUFFICES ASSUME HasAnchor(p) PROVE FALSE
        OBVIOUS
      <4>1. p \in run.completed
        BY <3>2 DEF HasAnchor, AnchorsKnown
      <4>2. p \in PublicPeers(r, again)
        BY <4>1, <3>3 DEF PublicPeers
      <4>3. PublicPeers(r, again) = {}
        BY <1>10 DEF Launchable
      <4> QED BY <4>2, <4>3
    <3>5. comments[n].index # Anchor
      BY <3>4 DEF HasAnchor
    <3>6. ASSUME disturbed \cap {"spool", "comments"} = {} PROVE FALSE
      <4>1. \/ spool[p].kind = "legacy"
            \/ spool[p].kind = "carrier" /\ comments[n].turn = spool[p].turn
        BY <3>3, <3>4, <3>5, <3>6 DEF RoundInv, Durable, SidecarIsAccounted
      <4>2. comments[n].index = Sidecar
        BY <3>3, <3>5
      <4>3. CASE spool[p].kind = "legacy"
        BY <4>2, <4>3, <3>2, <3>3 DEF Quiet, LegacyClean
      <4>4. CASE spool[p].kind = "carrier" /\ comments[n].turn = spool[p].turn
        <5>1. Public(p, Anchor, spool[p].turn)
          BY <4>2, <4>4, <3>2, <3>3 DEF Quiet, Public
        <5> QED BY <5>1, <3>4 DEF Public, HasAnchor
      <4> QED BY <4>1, <4>3, <4>4
    <3> QED BY <3>5, <3>6
  <2> QED BY <1>7, <2>8, <2>10, <2>11, <2>13, <2>14, <2>17, <2>18, <2>19 DEF RoundInv, RunInv
<1> QED BY <1>9, <1>10

(* A turn returns: a response joins the queue.                              *)
LEMMA TurnReturnsStep ==
  ASSUME ConstantsAreSound, RoundInv, NEW f \in Reviewers, TurnReturns(f)
  PROVE  RoundInv'
<1>1. /\ pc = "turns" /\ pc' = "turns" /\ f \in run.working /\ run \in Memories
      /\ UNCHANGED <<spool, comments, turns, post, outside>>
  BY DEF TurnReturns, RoundInv, Types
<1>2. PICK o \in {"response", "unavailable", "fatal"} :
        /\ (Fault \/ UNCHANGED faults)
        /\ run' = [run EXCEPT !.working = @ \ {f}, !.outcome[f] = o,
                              !.queue = IF o = "response" THEN Append(@, f) ELSE @]
  BY DEF TurnReturns
<1> DEFINE q == IF o = "response" THEN Append(run.queue, f) ELSE run.queue
           out == [run.outcome EXCEPT ![f] = o]
<1>3. run.queue \in Seq(Reviewers) /\ run.outcome \in [Reviewers -> Outcomes]
      /\ run.working \subseteq Reviewers
  BY <1>1 DEF Memories
<1>4. q \in Seq(Reviewers) /\ out \in [Reviewers -> Outcomes]
  <2>1. Append(run.queue, f) \in Seq(Reviewers)
    BY <1>3, AppendProperties
  <2> QED BY <1>3, <2>1 DEF Outcomes
<1>5. /\ out[f] = o /\ \A r \in Reviewers : r # f => out[r] = run.outcome[r]
  BY <1>3
<1>6. f \notin Queued
  BY <1>1 DEF Queued, RoundInv, RunInv, QueueIsReady, TurnsAreOpen, Turning
<1>7. /\ \A n \in DOMAIN q :
           (n \in DOMAIN run.queue /\ q[n] = run.queue[n]) \/ (q[n] = f /\ o = "response")
      /\ \A m, n \in DOMAIN q : q[m] = q[n] => m = n
      /\ \A n \in DOMAIN run.queue : n \in DOMAIN q /\ q[n] = run.queue[n]
      /\ o = "response" => \E n \in DOMAIN q : q[n] = f
  <2>1. \A m, n \in DOMAIN run.queue : run.queue[m] = run.queue[n] => m = n
    BY DEF RoundInv, RunInv, Phases
  <2>2. \A n \in DOMAIN run.queue : run.queue[n] # f
    BY <1>6 DEF Queued
  <2>3. CASE o # "response"
    BY <2>1, <2>3
  <2>4. CASE o = "response"
    <3> DEFINE N == Len(run.queue)
    <3>1. /\ N \in Nat /\ DOMAIN run.queue = 1 .. N /\ DOMAIN q = 1 .. N + 1
          /\ \A n \in 1 .. N : q[n] = run.queue[n]
          /\ q[N + 1] = f
      BY <2>4, <1>3, AppendProperties, LenProperties
    <3> HIDE DEF N, q
    <3>2. N + 1 \in 1 .. N + 1 /\ \A n \in 1 .. N + 1 : n \in 1 .. N \/ n = N + 1
      BY <3>1
    <3>3. \A n \in 1 .. N : n \in 1 .. N + 1
      BY <3>1
    <3> QED BY <2>1, <2>2, <2>4, <3>1, <3>2, <3>3
  <2> QED BY <2>3, <2>4
<1>8. /\ run' \in Memories /\ run'.queue = q /\ run'.ctx = run.ctx
      /\ run'.completed = run.completed /\ run'.accepted = run.accepted
      /\ run'.working = run.working \ {f} /\ run'.outcome = out
      /\ run'.replayed = run.replayed
  <2>1. run' = [run EXCEPT !.working = run.working \ {f}, !.outcome = out, !.queue = q]
    BY <1>1, <1>2 DEF Memories
  <2>2. run.working \ {f} \subseteq Reviewers
    BY <1>3
  <2> HIDE DEF q, out
  <2> QED BY <1>1, <1>4, <2>1, <2>2 DEF Memories
<1> HIDE DEF q, out
<1>9. Types'
  <2>1. run'.accepted \subseteq run'.completed
    BY <1>8 DEF RoundInv, Types, TypeOK
  <2>2. post' \in Writes /\ faults' \in 0 .. MaxFaults
    BY <1>1, <1>2, FaultIsCounted DEF RoundInv, Types, TypeOK, Writes
  <2> QED BY <1>1, <1>8, <2>1, <2>2, RunIsTyped DEF RoundInv
<1>10. Running /\ Turning /\ Turning' /\ ~ Publishing' /\ ~ Writing'
  BY <1>1 DEF Running, Turning, Publishing, Writing
<1>11. Context'
  BY <1>1, <1>8, <1>10 DEF RoundInv, RunInv, Context, HasAnchor, HasResponse, outside
<1>12. Phases'
  BY <1>1, <1>7, <1>8 DEF RoundInv, RunInv, Phases
<1>13. f \notin run.replayed /\ run.outcome[f] = "none"
  BY <1>1 DEF RoundInv, RunInv, Phases, TurnsAreOpen, Turning
<1>14. QueueIsReady'
  <2> SUFFICES ASSUME NEW n \in DOMAIN q, NEW r, r = q[n]
               PROVE  out[r] = "response" /\ (r \in run.replayed => HasResponse(r)')
    BY <1>1, <1>8, <1>10 DEF QueueIsReady
  <2>1. CASE n \in DOMAIN run.queue /\ q[n] = run.queue[n]
    <3>1. r \in Reviewers /\ r # f
      BY <2>1, <1>3, <1>6, ElementOfSeq, LenProperties DEF Queued
    <3>2. run.outcome[r] = "response" /\ (r \in run.replayed => HasResponse(r))
      BY <2>1, <1>10 DEF RoundInv, RunInv, QueueIsReady
    <3> QED BY <3>1, <3>2, <1>1, <1>5 DEF HasResponse
  <2>2. CASE q[n] = f /\ o = "response"
    BY <2>2, <1>5, <1>13
  <2> QED BY <2>1, <2>2, <1>7
<1>15. WriteIsNext'
  BY <1>1, <1>10 DEF WriteIsNext
<1>16. Queued \subseteq Queued' /\ (o = "response" => f \in Queued')
  BY <1>7, <1>8 DEF Queued
<1>17. \A r \in Reviewers : Stuck(r) => Stuck(r)'
  BY <1>1, <1>8 DEF Stuck, Replayable, HasResponse, outside
<1>18. TurnsAreOpen'
  <2> SUFFICES ASSUME NEW r \in Reviewers
               PROVE  /\ Open(r)' =>
                           /\ turns[r] >= 1
                           /\ \A n \in DOMAIN comments :
                                comments[n].reviewer = r => comments[n].turn # turns[r]
                           /\ HasResponse(r) => Stuck(r)'
                      /\ run'.outcome[r] = "response" => r \in Queued'
                      /\ r \in run'.working => run'.outcome[r] = "none"
    BY <1>1 DEF TurnsAreOpen, HasResponse
  <2>1. Open(r)' => Open(r)
    BY <1>1, <1>5, <1>8 DEF Open
  <2>2. /\ Open(r) =>
             /\ turns[r] >= 1
             /\ \A n \in DOMAIN comments :
                  comments[n].reviewer = r => comments[n].turn # turns[r]
             /\ HasResponse(r) => Stuck(r)
        /\ run.outcome[r] = "response" => r \in Queued
        /\ r \in run.working => run.outcome[r] = "none"
    BY <1>10 DEF RoundInv, RunInv, TurnsAreOpen
  <2>3. run'.outcome[r] = "response" => r \in Queued'
    BY <2>2, <1>5, <1>8, <1>16
  <2>4. r \in run'.working => run'.outcome[r] = "none"
    BY <2>2, <1>5, <1>8
  <2> QED BY <2>1, <2>2, <2>3, <2>4, <1>17
<1>19. NothingIsForgotten'
  <2>1. \A r : (HasAnchor(r) => HasAnchor(r)') /\ (HasResponse(r)' => HasResponse(r))
    BY <1>1 DEF HasAnchor, HasResponse
  <2> QED BY <2>1, <1>10, <1>16, <1>17 DEF RoundInv, RunInv, NothingIsForgotten
<1>20. PeersAreKnown'
  <2>1. TurnsAreIndependent'
    BY <1>1, <1>8 DEF RoundInv, RunInv, PeersAreKnown, TurnsAreIndependent, outside
  <2> QED BY <1>1, <1>10, <2>1 DEF PeersAreKnown, Resuming
<1> QED BY <1>1, <1>9, <1>11, <1>12, <1>14, <1>15, <1>18, <1>19, <1>20, DurableStays
        DEF RoundInv, RunInv, outside

(* Every turn has returned.                                                 *)
LEMMA TurnsReturnedStep ==
  ASSUME ConstantsAreSound, RoundInv, TurnsReturned
  PROVE  RoundInv'
<1>1. /\ pc = "turns" /\ run.working = {} /\ pc' = "store" /\ run \in Memories
      /\ UNCHANGED <<spool, comments, turns, run, post, faults, outside>>
  BY DEF TurnsReturned, RoundInv, Types
<1>2. Types'
  BY <1>1, RunIsTyped DEF RoundInv, Types, TypeOK, Writes
<1>3. Running /\ Turning /\ Turning' /\ ~ Publishing' /\ ~ Writing'
  BY <1>1 DEF Running, Turning, Publishing, Writing
<1>4. Context' /\ Phases'
  BY <1>1, <1>3 DEF RoundInv, RunInv, Context, Phases, HasAnchor, HasResponse, outside
<1>5. QueueIsReady' /\ WriteIsNext'
  BY <1>1, <1>3 DEF RoundInv, RunInv, QueueIsReady, WriteIsNext, HasResponse
<1>6. /\ Queued' = Queued
      /\ \A r : (Stuck(r) => Stuck(r)') /\ (Open(r)' => Open(r))
      /\ \A r : (HasAnchor(r) => HasAnchor(r)') /\ (HasResponse(r)' <=> HasResponse(r))
  BY <1>1 DEF Queued, Stuck, Open, Replayable, HasAnchor, HasResponse, outside
<1>7. TurnsAreOpen'
  BY <1>1, <1>3, <1>6 DEF RoundInv, RunInv, TurnsAreOpen
<1>8. NothingIsForgotten'
  BY <1>3, <1>6 DEF RoundInv, RunInv, NothingIsForgotten
<1>9. PeersAreKnown'
  BY <1>1, <1>3 DEF PeersAreKnown, Resuming, TurnsAreIndependent
<1> QED BY <1>1, <1>2, <1>4, <1>5, <1>7, <1>8, <1>9, DurableStays DEF RoundInv, RunInv, outside

(* The outcome of a turn is stored, over a record of no use if any.         *)
LEMMA StoreOutcomeStep ==
  ASSUME ConstantsAreSound, RoundInv, NEW f \in Reviewers, StoreOutcome(f)
  PROVE  RoundInv'
<1>1. /\ pc = "store" /\ pc' = "store" /\ run \in Memories
      /\ UNCHANGED <<comments, turns, post, faults, outside>>
      /\ f \notin run.replayed /\ run.outcome[f] \in {"response", "unavailable"}
      /\ run' = [run EXCEPT !.replayed = @ \cup {f}]
  BY DEF StoreOutcome, RoundInv, Types, Unstored, Settled
<1>2. PICK rec : /\ rec = IF run.outcome[f] = "response"
                         THEN [kind |-> "fresh", turn |-> turns[f], made |-> run.ctx]
                         ELSE [kind |-> "failure"]
                 /\ spool' = [spool EXCEPT ![f] = rec]
  BY DEF StoreOutcome
<1>3. /\ turns[f] \in Nat /\ run.ctx \in Versions /\ ctx \in Versions
      /\ spool \in [Reviewers -> Records] /\ turns \in [Reviewers -> Nat]
  BY DEF RoundInv, Types, TypeOK
<1>4. /\ rec \in Records /\ rec.kind \in {"fresh", "failure"}
      /\ rec.kind = "fresh" =>
           run.outcome[f] = "response" /\ rec.turn = turns[f] /\ rec.made = run.ctx
      /\ run.outcome[f] = "response" => rec.kind = "fresh"
  <2>1. CASE run.outcome[f] = "response"
    BY <2>1, <1>2, <1>3 DEF Records
  <2>2. CASE run.outcome[f] # "response"
    BY <2>2, <1>2 DEF Records
  <2> QED BY <2>1, <2>2
<1>5. /\ spool' \in [Reviewers -> Records] /\ spool'[f] = rec
      /\ \A r \in Reviewers : r # f => spool'[r] = spool[r]
  BY <1>2, <1>3, <1>4
<1>6. /\ run' \in Memories /\ run'.queue = run.queue /\ run'.ctx = run.ctx
      /\ run'.completed = run.completed /\ run'.accepted = run.accepted
      /\ run'.working = run.working /\ run'.outcome = run.outcome
      /\ run'.replayed = run.replayed \cup {f}
  BY <1>1 DEF Memories
<1>7. Running /\ Turning /\ Turning' /\ ~ Publishing' /\ ~ Writing' /\ run.working = {}
  BY <1>1 DEF Running, Turning, Publishing, Writing, RoundInv, RunInv, Phases
<1>8. Open(f)
  BY <1>1 DEF Open
<1>9. /\ turns[f] >= 1
      /\ run.outcome[f] = "response" => f \in Queued
      /\ \A n \in DOMAIN comments : comments[n].reviewer = f => comments[n].turn # turns[f]
      /\ HasResponse(f) => Stuck(f)
  BY <1>7, <1>8 DEF RoundInv, RunInv, TurnsAreOpen
<1>10. \A r \in Reviewers :
         r # f => (HasResponse(r)' <=> HasResponse(r)) /\ (Stuck(r) => Stuck(r)')
  BY <1>1, <1>5, <1>6 DEF HasResponse, Stuck, Replayable, outside
<1>11. HasResponse(f)' => rec.kind = "fresh"
  BY <1>4, <1>5 DEF HasResponse, Responses
<1>12. Types'
  <2>1. \A r \in Reviewers : HasResponse(r)' => spool'[r].turn \in 1 .. turns[r]
    <3> SUFFICES ASSUME NEW r \in Reviewers, HasResponse(r)'
                 PROVE  spool'[r].turn \in 1 .. turns[r]
      OBVIOUS
    <3>1. CASE r = f
      <4>1. turns[f] \in 1 .. turns[f]
        BY <1>3, <1>9
      <4> QED BY <3>1, <4>1, <1>4, <1>5, <1>11
    <3>2. CASE r # f
      BY <3>2, <1>5, <1>10 DEF RoundInv, Types, TypeOK
    <3> QED BY <3>1, <3>2
  <2>2. run'.accepted \subseteq run'.completed /\ run'.ctx \in Versions
        /\ run'.outcome \in [Reviewers -> Outcomes]
    BY <1>6 DEF RoundInv, Types, TypeOK
  <2>3. TypeOK'
    BY <1>1, <1>5, <2>1, <2>2 DEF RoundInv, Types, TypeOK, outside
  <2> QED BY <1>6, <2>3 DEF Types, Memories
<1>13. Durable'
  <2>1. NoBodyTwice' /\ AnchorsAreWhole' /\ TurnsAreCounted'
    BY <1>1 DEF RoundInv, Durable, NoBodyTwice, AnchorsAreWhole, TurnsAreCounted, outside
  <2>2. FreshIsUnposted'
    BY <1>1, <1>4, <1>5, <1>9 DEF RoundInv, Durable, FreshIsUnposted
  <2>3. CarrierNamesActor'
    BY <1>1, <1>4, <1>5 DEF RoundInv, Durable, CarrierNamesActor
  <2>4. SidecarIsAccounted'
    <3> SUFFICES ASSUME disturbed \cap {"spool", "comments"} = {}, NEW n \in DOMAIN comments,
                        comments[n].index = Sidecar, NEW r, r = comments[n].reviewer
                 PROVE  \/ HasAnchor(r)
                        \/ spool'[r].kind = "legacy"
                        \/ spool'[r].kind = "carrier" /\ comments[n].turn = spool'[r].turn
      BY <1>1 DEF SidecarIsAccounted, HasAnchor, outside
    <3>1. r \in Reviewers
      BY CommentFields DEF RoundInv
    <3>2. \/ HasAnchor(r)
          \/ spool[r].kind = "legacy"
          \/ spool[r].kind = "carrier" /\ comments[n].turn = spool[r].turn
      BY DEF RoundInv, Durable, SidecarIsAccounted
    <3>3. CASE r = f
      <4>1. spool[f].kind \in {"legacy", "carrier"} => Stuck(f)
        BY <1>9 DEF HasResponse, Responses
      <4> QED BY <3>2, <3>3, <4>1 DEF Stuck
    <3>4. CASE r # f
      BY <3>1, <3>2, <3>4, <1>5
    <3> QED BY <3>3, <3>4
  <2>5. MadeIsPast'
    <3>1. run.ctx <= ctx
      BY DEF RoundInv, RunInv, Context
    <3> QED BY <3>1, <1>1, <1>4, <1>5, <1>10, <1>11
            DEF RoundInv, Durable, MadeIsPast, outside
  <2> QED BY <2>1, <2>2, <2>3, <2>4, <2>5 DEF Durable
<1>14. Context'
  <2>1. run.ctx <= run.ctx
    BY <1>3 DEF Versions
  <2>2. \A r \in Reviewers : HasResponse(r)' => spool'[r].made <= run.ctx
    BY <2>1, <1>4, <1>5, <1>7, <1>10, <1>11 DEF RoundInv, RunInv, Context
  <2> QED BY <1>1, <1>6, <2>2 DEF RoundInv, RunInv, Context, HasAnchor, outside
<1>15. Phases'
  BY <1>1, <1>6, <1>7 DEF RoundInv, RunInv, Phases
<1>16. QueueIsReady'
  <2> SUFFICES ASSUME NEW n \in DOMAIN run.queue, NEW r, r = run.queue[n]
               PROVE  /\ run.outcome[r] = "response"
                      /\ r \in run.replayed \cup {f} => HasResponse(r)'
    BY <1>1, <1>6, <1>7 DEF QueueIsReady
  <2>1. r \in Reviewers
    BY <1>1, ElementOfSeq, LenProperties DEF Memories
  <2>2. run.outcome[r] = "response" /\ (r \in run.replayed => HasResponse(r))
    BY <1>7 DEF RoundInv, RunInv, QueueIsReady
  <2>3. r = f => HasResponse(r)'
    BY <2>2, <1>4, <1>5 DEF HasResponse, Responses
  <2> QED BY <2>1, <2>2, <2>3, <1>10
<1>17. WriteIsNext'
  BY <1>1, <1>7 DEF WriteIsNext
<1>18. Queued' = Queued /\ \A r : HasAnchor(r) => HasAnchor(r)'
  BY <1>1, <1>6 DEF Queued, HasAnchor
<1>19. TurnsAreOpen'
  <2> SUFFICES ASSUME NEW r \in Reviewers
               PROVE  /\ Open(r)' =>
                           /\ turns[r] >= 1
                           /\ \A n \in DOMAIN comments :
                                comments[n].reviewer = r => comments[n].turn # turns[r]
                           /\ HasResponse(r)' => Stuck(r)'
                      /\ run.outcome[r] = "response" => r \in Queued
                      /\ r \in run.working => run.outcome[r] = "none"
    BY <1>1, <1>6, <1>18 DEF TurnsAreOpen
  <2>1. Open(r)' => Open(r) /\ r # f
    BY <1>6, <1>7 DEF Open
  <2>2. /\ Open(r) =>
             /\ turns[r] >= 1
             /\ \A n \in DOMAIN comments :
                  comments[n].reviewer = r => comments[n].turn # turns[r]
             /\ HasResponse(r) => Stuck(r)
        /\ run.outcome[r] = "response" => r \in Queued
        /\ r \in run.working => run.outcome[r] = "none"
    BY <1>7 DEF RoundInv, RunInv, TurnsAreOpen
  <2> QED BY <2>1, <2>2, <1>10
<1>20. NothingIsForgotten'
  <2> SUFFICES ASSUME NEW r \in Reviewers, HasResponse(r)'
               PROVE  r \in Queued \/ HasAnchor(r)' \/ Stuck(r)'
    BY <1>18 DEF NothingIsForgotten
  <2>1. CASE r = f
    BY <2>1, <1>4, <1>9, <1>11
  <2>2. CASE r # f
    BY <2>2, <1>7, <1>10, <1>18 DEF RoundInv, RunInv, NothingIsForgotten
  <2> QED BY <2>1, <2>2
<1>21. PeersAreKnown'
  BY <1>1, <1>7 DEF PeersAreKnown, Resuming, TurnsAreIndependent
<1> QED BY <1>12, <1>13, <1>14, <1>15, <1>16, <1>17, <1>19, <1>20, <1>21 DEF RoundInv, RunInv

(* Every outcome is stored: the round is published, or withheld.            *)
LEMMA StoredStep ==
  ASSUME ConstantsAreSound, RoundInv, Stored
  PROVE  RoundInv'
<1>1. /\ pc = "store" /\ Unstored = {} /\ run \in Memories
      /\ UNCHANGED <<spool, comments, turns, faults, outside>>
  BY DEF Stored, RoundInv, Types
<1>2. CASE Stop
  BY <1>1, <1>2, StopIsSound
<1>3. CASE ~ Stop
  <2>1. pc' = "publish" /\ UNCHANGED <<run, post>>
    BY <1>3 DEF Stored
  <2>2. Types'
    BY <1>1, <2>1, RunIsTyped DEF RoundInv, Types, TypeOK, Writes
  <2>3. Running /\ Turning /\ ~ Turning' /\ Publishing' /\ ~ Writing'
    BY <1>1, <2>1 DEF Running, Turning, Publishing, Writing
  <2>4. Context' /\ Phases'
    BY <1>1, <2>1, <2>3 DEF RoundInv, RunInv, Context, Phases, HasAnchor, HasResponse, outside
  <2>5. QueueIsReady'
    <3> SUFFICES ASSUME NEW n \in DOMAIN run.queue, NEW r, r = run.queue[n]
                 PROVE  run.outcome[r] = "response" /\ HasResponse(r)
      BY <1>1, <2>1, <2>3 DEF QueueIsReady, HasResponse
    <3>1. r \in Reviewers
      BY <1>1, ElementOfSeq, LenProperties DEF Memories
    <3>2. run.outcome[r] = "response" /\ (r \in run.replayed => HasResponse(r))
      BY <2>3 DEF RoundInv, RunInv, QueueIsReady
    <3> QED BY <3>1, <3>2, <1>1 DEF Unstored, Settled
  <2>6. WriteIsNext' /\ TurnsAreOpen'
    BY <2>1, <2>3 DEF WriteIsNext, TurnsAreOpen
  <2>7. NothingIsForgotten'
    <3>1. /\ Queued' = Queued
          /\ \A r : Stuck(r) => Stuck(r)'
          /\ \A r : (HasAnchor(r) => HasAnchor(r)') /\ (HasResponse(r)' <=> HasResponse(r))
      BY <1>1, <2>1 DEF Queued, Stuck, Replayable, HasAnchor, HasResponse, outside
    <3> QED BY <2>3, <3>1 DEF RoundInv, RunInv, NothingIsForgotten
  <2>8. PeersAreKnown'
    BY <2>1, <2>3 DEF PeersAreKnown, Resuming, TurnsAreIndependent
  <2> QED BY <1>1, <2>2, <2>4, <2>5, <2>6, <2>7, <2>8, DurableStays DEF RoundInv, RunInv, outside
<1> QED BY <1>2, <1>3

-----------------------------------------------------------------------------
(* The theorems *)

(* A round starts soundly, with or without the record of an older version.  *)
LEMMA RoundStarts ==
  ASSUME ConstantsAreSound, Init
  PROVE  RoundInv
<1>1. /\ ctx = 0 /\ rejects = {} /\ actor \in Actors /\ pc = "idle" /\ run = NoRun
      /\ post = NoPost /\ faults = 0
  BY DEF Init
<1>2. /\ run \in Memories /\ post \in Writes /\ faults \in 0 .. MaxFaults /\ ctx \in Versions
      /\ run.accepted \subseteq run.completed /\ run.ctx \in Versions
      /\ run.outcome \in [Reviewers -> Outcomes]
  BY <1>1, NoRunTyped DEF Writes, ConstantsAreSound, Versions, NoRun, Memories
<1>3. RunInv
  BY <1>1, <1>2, NoRunIsSound
<1>4. CASE /\ spool = [r \in Reviewers |-> Absent] /\ comments = <<>>
           /\ turns = [r \in Reviewers |-> 0] /\ disturbed = {}
  <2>1. DOMAIN comments = {} /\ comments \in Seq(Bodied)
    BY <1>4, EmptySeq
  <2>2. \A r \in Reviewers : spool[r].kind = "absent" /\ ~ HasResponse(r)
    BY <1>4 DEF Absent, HasResponse, Responses
  <2>3. TypeOK
    BY <1>1, <1>2, <1>4, <2>1, <2>2 DEF TypeOK, Writes, Bodied, Records
  <2>4. Durable
    BY <2>1, <2>2 DEF Durable, NoBodyTwice, AnchorsAreWhole, TurnsAreCounted, FreshIsUnposted,
                      CarrierNamesActor, SidecarIsAccounted, MadeIsPast
  <2> QED BY <1>2, <1>3, <2>3, <2>4 DEF RoundInv, Types
<1>5. ASSUME NEW f \in Reviewers, NEW k \in 0 .. 2, NEW a \in Actors,
             spool = [s \in Reviewers |-> IF s = f THEN Legacy(1) ELSE Absent],
             comments = [i \in 1 .. k |-> Body(f, i, 1, a, 0)],
             turns = [s \in Reviewers |-> IF s = f THEN 1 ELSE 0],
             disturbed = {"legacy"}
      PROVE  RoundInv
  <2>1. /\ spool[f].kind = "legacy" /\ spool[f].turn = 1 /\ spool[f].made = 0
        /\ \A r \in Reviewers : r # f => spool[r].kind = "absent"
        /\ \A r \in Reviewers : HasResponse(r) => r = f
    BY <1>5 DEF Legacy, Absent, HasResponse, Responses
  <2>2. /\ DOMAIN comments = 1 .. k
        /\ \A n \in 1 .. k : /\ comments[n].reviewer = f /\ comments[n].index = n
                              /\ comments[n].turn = 1 /\ comments[n] \in Bodied
    <3>1. \A n \in 1 .. k : n \in Bodies
      BY DEF Bodies, Sidecar, Anchor
    <3> QED BY <1>5, <3>1 DEF Body, Bodied, Versions
  <2>3. comments \in Seq(Bodied)
    <3>1. comments \in [1 .. k -> Bodied]
      BY <1>5, <2>2
    <3> QED BY <3>1
  <2>4. spool \in [Reviewers -> Records] /\ turns \in [Reviewers -> Nat] /\ turns[f] = 1
    <3>1. Legacy(1) \in Records /\ Absent \in Records
      BY DEF Legacy, Records, Versions
    <3> QED BY <1>5, <3>1
  <2>5. TypeOK
    BY <1>1, <1>2, <1>5, <2>1, <2>3, <2>4 DEF TypeOK, Writes, Bodied, Disturbances
  <2>6. NoBodyTwice /\ TurnsAreCounted /\ FreshIsUnposted /\ CarrierNamesActor
    BY <2>1, <2>2, <2>4 DEF NoBodyTwice, TurnsAreCounted, FreshIsUnposted, CarrierNamesActor
  <2>7. AnchorsAreWhole
    <3> SUFFICES ASSUME NEW n \in 1 .. k, n = 2
                 PROVE  \E m \in 1 .. n : /\ comments[m].reviewer = comments[n].reviewer
                                          /\ comments[m].turn = comments[n].turn
                                          /\ comments[m].index = 1
      BY <2>2 DEF AnchorsAreWhole, Sidecar, Anchor
    <3>1. 1 \in 1 .. n /\ 1 \in 1 .. k
      OBVIOUS
    <3> QED BY <2>2, <3>1
  <2>8. SidecarIsAccounted /\ MadeIsPast
    BY <1>1, <2>1, <2>2 DEF SidecarIsAccounted, MadeIsPast
  <2> QED BY <1>2, <1>3, <2>5, <2>6, <2>7, <2>8 DEF RoundInv, Types, Durable
<1> QED BY <1>4, <1>5 DEF Init

(* Every step keeps the round sound.                                        *)
LEMMA RoundStep ==
  ASSUME ConstantsAreSound, RoundInv, [Next]_vars
  PROVE  RoundInv'
<1>1. CASE StartRun \/ Preflight \/ Launch
  BY <1>1, StartRunStep, PreflightStep, LaunchStep
<1>2. CASE PreflightUnread \/ PrepareUnread \/ WriteRefused \/ ReconcileUnread \/ Crash
  BY <1>2, FailureStep
<1>3. CASE TurnsReturned \/ Stored \/ \E r \in Reviewers : TurnReturns(r) \/ StoreOutcome(r)
  BY <1>3, TurnsReturnedStep, StoredStep, TurnReturnsStep, StoreOutcomeStep
<1>4. CASE Prepare \/ PostSuffix \/ WriteAnswered \/ WriteUnanswered \/ Reconcile
  BY <1>4, PrepareStep, PostSuffixStep, WriteAnsweredStep, WriteUnansweredStep, ReconcileStep
<1>5. CASE RemoveRecord \/ DiscardSpool
  BY <1>5, RemoveRecordStep, DiscardSpoolStep
<1>6. CASE RequirementsChange \/ ActorChanges \/ CommentsDeleted \/ SpoolLost
  BY <1>6, RequirementsStep, ActorStep, CommentsStep, SpoolLostStep
<1>7. CASE UNCHANGED vars
  <2>1. Types'
    BY <1>7, RunIsTyped DEF RoundInv, Types, TypeOK, Writes, vars, outside
  <2>2. Durable'
    BY <1>7, DurableStays DEF RoundInv, vars
  <2>3. Context' /\ Phases'
    BY <1>7 DEF RoundInv, RunInv, Context, Phases, Running, InPreflight, HasAnchor, HasResponse, vars
  <2>4. QueueIsReady' /\ WriteIsNext'
    BY <1>7 DEF RoundInv, RunInv, QueueIsReady, WriteIsNext, Writing, Turning, Publishing,
                InPreflight, Unfinished, Public, HasResponse, HasAnchor, First, vars
  <2>5. TurnsAreOpen' /\ NothingIsForgotten'
    BY <1>7 DEF RoundInv, RunInv, TurnsAreOpen, NothingIsForgotten, Turning, Publishing, Writing,
                InPreflight, Open, Stuck, Replayable, HasResponse, HasAnchor, Queued, vars
  <2>6. PeersAreKnown'
    BY <1>7 DEF RoundInv, RunInv, PeersAreKnown, AnchorsKnown, Resuming, Writing, InPreflight,
                NeedsFreshTurn, Replayable, HasResponse, Quiet, LegacyClean, Public,
                TurnsAreIndependent, vars
  <2> QED BY <2>1, <2>2, <2>3, <2>4, <2>5, <2>6 DEF RoundInv, RunInv
<1> QED BY <1>1, <1>2, <1>3, <1>4, <1>5, <1>6, <1>7 DEF Next, Program

(* The round is sound after any crash, failure, retry and restart.          *)
THEOREM RoundInvariant == ASSUME ConstantsAreSound PROVE Spec => []RoundInv
<1>1. Init => RoundInv
  BY RoundStarts
<1>2. RoundInv /\ [Next]_vars => RoundInv'
  BY RoundStep
<1> QED BY <1>1, <1>2, PTL DEF Spec

(* Every variable has its type, and no record is of a turn that was not run.*)
THEOREM RoundTyping == ASSUME ConstantsAreSound PROVE Spec => []TypeOK
<1>1. RoundInv => TypeOK
  BY DEF RoundInv, Types
<1> QED BY <1>1, RoundInvariant, PTL

(* No body of a review is public twice, and no anchor without its sidecar   *)
(* (publication_resume.py:18 and 158).                                      *)
THEOREM BodySoundness == ASSUME ConstantsAreSound PROVE Spec => []BodiesAreSound
<1>1. RoundInv => BodiesAreSound
  BY DEF RoundInv, Durable, BodiesAreSound
<1> QED BY <1>1, RoundInvariant, PTL

(* No new reviewer works beside a public review, nor beside an attachment   *)
(* of one while the spool and the comments are left alone                   *)
(* (review_rounds.py:1261).                                                 *)
THEOREM TurnIndependence == ASSUME ConstantsAreSound PROVE Spec => []TurnsAreIndependent
<1>1. RoundInv => TurnsAreIndependent
  BY DEF RoundInv, RunInv, PeersAreKnown
<1> QED BY <1>1, RoundInvariant, PTL

(* A response that validates now is one that the run at work can use.       *)
LEMMA ValidIsNotStuck ==
  ASSUME RoundInv, Running, NEW r \in Reviewers, HasResponse(r),
         spool[r].made = ctx \/ r \notin rejects
  PROVE  ~ Stuck(r)
<1>1. spool[r].made <= run.ctx /\ run.ctx <= ctx
  BY DEF RoundInv, RunInv, Context
<1>2. spool[r].made \in Versions /\ run.ctx \in Versions /\ ctx \in Versions
  BY RecordFields DEF RoundInv, Types, TypeOK, HasResponse
<1>3. spool[r].made = ctx => spool[r].made = run.ctx
  BY <1>1, <1>2 DEF Versions
<1> QED BY <1>3 DEF Stuck, Replayable

(* Which steps take a response out of the spool.                            *)
LEMMA ResponseStep ==
  ASSUME ConstantsAreSound, RoundInv, [Next]_vars, NEW r \in Reviewers, HasResponse(r),
         spool[r].made = ctx \/ r \notin rejects
  PROVE  \/ HasResponse(r)' /\ spool'[r].turn = spool[r].turn
         \/ HasAnchor(r)
         \/ "spool" \in disturbed'
<1>1. Running => ~ Stuck(r)
  BY ValidIsNotStuck
<1>2. CASE UNCHANGED spool
  BY <1>2 DEF HasResponse
<1>3. CASE Launch
  <2>1. spool'[r] = IF r \in Rejected THEN Absent ELSE spool[r]
    BY <1>3 DEF Launch
  <2>2. r \in Rejected => HasAnchor(r)
    BY DEF Rejected, RoundInv, RunInv, Context
  <2> QED BY <2>1, <2>2 DEF HasResponse
<1>4. ASSUME NEW f \in Reviewers, StoreOutcome(f)
      PROVE  HasResponse(r)' /\ spool'[r].turn = spool[r].turn
  <2>1. Open(f) /\ Turning /\ Running
    BY <1>4 DEF StoreOutcome, Unstored, Settled, Open, Turning, Running
  <2>2. HasResponse(f) => Stuck(f)
    BY <2>1 DEF RoundInv, RunInv, TurnsAreOpen
  <2>3. r # f
    BY <1>1, <2>1, <2>2
  <2>4. spool'[r] = spool[r]
    BY <1>4, <2>3 DEF StoreOutcome, RoundInv, Types, TypeOK
  <2> QED BY <2>4 DEF HasResponse
<1>5. CASE Prepare /\ ~ UNCHANGED spool
  <2>1. PICK f : f = First
    OBVIOUS
  <2>2. pc = "publish" /\ run.queue # <<>> /\ UNCHANGED <<comments, turns, outside>> /\ Publishing
    BY <1>5 DEF Prepare, Publishing
  <2>3. f \in Reviewers /\ Current = f /\ 1 \in DOMAIN run.queue
    BY <2>1, <2>2, QueueHead DEF RoundInv, Types
  <2>4. HasResponse(f)
    BY <2>1, <2>2, <2>3 DEF RoundInv, RunInv, QueueIsReady, First
  <2>5. /\ spool[f].kind = "carrier" => spool[f].actor = actor
        /\ spool[f].kind = "legacy" => LegacyClean(f)
        /\ spool' = [spool EXCEPT ![f] = Frozen(f)]
    BY <1>5, <2>3 DEF Prepare, Resumable
  <2>6. /\ \A p \in Reviewers : p # f => spool'[p] = spool[p]
        /\ spool'[f].kind = "carrier" /\ spool'[f].turn = spool[f].turn
    BY <2>2, <2>3, <2>4, <2>5, FreezeKeeps
  <2> QED BY <2>6 DEF HasResponse, Responses
<1>6. CASE RemoveRecord
  <2>1. run.queue # <<>> /\ run \in Memories /\ HasAnchor(First)
    BY <1>6 DEF RemoveRecord, RoundInv, Types, RunInv, Phases, WriteIsNext
  <2>2. Current = First
    BY <2>1, QueueHead
  <2>3. r # First => spool'[r] = spool[r]
    BY <1>6, <2>2 DEF RemoveRecord, RoundInv, Types, TypeOK
  <2> QED BY <2>1, <2>3 DEF HasResponse
<1>7. CASE DiscardSpool
  <2>1. Publishing /\ Running /\ Queued = {}
    BY <1>7 DEF DiscardSpool, Publishing, Running, Queued
  <2> QED BY <1>1, <2>1 DEF RoundInv, RunInv, NothingIsForgotten
<1>8. CASE SpoolLost
  BY <1>8 DEF SpoolLost
<1>9. ASSUME ~ UNCHANGED spool
      PROVE  \/ Launch \/ Prepare \/ RemoveRecord \/ DiscardSpool \/ SpoolLost
             \/ \E f \in Reviewers : StoreOutcome(f)
  BY <1>9 DEF Next, Program, vars, StartRun, Preflight, PreflightUnread, TurnsReturned, Stored,
              TurnReturns, PrepareUnread, PostSuffix, WriteAnswered, WriteUnanswered, WriteRefused,
              Reconcile, ReconcileUnread, Crash, RequirementsChange, ActorChanges, CommentsDeleted
<1> QED BY <1>2, <1>3, <1>4, <1>5, <1>6, <1>7, <1>8, <1>9

(* A response that still validates leaves the spool only when a review of   *)
(* its reviewer is public, or with the whole spool (review_spool.py:14).    *)
THEOREM ResponsesAreKept == ASSUME ConstantsAreSound PROVE Spec => ResponseKept
<1>1. RoundInv /\ [Next]_vars =>
        [\A r \in Reviewers :
           HasResponse(r) /\ (spool[r].made = ctx \/ r \notin rejects) =>
             \/ HasResponse(r)' /\ spool'[r].turn = spool[r].turn
             \/ HasAnchor(r)
             \/ "spool" \in disturbed']_vars
  BY ResponseStep
<1> QED BY <1>1, RoundInvariant, PTL DEF Spec, ResponseKept
=============================================================================
