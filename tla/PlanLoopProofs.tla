-------------------------- MODULE PlanLoopProofs ---------------------------
(***************************************************************************)
(* Proofs about the planning loop, for any board, any number of rounds,    *)
(* runs and changes of the issue.                                          *)
(*                                                                         *)
(* No secondary reviews a plan before a checkpoint of the scope opened the *)
(* panel.  The argument is about the log alone.  Within a scope the        *)
(* records that count only grow, so a panel once opened stays opened; a    *)
(* new scope begins at a round no earlier record has, so it begins with    *)
(* nothing.  A run may choose a secondary only when the scope it works in  *)
(* was opened, and nothing but its own records changes the scope while it  *)
(* works.                                                                  *)
(*                                                                         *)
(* A plan that is approved is approved soundly, and the cross-checks of    *)
(* the approval agree.  This argument needs the whole log in order: the    *)
(* rounds follow each other, each of one plan and from one ledger; a round *)
(* that is over was settled; a reviewer that blocks a round is not heard   *)
(* again in it; and an item of an older round is carried or answered       *)
(* (Sound).  A run then holds what the log says of its round: its votes    *)
(* are the last words of their reviewers, the approvals it counts are      *)
(* public, and what the gate leaves open covers what the next round has to *)
(* start from (RunSound).  A run that startup takes for approved has read  *)
(* the same of the newest round that counts (ApprovedView).                *)
(***************************************************************************)
EXTENDS PlanLoop, TLAPS, WellFoundedInduction

RunFields ==
  {"round", "plan", "demand", "text", "prior", "new", "settled", "votes", "chosen",
   "appr", "latch", "resumed", "short", "ledger", "blocked", "todo", "missing"}

(* A log of records: rounds count from one and have a bound, a plan is      *)
(* named by its place, and a scope starts at a round of its own.            *)
GoodLog(L) ==
  /\ \E S : L \in Seq(S)
  /\ \E b \in Nat : \A i \in DOMAIN L : L[i].round \in 1 .. b
  /\ \A i \in DOMAIN L : L[i].kind = "plan" => L[i].plan = i
  /\ \A b \in Boundaries(L) : \A i \in DOMAIN L \ Boundaries(L) :
       i < b => L[i].round < L[b].round

(* The checkpoint that opened the panel, with the approval it counts.       *)
Opens(L, j) ==
  /\ L[j].phase = "secondary-audit" /\ Primary \in L[j].appr
  /\ \E k \in Earlier(ReviewsBy(L, Here(L), Primary), j) :
       L[k].ok /\ KeyOf(L[k]) = KeyOf(L[j])

BoardOpened(L) == \E j \in OfKind(L, Here(L), "prelaunch") : Opens(L, j)

(* A run works in the scope of the log, and has chosen a secondary only in  *)
(* a scope whose panel was opened.                                          *)
RunInScope ==
  /\ DOMAIN run = RunFields
  /\ pc # "off" => run.round \in Nat /\ run.round >= ScopeStart(log)
  /\ pc # "off" => (run.chosen \subseteq {Primary} \/ BoardOpened(log))
  /\ pc = "gate" => run.todo \subseteq run.chosen
  /\ \A v \in held \cup run.votes : "by" \in DOMAIN v

PanelInv == GoodLog(log) /\ PanelWaits /\ RunInScope

-----------------------------------------------------------------------------
(* The newest of some numbers *)

(* A non-empty bounded set of numbers has a newest element, its greatest.   *)
LEMMA NewestIsGreatest ==
  ASSUME NEW S \in SUBSET Nat, S # {}, NEW b \in Nat, \A i \in S : i <= b
  PROVE  Newest(S) \in S /\ \A j \in S : j <= Newest(S)
<1> DEFINE D == {b - i : i \in S}
<1>1. D \in SUBSET Nat /\ D # {}
  <2>1. \A i \in S : b - i \in Nat
    OBVIOUS
  <2>2. PICK i \in S : TRUE
    OBVIOUS
  <2> QED BY <2>1, <2>2
<1>2. PICK x \in D : \A y \in D : ~(<<y, x>> \in OpToRel(<, Nat))
  BY <1>1, NatLessThanWellFounded, WFMin
<1>3. PICK i \in S : x = b - i
  BY DEF D
<1>4. \A j \in S : j <= i
  <2> SUFFICES ASSUME NEW j \in S PROVE j <= i
    OBVIOUS
  <2>1. b - j \in D /\ b - j \in Nat /\ x \in Nat
    BY <1>1
  <2>2. ~(b - j < x)
    BY <1>2, <2>1 DEF OpToRel
  <2> QED BY <1>3, <2>2
<1> QED BY <1>3, <1>4 DEF Newest

-----------------------------------------------------------------------------
(* The log and its scope *)

(* M is L with one record more.                                             *)
OneMore(L, M, e) ==
  /\ \E S : M \in Seq(S)
  /\ Len(L) \in Nat /\ DOMAIN L = 1 .. Len(L)
  /\ DOMAIN M = DOMAIN L \cup {Len(L) + 1}
  /\ \A i \in DOMAIN L : M[i] = L[i]
  /\ M[Len(L) + 1] = e

(* What appending a record does to a sequence.                              *)
LEMMA AppendsOne ==
  ASSUME NEW L, \E S : L \in Seq(S), NEW e
  PROVE  OneMore(L, Append(L, e), e)
<1>1. PICK S : L \in Seq(S)
  OBVIOUS
<1>2. L \in Seq(S \cup {e})
  BY <1>1
<1>3. Append(L, e) \in Seq(S \cup {e})
  BY <1>2
<1>4. Len(L) \in Nat /\ DOMAIN L = 1 .. Len(L) /\ Len(Append(L, e)) = Len(L) + 1
  BY <1>2
<1>5. DOMAIN Append(L, e) = 1 .. Len(L) + 1
  BY <1>3, <1>4
<1>6. \A i \in 1 .. Len(L) : Append(L, e)[i] = L[i]
  BY <1>2
<1>7. Append(L, e)[Len(L) + 1] = e
  BY <1>2
<1> QED BY <1>3, <1>4, <1>5, <1>6, <1>7 DEF OneMore

(* Places in the log are numbers, and some places have a newest.            *)
LEMMA NewestPlace ==
  ASSUME NEW L, \E S : L \in Seq(S), NEW I \in SUBSET DOMAIN L, I # {}
  PROVE  Newest(I) \in I /\ \A j \in I : j <= Newest(I)
<1>1. Len(L) \in Nat /\ DOMAIN L = 1 .. Len(L)
  BY AppendsOne DEF OneMore
<1>2. I \in SUBSET Nat /\ \A i \in I : i <= Len(L)
  BY <1>1
<1> QED BY <1>1, <1>2, NewestIsGreatest

(* The scope of a good log starts at the round of its newest boundary.      *)
LEMMA ScopeOfLog ==
  ASSUME NEW L, GoodLog(L)
  PROVE  /\ ScopeStart(L) \in Nat /\ ScopeStart(L) >= 1
         /\ \A i \in DOMAIN L : L[i].round \in Nat /\ L[i].round >= 1
         /\ Here(L) \subseteq DOMAIN L
         /\ \A i \in Here(L) : \A b \in Boundaries(L) : b < i
<1>1. \E S : L \in Seq(S)
  BY DEF GoodLog
<1>2. \A i \in DOMAIN L : L[i].round \in Nat /\ L[i].round >= 1
  BY DEF GoodLog
<1>3. Boundaries(L) \subseteq DOMAIN L /\ DOMAIN L \subseteq Nat
  BY <1>1, AppendsOne DEF Boundaries, OfKind, OneMore
<1>4. CASE Boundaries(L) = {}
  BY <1>2, <1>4 DEF ScopeStart, Here
<1>5. CASE Boundaries(L) # {}
  <2> DEFINE n == Newest(Boundaries(L))
  <2>1. n \in Boundaries(L) /\ \A b \in Boundaries(L) : b <= n
    BY <1>1, <1>3, <1>5, NewestPlace
  <2>2. ScopeStart(L) = L[n].round
    BY <1>5 DEF ScopeStart
  <2> HIDE DEF n
  <2>3. ASSUME NEW i \in Here(L), NEW b \in Boundaries(L)
        PROVE  b < i
    <3>1. i \in DOMAIN L \ Boundaries(L) /\ L[i].round >= L[n].round
      BY <2>2 DEF Here
    <3>2. ~(i < n)
      BY <1>2, <1>3, <2>1, <3>1 DEF GoodLog
    <3> QED BY <1>3, <2>1, <3>1, <3>2
  <2> QED BY <1>2, <1>3, <2>1, <2>2, <2>3 DEF Here
<1> QED BY <1>4, <1>5

(* A record that is no boundary leaves the scope as it is, and joins it     *)
(* when its round is one of the scope.                                      *)
LEMMA AppendInScope ==
  ASSUME NEW L, GoodLog(L), NEW e, e.kind # "scope", e.round \in Nat,
         e.round >= ScopeStart(L), e.kind = "plan" => e.plan = Len(L) + 1
  PROVE  /\ GoodLog(Append(L, e))
         /\ ScopeStart(Append(L, e)) = ScopeStart(L)
         /\ Here(Append(L, e)) = Here(L) \cup {Len(L) + 1}
<1> DEFINE M == Append(L, e)
           n == Len(L) + 1
<1>1. /\ \E S : L \in Seq(S)
      /\ \E S : M \in Seq(S)
      /\ Len(L) \in Nat /\ DOMAIN L = 1 .. Len(L) /\ DOMAIN M = DOMAIN L \cup {n}
      /\ \A i \in DOMAIN L : M[i] = L[i]
      /\ M[n] = e
  <2>1. \E S : L \in Seq(S)
    BY DEF GoodLog
  <2>2. OneMore(L, M, e)
    BY <2>1, AppendsOne
  <2> HIDE DEF M
  <2> QED BY <2>1, <2>2 DEF OneMore
<1>2. ScopeStart(L) \in Nat /\ ScopeStart(L) >= 1
  BY ScopeOfLog
<1> HIDE DEF M
<1>3. Boundaries(M) = Boundaries(L) /\ Boundaries(L) \subseteq DOMAIN L
  BY <1>1 DEF Boundaries, OfKind
<1>4. ScopeStart(M) = ScopeStart(L)
  <2>1. CASE Boundaries(L) = {}
    BY <1>3, <2>1 DEF ScopeStart
  <2>2. CASE Boundaries(L) # {}
    <3>1. Newest(Boundaries(L)) \in DOMAIN L
      BY <1>1, <1>3, <2>2, NewestPlace
    <3> QED BY <1>1, <1>3, <2>2, <3>1 DEF ScopeStart
  <2> QED BY <2>1, <2>2
<1>5. Here(M) = Here(L) \cup {n}
  BY <1>1, <1>3, <1>4 DEF Here
<1>6. \E b \in Nat : \A i \in DOMAIN M : M[i].round \in 1 .. b
  <2>1. PICK b \in Nat : \A i \in DOMAIN L : L[i].round \in 1 .. b
    BY DEF GoodLog
  <2>2. \A i \in DOMAIN M : M[i].round \in 1 .. b + e.round
    BY <1>1, <1>2, <2>1
  <2> QED BY <2>1, <2>2
<1>7. \A i \in DOMAIN M : M[i].kind = "plan" => M[i].plan = i
  BY <1>1 DEF GoodLog
<1>8. ASSUME NEW b \in Boundaries(M), NEW i \in DOMAIN M \ Boundaries(M), i < b
      PROVE  M[i].round < M[b].round
  <2>1. b \in DOMAIN L /\ i \in DOMAIN L
    BY <1>1, <1>3, <1>8
  <2>2. b \in Boundaries(L) /\ i \in DOMAIN L \ Boundaries(L)
    BY <1>3, <1>8, <2>1
  <2>3. L[i].round < L[b].round
    BY <1>8, <2>2 DEF GoodLog
  <2> QED BY <1>1, <2>1, <2>3
<1> QED BY <1>1, <1>4, <1>5, <1>6, <1>7, <1>8 DEF GoodLog, M

(* Before any place of the scope the log is the same log, in the same scope.*)
LEMMA PrefixInScope ==
  ASSUME NEW L, GoodLog(L), NEW last \in Here(L)
  PROVE  LET p == SubSeq(L, 1, last - 1)
         IN  /\ GoodLog(p)
             /\ ScopeStart(p) = ScopeStart(L)
             /\ Here(p) = {i \in Here(L) : i < last}
             /\ \A i \in Here(p) : p[i] = L[i]
<1> DEFINE p == SubSeq(L, 1, last - 1)
<1>1. PICK S : L \in Seq(S)
  BY DEF GoodLog
<1>2. /\ Here(L) \subseteq DOMAIN L
      /\ \A i \in Here(L) : \A b \in Boundaries(L) : b < i
  BY ScopeOfLog
<1>3. Len(L) \in Nat /\ DOMAIN L = 1 .. Len(L) /\ last \in 1 .. Len(L)
  BY <1>1, <1>2
<1>4. p \in Seq(S) /\ Len(p) = last - 1
  BY <1>1, <1>3
<1>5. DOMAIN p = {i \in DOMAIN L : i < last} /\ \A i \in DOMAIN p : p[i] = L[i]
  BY <1>1, <1>3, <1>4
<1> HIDE DEF p
<1>6. Boundaries(p) = Boundaries(L) /\ Boundaries(L) \subseteq DOMAIN L
  BY <1>2, <1>5 DEF Boundaries, OfKind
<1>7. ScopeStart(p) = ScopeStart(L)
  <2>1. CASE Boundaries(L) = {}
    BY <1>6, <2>1 DEF ScopeStart
  <2>2. CASE Boundaries(L) # {}
    <3>1. Newest(Boundaries(L)) \in Boundaries(L)
      BY <1>1, <1>6, <2>2, NewestPlace
    <3>2. Newest(Boundaries(L)) \in DOMAIN p
      BY <1>2, <1>5, <1>6, <3>1
    <3> QED BY <1>5, <1>6, <2>2, <3>2 DEF ScopeStart
  <2> QED BY <2>1, <2>2
<1>8. Here(p) = {i \in Here(L) : i < last}
  BY <1>5, <1>6, <1>7 DEF Here
<1>9. GoodLog(p)
  <2>1. \E b \in Nat : \A i \in DOMAIN p : p[i].round \in 1 .. b
    BY <1>5 DEF GoodLog
  <2>2. \A i \in DOMAIN p : p[i].kind = "plan" => p[i].plan = i
    BY <1>5 DEF GoodLog
  <2>3. ASSUME NEW b \in Boundaries(p), NEW i \in DOMAIN p \ Boundaries(p), i < b
        PROVE  p[i].round < p[b].round
    <3>1. b \in Boundaries(L) /\ i \in DOMAIN L \ Boundaries(L)
      BY <1>5, <1>6, <2>3
    <3>2. L[i].round < L[b].round
      BY <2>3, <3>1 DEF GoodLog
    <3>3. p[i] = L[i] /\ p[b] = L[b]
      BY <1>5, <2>3 DEF Boundaries, OfKind
    <3> QED BY <3>2, <3>3
  <2> QED BY <1>4, <2>1, <2>2, <2>3 DEF GoodLog
<1> QED BY <1>2, <1>5, <1>7, <1>8, <1>9 DEF p

-----------------------------------------------------------------------------
(* Resuming *)

(* A round is resumed from records of the scope: its round is one of them,  *)
(* and so are the reviews it takes up.                                      *)
LEMMA ResumedIsHere ==
  ASSUME NEW L, GoodLog(L), Planned(History(L))
  PROVE  LET R == Resumed(History(L))
         IN  /\ \E k \in Here(L) : R.round = L[k].round
             /\ \A e \in R.reviews : \E i \in OfKind(L, Here(L), "review") : e = L[i]
<1> DEFINE h == History(L)
           plan == Newest(OfKind(h.log, h.live, "plan"))
           own == {i \in h.live : h.log[i].plan = plan}
           closing == OfKind(h.log, SameRound(h.log, own, Newest(own)), "settled")
           anchor == IF closing = {} THEN Newest(own) ELSE Newest(closing)
<1>1. h.log = L /\ h.live \subseteq Here(L)
  BY DEF History
<1>2. Here(L) \subseteq DOMAIN L /\ \E S : L \in Seq(S)
  BY ScopeOfLog DEF GoodLog
<1> HIDE DEF h
<1>3. plan \in OfKind(h.log, h.live, "plan")
  <2>1. OfKind(h.log, h.live, "plan") # {}
    BY DEF Planned, h
  <2>2. OfKind(h.log, h.live, "plan") \in SUBSET DOMAIN L
    BY <1>1, <1>2 DEF OfKind
  <2> QED BY <1>2, <2>1, <2>2, NewestPlace
<1>4. plan \in own
  BY <1>1, <1>2, <1>3 DEF GoodLog, OfKind
<1>5. own \subseteq Here(L) /\ closing \subseteq own
  BY <1>1 DEF SameRound, OfKind
<1> HIDE DEF plan, own, closing
<1>6. Newest(own) \in own
  BY <1>2, <1>4, <1>5, NewestPlace
<1>7. closing # {} => Newest(closing) \in closing
  BY <1>2, <1>5, NewestPlace
<1>8. anchor \in Here(L)
  BY <1>5, <1>6, <1>7
<1>9. Resumed(h) = RoundAt(h, plan, anchor)
  BY DEF Resumed, plan, own, closing
<1>10. RoundAt(h, plan, anchor).round = L[anchor].round
  BY <1>1 DEF RoundAt
<1>11. ASSUME NEW e \in RoundAt(h, plan, anchor).reviews
       PROVE  \E i \in OfKind(L, Here(L), "review") : e = L[i]
  <2> HIDE DEF anchor
  <2>1. PICK i \in h.live : h.log[i].kind = "review" /\ e = h.log[i]
    BY <1>11 DEF RoundAt, SameRound, OfKind
  <2> QED BY <1>1, <2>1 DEF OfKind
<1> QED BY <1>8, <1>9, <1>10, <1>11 DEF h

(* The views of a planned scope are rounds of the scope.                    *)
LEMMA ViewsAreHere ==
  ASSUME NEW L, GoodLog(L), Planned(History(L)), NEW d, NEW R \in Views(History(L), d)
  PROVE  /\ R.round \in Nat /\ R.round >= ScopeStart(L)
         /\ \A e \in R.reviews : \E i \in OfKind(L, Here(L), "review") : e = L[i]
<1> DEFINE h == History(L)
           last == Newest(h.live)
           p == SubSeq(L, 1, last - 1)
<1>1. /\ h.log = L /\ h.here = Here(L) /\ h.live = Here(L) \ Idle(L, Here(L))
      /\ h.live \subseteq Here(L)
  BY DEF History
<1>2. Here(L) \subseteq DOMAIN L /\ \E S : L \in Seq(S)
  BY ScopeOfLog DEF GoodLog
<1>3. PICK plan \in h.live : L[plan].kind = "plan"
  BY <1>1 DEF Planned, OfKind
<1> HIDE DEF h
<1>4. last \in h.live /\ \A j \in h.live : j <= last
  BY <1>1, <1>2, <1>3, NewestPlace
<1> HIDE DEF last
<1>5. /\ \A i \in Here(L) : L[i].round \in Nat /\ L[i].round >= ScopeStart(L)
      /\ ScopeStart(L) \in Nat /\ Here(L) \subseteq Nat
  <2>1. DOMAIN L \subseteq Nat
    BY <1>2, AppendsOne DEF OneMore
  <2>2. ScopeStart(L) \in Nat /\ \A i \in DOMAIN L : L[i].round \in Nat
    BY ScopeOfLog
  <2> QED BY <1>2, <2>1, <2>2 DEF Here
<1>6. CASE R = Resumed(h)
  BY <1>5, <1>6, ResumedIsHere DEF h
<1>7. CASE R = Resumed(History(p)) /\ Unused(h, last, d)
  <2>1. /\ GoodLog(p) /\ Here(p) = {i \in Here(L) : i < last}
        /\ \A i \in Here(p) : p[i] = L[i]
    <3>1. last \in Here(L)
      BY <1>1, <1>4
    <3> QED BY <3>1, PrefixInScope
  <2> HIDE DEF p
  <2>2. L[last].kind = "advance"
    BY <1>1, <1>7 DEF Unused
  <2>3. plan \in Here(p) /\ p[plan].kind = "plan"
    <3>1. plan <= last /\ plan # last
      BY <1>3, <1>4, <2>2
    <3>2. plan < last
      BY <1>1, <1>3, <1>4, <1>5, <3>1
    <3> QED BY <1>1, <1>3, <2>1, <3>2
  <2>4. Planned(History(p))
    <3>1. plan \in Here(p) \ Idle(p, Here(p))
      BY <2>3 DEF Idle, OfKind
    <3> QED BY <2>3, <3>1 DEF Planned, History, OfKind
  <2>5. /\ \E k \in Here(p) : R.round = p[k].round
        /\ \A e \in R.reviews : \E i \in OfKind(p, Here(p), "review") : e = p[i]
    BY <1>7, <2>1, <2>4, ResumedIsHere
  <2>6. \E k \in Here(L) : R.round = L[k].round
    BY <2>1, <2>5
  <2>7. \A e \in R.reviews : \E i \in OfKind(L, Here(L), "review") : e = L[i]
    BY <2>1, <2>5 DEF OfKind
  <2> QED BY <1>5, <2>6, <2>7
<1>8. R = Resumed(h) \/ (R = Resumed(History(p)) /\ Unused(h, last, d))
  BY <1>1 DEF Views, last, p, h
<1> QED BY <1>6, <1>7, <1>8

-----------------------------------------------------------------------------
(* The opening of the panel *)

(* PanelWaits, of any log.                                                  *)
WaitsIn(L) ==
  \A i \in OfKind(L, Here(L), "review") : L[i].by # Primary =>
    \E j \in Earlier(OfKind(L, Here(L), "prelaunch"), i) : Opens(L, j)

(* The property says the same of the log of the issue.                      *)
LEMMA PanelWaitsIn == PanelWaits <=> WaitsIn(log)
BY DEF PanelWaits, WaitsIn, Opens

(* A record the scheduler may post keeps the panel opened, and the wait for *)
(* it: a review by a secondary is posted only when it was opened.           *)
LEMMA PostKeepsPanel ==
  ASSUME NEW L, GoodLog(L), WaitsIn(L),
         NEW e, e.kind # "scope", e.round \in Nat, e.round >= ScopeStart(L),
         e.kind = "plan" => e.plan = Len(L) + 1,
         e.kind = "review" => e.by = Primary \/ BoardOpened(L)
  PROVE  /\ GoodLog(Append(L, e))
         /\ WaitsIn(Append(L, e))
         /\ ScopeStart(Append(L, e)) = ScopeStart(L)
         /\ BoardOpened(L) => BoardOpened(Append(L, e))
<1> DEFINE M == Append(L, e)
           n == Len(L) + 1
<1>1. /\ Len(L) \in Nat /\ DOMAIN L = 1 .. Len(L)
      /\ \A i \in DOMAIN L : M[i] = L[i]
      /\ M[n] = e
  BY AppendsOne DEF GoodLog, OneMore
<1>2. GoodLog(M) /\ ScopeStart(M) = ScopeStart(L) /\ Here(M) = Here(L) \cup {n}
  BY AppendInScope
<1>3. Here(L) \subseteq DOMAIN L
  BY ScopeOfLog
<1> HIDE DEF M
<1>4. ASSUME NEW j \in OfKind(L, Here(L), "prelaunch"), Opens(L, j)
      PROVE  j \in OfKind(M, Here(M), "prelaunch") /\ Opens(M, j)
  <2>1. j \in OfKind(M, Here(M), "prelaunch") /\ M[j] = L[j]
    BY <1>1, <1>2, <1>3 DEF OfKind
  <2>2. PICK k \in Earlier(ReviewsBy(L, Here(L), Primary), j) :
          L[k].ok /\ KeyOf(L[k]) = KeyOf(L[j])
    BY <1>4 DEF Opens
  <2>3. M[k] = L[k] /\ k \in Earlier(ReviewsBy(M, Here(M), Primary), j)
    BY <1>1, <1>2, <1>3, <2>2 DEF Earlier, ReviewsBy, OfKind
  <2> QED BY <1>4, <2>1, <2>2, <2>3 DEF Opens
<1>5. BoardOpened(L) =>
        \E j \in OfKind(M, Here(M), "prelaunch") : j < n /\ Opens(M, j)
  <2> SUFFICES ASSUME NEW j \in OfKind(L, Here(L), "prelaunch"), Opens(L, j)
               PROVE  \E m \in OfKind(M, Here(M), "prelaunch") : m < n /\ Opens(M, m)
    BY DEF BoardOpened
  <2>1. j < n
    BY <1>1, <1>3 DEF OfKind
  <2> QED BY <1>4, <2>1
<1>6. ASSUME NEW i \in OfKind(M, Here(M), "review"), M[i].by # Primary
      PROVE  \E j \in Earlier(OfKind(M, Here(M), "prelaunch"), i) : Opens(M, j)
  <2>1. CASE i = n
    BY <1>1, <1>5, <1>6, <2>1 DEF OfKind, Earlier
  <2>2. CASE i # n
    <3>1. i \in OfKind(L, Here(L), "review") /\ L[i].by # Primary
      BY <1>1, <1>2, <1>3, <1>6, <2>2 DEF OfKind
    <3>2. PICK j \in Earlier(OfKind(L, Here(L), "prelaunch"), i) : Opens(L, j)
      BY <3>1 DEF WaitsIn
    <3> QED BY <1>4, <3>2 DEF Earlier
  <2> QED BY <2>1, <2>2
<1>7. WaitsIn(M)
  BY <1>6 DEF WaitsIn
<1> QED BY <1>2, <1>5, <1>7 DEF M, BoardOpened

(* A boundary past the rounds of every record starts a scope without one.   *)
LEMMA ScopeStartsEmpty ==
  ASSUME NEW L, GoodLog(L), NEW e, e.kind = "scope", e.round \in Nat, e.round >= 1,
         \A i \in DOMAIN L \ Boundaries(L) : L[i].round < e.round
  PROVE  /\ GoodLog(Append(L, e))
         /\ WaitsIn(Append(L, e))
         /\ ScopeStart(Append(L, e)) = e.round
         /\ Here(Append(L, e)) = {}
<1> DEFINE M == Append(L, e)
           n == Len(L) + 1
<1>1. /\ \E S : M \in Seq(S)
      /\ Len(L) \in Nat /\ DOMAIN L = 1 .. Len(L) /\ DOMAIN M = DOMAIN L \cup {n}
      /\ \A i \in DOMAIN L : M[i] = L[i]
      /\ M[n] = e
  <2>1. \E S : L \in Seq(S)
    BY DEF GoodLog
  <2>2. OneMore(L, M, e)
    BY <2>1, AppendsOne
  <2> HIDE DEF M
  <2> QED BY <2>2 DEF OneMore
<1>2. \A i \in DOMAIN L : L[i].round \in Nat
  BY ScopeOfLog
<1> HIDE DEF M
<1>3. Boundaries(M) = Boundaries(L) \cup {n}
  BY <1>1 DEF Boundaries, OfKind
<1>4. Boundaries(M) \in SUBSET DOMAIN M
  BY DEF Boundaries, OfKind
<1>5. Newest(Boundaries(M)) \in Boundaries(M) /\ Newest(Boundaries(M)) >= n
  BY <1>1, <1>3, <1>4, NewestPlace
<1>6. Newest(Boundaries(M)) = n
  BY <1>1, <1>4, <1>5
<1>7. ScopeStart(M) = e.round
  BY <1>1, <1>3, <1>6 DEF ScopeStart
<1>8. \A i \in DOMAIN M \ Boundaries(M) : i \in DOMAIN L \ Boundaries(L)
  BY <1>1, <1>3
<1>9. Here(M) = {}
  BY <1>1, <1>2, <1>7, <1>8 DEF Here
<1>10. \E b \in Nat : \A i \in DOMAIN M : M[i].round \in 1 .. b
  <2>1. PICK b \in Nat : \A i \in DOMAIN L : L[i].round \in 1 .. b
    BY DEF GoodLog
  <2>2. \A i \in DOMAIN M : M[i].round \in 1 .. b + e.round
    BY <1>1, <2>1
  <2> QED BY <2>1, <2>2
<1>11. \A i \in DOMAIN M : M[i].kind = "plan" => M[i].plan = i
  BY <1>1 DEF GoodLog
<1>12. ASSUME NEW b \in Boundaries(M), NEW i \in DOMAIN M \ Boundaries(M), i < b
       PROVE  M[i].round < M[b].round
  <2>1. i \in DOMAIN L \ Boundaries(L) /\ M[i] = L[i]
    BY <1>1, <1>8
  <2>2. CASE b = n
    BY <1>1, <2>1, <2>2
  <2>3. CASE b # n
    <3>1. b \in Boundaries(L) /\ M[b] = L[b]
      BY <1>1, <1>3, <2>3 DEF Boundaries, OfKind
    <3> QED BY <1>12, <2>1, <3>1 DEF GoodLog
  <2> QED BY <2>2, <2>3
<1> QED BY <1>1, <1>7, <1>9, <1>10, <1>11, <1>12 DEF GoodLog, WaitsIn, OfKind, M

(* A new scope starts at a round no record has.                             *)
LEMMA NextScope ==
  ASSUME NEW L, GoodLog(L)
  PROVE  LET next == Newest({L[i].round : i \in DOMAIN L \ Boundaries(L)}
                              \cup {ScopeStart(L) - 1, 1}) + 1
         IN  /\ next \in Nat /\ next >= 1
             /\ \A i \in DOMAIN L \ Boundaries(L) : L[i].round < next
<1> DEFINE T == {L[i].round : i \in DOMAIN L \ Boundaries(L)} \cup {ScopeStart(L) - 1, 1}
           next == Newest(T) + 1
<1>1. ScopeStart(L) \in Nat /\ ScopeStart(L) >= 1
  BY ScopeOfLog
<1>2. T \in SUBSET Nat /\ T # {} /\ \E b \in Nat : \A i \in T : i <= b
  <2>1. PICK b \in Nat : \A i \in DOMAIN L : L[i].round \in 1 .. b
    BY DEF GoodLog
  <2>2. \A i \in T : i \in Nat /\ i <= b + ScopeStart(L)
    BY <1>1, <2>1
  <2> QED BY <1>1, <2>1, <2>2
<1>3. Newest(T) \in T /\ \A j \in T : j <= Newest(T)
  BY <1>2, NewestIsGreatest
<1>4. 1 \in T /\ \A i \in DOMAIN L \ Boundaries(L) : L[i].round \in T
  OBVIOUS
<1> HIDE DEF T
<1>5. Newest(T) \in Nat /\ Newest(T) >= 1 /\ \A j \in T : j \in Nat /\ j <= Newest(T)
  BY <1>2, <1>3, <1>4
<1>6. next \in Nat /\ next >= 1 /\ \A i \in DOMAIN L \ Boundaries(L) : L[i].round < next
  BY <1>4, <1>5
<1> QED BY <1>6 DEF T

(* The scheduler asks a secondary only when the panel was opened, or opens  *)
(* it by this very decision, on the approval of the primary.                *)
LEMMA SecondariesNeedOpening ==
  ASSUME NEW L, NEW key, NEW prior, NEW appr, NEW latch,
         NEW D, D = SelectPlanReviewers(History(L), key, prior, appr, latch),
         ~(D.chosen \subseteq {Primary}), ~BoardOpened(L)
  PROVE  /\ D.phase = "secondary-audit" /\ Primary \in appr
         /\ ~Degraded(History(L), key)
<1> DEFINE h == History(L)
<1>1. ~Opened(h)
  <2> SUFFICES ASSUME NEW i \in h.openings PROVE FALSE
    BY DEF Opened
  <2>1. h.openings = Openings(L, Here(L) \ Idle(L, Here(L)))
    BY DEF History
  <2>2. /\ i \in OfKind(L, Here(L), "prelaunch")
        /\ L[i].phase = "secondary-audit" /\ Primary \in L[i].appr
    BY <2>1 DEF Openings, OfKind
  <2>3. \E j \in Earlier(ReviewsBy(L, Here(L), Primary), i) :
          L[j].ok /\ KeyOf(L[j]) = KeyOf(L[i])
    BY <2>1 DEF Openings, Earlier, ReviewsBy, OfKind
  <2> QED BY <2>2, <2>3 DEF BoardOpened, Opens
<1> HIDE DEF h
<1>2. D = PrePanel(h, key, appr)
  BY <1>1 DEF SelectPlanReviewers, h
<1> QED BY <1>2 DEF PrePanel, Decision, h

(* A primary whose approval is carried has approved this key in the scope.  *)
LEMMA CarriedPrimary ==
  ASSUME NEW L, NEW key, Primary \in Carried(History(L), key)
  PROVE  \E k \in ReviewsBy(L, Here(L), Primary) : L[k].ok /\ KeyOf(L[k]) = key
<1> DEFINE h == History(L)
<1>1. h.log = L /\ h.live \subseteq Here(L)
  BY DEF History
<1> HIDE DEF h
<1>2. PICK i \in Counted(h, Primary) : Binds(h.log[i], key)
  BY DEF Carried, h
<1> QED BY <1>1, <1>2 DEF Counted, Binds, ReviewsBy, OfKind

-----------------------------------------------------------------------------
(* The steps of a run *)

(* What the run knows when it is over, or before it has begun.              *)
LEMMA NoRunFields == DOMAIN NoRun = RunFields /\ NoRun.votes = {} /\ NoRun.chosen = {}
BY DEF NoRun, RunFields

(* At the beginning nothing is posted and no run is there.                  *)
LEMMA InitPanelInv == Init => PanelInv
<1> SUFFICES ASSUME Init PROVE PanelInv
  OBVIOUS
<1>1. log = <<>> /\ pc = "off" /\ run = NoRun /\ held = {}
  BY DEF Init
<1>2. log \in Seq({}) /\ DOMAIN log = {}
  BY <1>1
<1>3. GoodLog(log)
  <2>1. \A i \in DOMAIN log : log[i].round \in 1 .. 0
    BY <1>2
  <2>2. Boundaries(log) = {}
    BY <1>2 DEF Boundaries, OfKind
  <2>3. \E S : log \in Seq(S)
    BY <1>2
  <2>4. \E b \in Nat : \A i \in DOMAIN log : log[i].round \in 1 .. b
    BY <2>1
  <2> QED BY <1>2, <2>2, <2>3, <2>4 DEF GoodLog
<1>4. PanelWaits
  BY <1>2 DEF PanelWaits, OfKind, Here
<1>5. RunInScope
  BY <1>1, NoRunFields DEF RunInScope
<1> QED BY <1>3, <1>4, <1>5 DEF PanelInv

(* A step that posts nothing keeps what the log says.                       *)
LEMMA NothingPosted ==
  ASSUME PanelInv, UNCHANGED log
  PROVE  /\ GoodLog(log)' /\ PanelWaits' /\ ScopeStart(log)' = ScopeStart(log)
         /\ BoardOpened(log)' <=> BoardOpened(log)
BY DEF PanelInv, PanelWaits

(* What a run may post in its scope keeps what the log says.                *)
LEMMA RecordPosted ==
  ASSUME PanelInv, pc # "off", NEW e, log' = Append(log, e), e.kind # "scope",
         e.round \in Nat, e.round >= run.round, e.kind = "plan" => e.plan = Len(log) + 1,
         e.kind = "review" => e.by = Primary \/ BoardOpened(log)
  PROVE  /\ GoodLog(log)' /\ PanelWaits' /\ ScopeStart(log)' = ScopeStart(log)
         /\ BoardOpened(log) => BoardOpened(log)'
<1>1. GoodLog(log) /\ WaitsIn(log)
  BY PanelWaitsIn DEF PanelInv
<1>2. e.round >= ScopeStart(log)
  <2>1. ScopeStart(log) \in Nat
    BY <1>1, ScopeOfLog
  <2> QED BY <2>1 DEF PanelInv, RunInScope
<1>3. \A M : M = Append(log, e) =>
        /\ GoodLog(M) /\ WaitsIn(M) /\ ScopeStart(M) = ScopeStart(log)
        /\ BoardOpened(log) => BoardOpened(M)
  BY <1>1, <1>2, PostKeepsPanel
<1>4. /\ GoodLog(log') /\ WaitsIn(log') /\ ScopeStart(log') = ScopeStart(log)
      /\ BoardOpened(log) => BoardOpened(log')
  BY <1>3
<1>5. PanelWaits'
  BY <1>4 DEF PanelWaits, WaitsIn, Opens
<1> QED BY <1>4, <1>5

(* A run that is over has chosen nobody.                                    *)
LEMMA StopKeeps ==
  ASSUME PanelInv, UNCHANGED log, pc' = "off", run' = NoRun,
         \A v \in held' : "by" \in DOMAIN v
  PROVE  PanelInv'
<1>1. GoodLog(log)' /\ PanelWaits'
  BY NothingPosted
<1>2. RunInScope'
  BY NoRunFields DEF RunInScope
<1> QED BY <1>1, <1>2 DEF PanelInv

(* People change the issue, and a run is killed: neither posts a record.    *)
LEMMA OutsideKeeps ==
  ASSUME PanelInv, ChangeDemand \/ EditText \/ Crash
  PROVE  PanelInv'
<1>1. CASE ChangeDemand \/ EditText
  <2>1. UNCHANGED <<log, held, pc, run>>
    BY <1>1 DEF ChangeDemand, EditText
  <2>2. GoodLog(log)' /\ PanelWaits'
    BY <2>1, NothingPosted
  <2> QED BY <2>1, <2>2 DEF PanelInv, RunInScope
<1>2. CASE Crash
  <2>1. UNCHANGED <<log, held>> /\ pc' = "off" /\ run' = NoRun
    BY <1>2 DEF Crash, Stop
  <2> QED BY <2>1, StopKeeps DEF PanelInv, RunInScope
<1> QED BY <1>1, <1>2

(* A run that begins without a plan has chosen nobody yet.                  *)
LEMMA BeginsWithout ==
  ASSUME NEW n, NEW d, NEW t
  PROVE  LET f == [NoRun EXCEPT !.round = n, !.demand = d, !.text = t]
         IN  DOMAIN f = RunFields /\ f.round = n /\ f.chosen = {} /\ f.votes = {}
BY DEF NoRun, RunFields

(* A resumed run takes the round over.                                      *)
LEMMA BeginFields ==
  ASSUME NEW R
  PROVE  /\ DOMAIN Begin(R) = RunFields /\ Begin(R).round = R.round
         /\ Begin(R).chosen = {} /\ Begin(R).votes = {}
BY DEF Begin, NoRun, RunFields

(* Startup begins in the scope of the log: a new scope is empty, a resumed  *)
(* round is one of the scope, and the secondaries of an approved plan have  *)
(* reviewed in it.                                                          *)
LEMMA StartKeeps ==
  ASSUME PanelInv, Start
  PROVE  PanelInv'
<1> DEFINE h == History(log)
           T == {log[i].round : i \in DOMAIN log \ Boundaries(log)}
                  \cup {ScopeStart(log) - 1, 1}
           next == Newest(T) + 1
           fresh(n) == [NoRun EXCEPT !.round = n, !.demand = demand, !.text = text]
           e == [Record("scope", next, 0, NoDemand) EXCEPT !.text = text]
<1>1. GoodLog(log) /\ ScopeStart(log) \in Nat /\ ScopeStart(log) >= 1 /\ WaitsIn(log)
  BY ScopeOfLog, PanelWaitsIn DEF PanelInv
<1>2. held' = held /\ \A v \in held : "by" \in DOMAIN v
  BY DEF Start, PanelInv, RunInScope
<1>3. CASE log' = Append(log, e) /\ run' = fresh(next) /\ pc' = "plan"
  <2>3. next \in Nat /\ next >= 1 /\ \A i \in DOMAIN log \ Boundaries(log) : log[i].round < next
    BY <1>1, NextScope
  <2> HIDE DEF next
  <2>4. e.kind = "scope" /\ e.round = next
    BY DEF Record
  <2> HIDE DEF e
  <2>5. GoodLog(log') /\ WaitsIn(log') /\ ScopeStart(log') = next
    <3>1. \A M : M = Append(log, e) => GoodLog(M) /\ WaitsIn(M) /\ ScopeStart(M) = next
      BY <1>1, <2>3, <2>4, ScopeStartsEmpty
    <3> QED BY <1>3, <3>1
  <2>6. PanelWaits'
    BY <2>5 DEF PanelWaits, WaitsIn, Opens
  <2>7. DOMAIN run' = RunFields /\ run'.round = next /\ run'.chosen = {} /\ run'.votes = {}
    BY <1>3, BeginsWithout
  <2>8. RunInScope'
    BY <1>2, <1>3, <2>3, <2>5, <2>7 DEF RunInScope
  <2> QED BY <2>5, <2>6, <2>8 DEF PanelInv
<1>4. CASE log' = log /\ run' = fresh(ScopeStart(log)) /\ pc' = "plan"
  <2>1. GoodLog(log)' /\ PanelWaits' /\ ScopeStart(log)' = ScopeStart(log)
    BY <1>4, NothingPosted
  <2>2. /\ DOMAIN run' = RunFields /\ run'.round = ScopeStart(log)
        /\ run'.chosen = {} /\ run'.votes = {}
    BY <1>4, BeginsWithout
  <2>3. RunInScope'
    BY <1>1, <1>2, <1>4, <2>1, <2>2 DEF RunInScope
  <2> QED BY <2>1, <2>3 DEF PanelInv
<1>5. CASE log' = log /\ Planned(h) /\ run' = Begin(Resumed(h)) /\ pc' = "round"
  <2>1. GoodLog(log)' /\ PanelWaits' /\ ScopeStart(log)' = ScopeStart(log)
    BY <1>5, NothingPosted
  <2>2. PICK k \in Here(log) : Resumed(h).round = log[k].round
    BY <1>1, <1>5, ResumedIsHere
  <2>3. Resumed(h).round \in Nat /\ Resumed(h).round >= ScopeStart(log)
    BY <1>1, <2>2, ScopeOfLog DEF Here
  <2>4. /\ DOMAIN run' = RunFields /\ run'.round = Resumed(h).round
        /\ run'.chosen = {} /\ run'.votes = {}
    BY <1>5, BeginFields
  <2>5. RunInScope'
    BY <1>2, <1>5, <2>1, <2>3, <2>4 DEF RunInScope
  <2> QED BY <2>1, <2>5 DEF PanelInv
<1>6. ASSUME log' = log, pc' = "outcome", NEW R \in Approvals(h, demand),
             run' = [Begin(R) EXCEPT
                       !.votes = {Vote(f) : f \in R.reviews},
                       !.chosen = Names({Vote(f) : f \in R.reviews}), !.short = TRUE,
                       !.new = R.minted, !.settled = R.settled,
                       !.appr = Carried(h, <<R.plan, demand>>)]
      PROVE  PanelInv'
  <2> DEFINE votes == {Vote(f) : f \in R.reviews}
  <2>1. GoodLog(log)' /\ PanelWaits' /\ ScopeStart(log)' = ScopeStart(log)
        /\ (BoardOpened(log)' <=> BoardOpened(log))
    BY <1>6, NothingPosted
  <2>2. Planned(h) /\ R \in Views(h, demand)
    BY <1>6 DEF Approvals
  <2>3. /\ R.round \in Nat /\ R.round >= ScopeStart(log)
        /\ \A f \in R.reviews : \E i \in OfKind(log, Here(log), "review") : f = log[i]
    BY <1>1, <2>2, ViewsAreHere
  <2>4. /\ DOMAIN run' = RunFields /\ run'.round = R.round
        /\ run'.chosen = Names(votes) /\ run'.votes = votes
    BY <1>6, BeginFields DEF RunFields
  <2>5. \A v \in votes : "by" \in DOMAIN v
    BY DEF Vote
  <2>6. Names(votes) \subseteq {Primary} \/ BoardOpened(log)
    <3> SUFFICES ASSUME NEW f \in R.reviews, Vote(f).by # Primary PROVE BoardOpened(log)
      BY DEF Names
    <3>1. PICK i \in OfKind(log, Here(log), "review") : f = log[i]
      BY <2>3
    <3>2. log[i].by # Primary
      BY <3>1 DEF Vote
    <3> QED BY <1>1, <3>2 DEF WaitsIn, BoardOpened, Earlier
  <2> HIDE DEF votes
  <2>7. RunInScope'
    BY <1>2, <1>6, <2>1, <2>3, <2>4, <2>5, <2>6 DEF RunInScope
  <2> QED BY <2>1, <2>7 DEF PanelInv
<1> QED BY <1>3, <1>4, <1>5, <1>6, Zenon DEF Start

(* The first plan of the scope is posted in the round the run began with.   *)
LEMMA PostFreshPlanKeeps ==
  ASSUME PanelInv, PostFreshPlan
  PROVE  PanelInv'
<1> DEFINE e == [Record("plan", run.round, Len(log) + 1, run.demand) EXCEPT !.text = run.text]
<1>1. /\ pc = "plan" /\ log' = Append(log, e) /\ run' = [run EXCEPT !.plan = Len(log) + 1]
      /\ pc' = "round" /\ UNCHANGED held
  BY DEF PostFreshPlan
<1>2. e.kind = "plan" /\ e.round = run.round /\ e.plan = Len(log) + 1
  BY DEF Record
<1> HIDE DEF e
<1>3. run.round \in Nat /\ DOMAIN run = RunFields
  BY <1>1 DEF PanelInv, RunInScope
<1>4. /\ GoodLog(log)' /\ PanelWaits' /\ ScopeStart(log)' = ScopeStart(log)
      /\ BoardOpened(log) => BoardOpened(log)'
  BY <1>1, <1>2, <1>3, RecordPosted
<1>5. /\ DOMAIN run' = RunFields /\ run'.round = run.round /\ run'.chosen = run.chosen
      /\ run'.votes = run.votes
  BY <1>1, <1>3 DEF RunFields
<1>6. RunInScope'
  BY <1>1, <1>3, <1>4, <1>5 DEF PanelInv, RunInScope
<1> QED BY <1>4, <1>6 DEF PanelInv

(* How a round is scheduled on the history h, with the approvals that are   *)
(* carried, the latch, the round R of the records and the decision D.       *)
Prepares(h, appr, latch, R, D) ==
  LET stale(e) == e.ok /\ (Degraded(h, Key) \/ KeyOf(e) # Key)
      votes == {Vote(e) : e \in {f \in R.reviews : ~stale(f)}}
      over == R.settled /\ ~(D.chosen \subseteq Names(votes))
      rest == Apply(R.prior, R.reviews) \cup R.minted
  IN  \/ /\ over /\ run.round >= RoundLimit(log)
         /\ Stop("none") /\ UNCHANGED log
      \/ /\ over /\ run.round < RoundLimit(log)
         /\ log' = Append(log, [Record("advance", run.round + 1, run.plan, "unkeyed")
                                  EXCEPT !.prior = rest])
         /\ run' = [run EXCEPT !.round = @ + 1, !.prior = rest, !.resumed = FALSE]
         /\ UNCHANGED <<pc, ended>>
      \/ /\ ~over
         /\ log' = Append(log, [Record("prelaunch", run.round, run.plan, run.demand)
              EXCEPT !.prior = run.prior, !.chosen = D.chosen, !.appr = appr,
                     !.phase = D.phase, !.force = latch \/ D.latch,
                     !.prev = PreviousKey(h, Key)])
         /\ run' = [run EXCEPT !.votes = votes, !.settled = R.settled, !.appr = appr,
              !.new = IF R.settled THEN R.minted ELSE {}, !.chosen = D.chosen,
              !.latch = latch \/ D.latch]
         /\ pc' = "launch" /\ UNCHANGED ended

(* A round that is prepared is so in one of these ways.                     *)
LEMMA RoundPrepared ==
  ASSUME PrepareRound
  PROVE  LET h == History(log)
         IN  \E appr \in {IF Degraded(h, Key) THEN {} ELSE Carried(h, Key)},
                latch \in {run.latch \/ (Opened(h) /\ PanelLatched(h))},
                R \in {IF run.resumed THEN Resumed(h)
                       ELSE [settled |-> FALSE, reviews |-> {}, minted |-> {}, prior |-> run.prior]} :
               Prepares(h, appr, latch, R, SelectPlanReviewers(h, Key, run.prior, appr, latch))
<1> DEFINE h == History(log)
<1>1. \E g \in {h} :
        \E appr \in {IF Degraded(g, Key) THEN {} ELSE Carried(g, Key)},
           latch \in {run.latch \/ (Opened(g) /\ PanelLatched(g))},
           R \in {IF run.resumed THEN Resumed(g)
                  ELSE [settled |-> FALSE, reviews |-> {}, minted |-> {}, prior |-> run.prior]} :
        \E D \in {SelectPlanReviewers(g, Key, run.prior, appr, latch)} :
          Prepares(g, appr, latch, R, D)
  BY DEF PrepareRound, Prepares
<1> HIDE DEF h
<1>2. \E appr \in {IF Degraded(h, Key) THEN {} ELSE Carried(h, Key)},
         latch \in {run.latch \/ (Opened(h) /\ PanelLatched(h))},
         R \in {IF run.resumed THEN Resumed(h)
                ELSE [settled |-> FALSE, reviews |-> {}, minted |-> {}, prior |-> run.prior]} :
        Prepares(h, appr, latch, R, SelectPlanReviewers(h, Key, run.prior, appr, latch))
  BY <1>1, Zenon
<1> QED BY <1>2 DEF h

(* The scheduling of a round either ends the run, or rolls the round over,  *)
(* or posts the checkpoint that, if it is the first to ask a secondary,     *)
(* opens the panel itself.                                                  *)
LEMMA PrepareRoundKeeps ==
  ASSUME PanelInv, PrepareRound
  PROVE  PanelInv'
<1> DEFINE h == History(log)
<1>1. /\ GoodLog(log) /\ ScopeStart(log) \in Nat /\ run.round \in Nat
      /\ run.round >= ScopeStart(log) /\ DOMAIN run = RunFields /\ pc = "round"
      /\ \A v \in held : "by" \in DOMAIN v
      /\ \A v \in run.votes : "by" \in DOMAIN v
      /\ run.chosen \subseteq {Primary} \/ BoardOpened(log)
  BY ScopeOfLog DEF PanelInv, RunInScope, PrepareRound
<1>2. held' = held
  BY DEF PrepareRound
<1>3. CASE log' = log /\ Stop("none")
  BY <1>1, <1>2, <1>3, StopKeeps DEF Stop
<1>4. ASSUME NEW rest, pc' = pc,
             log' = Append(log, [Record("advance", run.round + 1, run.plan, "unkeyed")
                                   EXCEPT !.prior = rest]),
             run' = [run EXCEPT !.round = @ + 1, !.prior = rest, !.resumed = FALSE]
      PROVE  PanelInv'
  <2> DEFINE e == [Record("advance", run.round + 1, run.plan, "unkeyed") EXCEPT !.prior = rest]
  <2>1. e.kind = "advance" /\ e.round = run.round + 1
    BY DEF Record
  <2> HIDE DEF e
  <2>2. /\ GoodLog(log)' /\ PanelWaits' /\ ScopeStart(log)' = ScopeStart(log)
        /\ BoardOpened(log) => BoardOpened(log)'
    <3>1. log' = Append(log, e)
      BY <1>4 DEF e
    <3>2. e.round \in Nat /\ e.round >= run.round
      BY <1>1, <2>1
    <3> QED BY <1>1, <2>1, <3>1, <3>2, RecordPosted
  <2>3. /\ DOMAIN run' = RunFields /\ run'.round = run.round + 1
        /\ run'.chosen = run.chosen /\ run'.votes = run.votes
    BY <1>1, <1>4 DEF RunFields
  <2>4. RunInScope'
    BY <1>1, <1>2, <1>4, <2>2, <2>3 DEF RunInScope
  <2> QED BY <2>2, <2>4 DEF PanelInv
<1>5. ASSUME NEW appr, appr = IF Degraded(h, Key) THEN {} ELSE Carried(h, Key),
             NEW latch, NEW D, D = SelectPlanReviewers(h, Key, run.prior, appr, latch),
             NEW e, e.kind = "prelaunch", e.round = run.round, e.plan = run.plan,
             e.under = run.demand, e.appr = appr, e.phase = D.phase,
             log' = Append(log, e), pc' = "launch",
             DOMAIN run' = RunFields, run'.round = run.round, run'.chosen = D.chosen,
             \A v \in run'.votes : "by" \in DOMAIN v
      PROVE  PanelInv'
  <2>1. /\ GoodLog(log)' /\ PanelWaits' /\ ScopeStart(log)' = ScopeStart(log)
        /\ BoardOpened(log) => BoardOpened(log)'
    BY <1>1, <1>5, RecordPosted
  <2>2. ASSUME ~(D.chosen \subseteq {Primary}), ~BoardOpened(log)
        PROVE  BoardOpened(log)'
    <3>1. D.phase = "secondary-audit" /\ Primary \in appr /\ appr = Carried(h, Key)
      BY <1>5, <2>2, SecondariesNeedOpening
    <3>2. PICK k \in ReviewsBy(log, Here(log), Primary) : log[k].ok /\ KeyOf(log[k]) = Key
      BY <3>1, CarriedPrimary
    <3> DEFINE n == Len(log) + 1
    <3>3. \A M : M = Append(log, e) =>
            /\ Here(M) = Here(log) \cup {n}
            /\ \A i \in DOMAIN log : M[i] = log[i]
            /\ M[n] = e
      <4>1. \E S : log \in Seq(S)
        BY <1>1 DEF GoodLog
      <4>2. e.round \in Nat /\ e.round >= ScopeStart(log) /\ e.kind = "prelaunch"
        BY <1>1, <1>5
      <4>3. Here(Append(log, e)) = Here(log) \cup {n}
        BY <1>1, <4>2, AppendInScope
      <4> QED BY <4>1, <4>3, AppendsOne DEF OneMore
    <3>4. /\ Here(log') = Here(log) \cup {n} /\ log'[n] = e
          /\ \A i \in DOMAIN log : log'[i] = log[i]
      BY <1>5, <3>3
    <3>5. Here(log) \subseteq DOMAIN log /\ Len(log) \in Nat /\ DOMAIN log = 1 .. Len(log)
      BY <1>1, ScopeOfLog, AppendsOne DEF GoodLog, OneMore
    <3>6. k \in Earlier(ReviewsBy(log', Here(log'), Primary), n) /\ log'[k] = log[k]
      BY <3>2, <3>4, <3>5 DEF Earlier, ReviewsBy, OfKind
    <3>7. KeyOf(log'[n]) = Key
      BY <1>5, <3>4 DEF KeyOf, Key
    <3> HIDE DEF n
    <3>8. Opens(log', n)
      BY <1>5, <3>1, <3>2, <3>4, <3>6, <3>7 DEF Opens
    <3>9. n \in OfKind(log', Here(log'), "prelaunch")
      BY <1>5, <3>4 DEF OfKind
    <3> QED BY <3>8, <3>9 DEF BoardOpened
  <2>3. RunInScope'
    BY <1>1, <1>2, <1>5, <2>1, <2>2 DEF RunInScope
  <2> QED BY <2>1, <2>3 DEF PanelInv
<1>6. PICK appr \in {IF Degraded(h, Key) THEN {} ELSE Carried(h, Key)},
           latch \in {run.latch \/ (Opened(h) /\ PanelLatched(h))},
           R \in {IF run.resumed THEN Resumed(h)
                  ELSE [settled |-> FALSE, reviews |-> {}, minted |-> {}, prior |-> run.prior]} :
        Prepares(h, appr, latch, R, SelectPlanReviewers(h, Key, run.prior, appr, latch))
  BY RoundPrepared
<1> DEFINE D == SelectPlanReviewers(h, Key, run.prior, appr, latch)
<1> DEFINE votes == {Vote(e) : e \in {f \in R.reviews :
                       ~(f.ok /\ (Degraded(h, Key) \/ KeyOf(f) # Key))}}
           rest == Apply(R.prior, R.reviews) \cup R.minted
<1> DEFINE mark == [Record("prelaunch", run.round, run.plan, run.demand)
                      EXCEPT !.prior = run.prior, !.chosen = D.chosen, !.appr = appr,
                             !.phase = D.phase, !.force = latch \/ D.latch,
                             !.prev = PreviousKey(h, Key)]
<1>7. CASE /\ log' = Append(log, mark) /\ pc' = "launch"
           /\ run' = [run EXCEPT !.votes = votes, !.settled = R.settled, !.appr = appr,
                        !.new = IF R.settled THEN R.minted ELSE {}, !.chosen = D.chosen,
                        !.latch = latch \/ D.latch]
  <2>1. \A v \in votes : "by" \in DOMAIN v
    BY DEF Vote
  <2> HIDE DEF h, votes, D
  <2>2. /\ mark.kind = "prelaunch" /\ mark.round = run.round /\ mark.plan = run.plan
        /\ mark.under = run.demand /\ mark.appr = appr /\ mark.phase = D.phase
    BY DEF Record
  <2> HIDE DEF mark
  <2>3. /\ DOMAIN run' = RunFields /\ run'.round = run.round /\ run'.chosen = D.chosen
        /\ run'.votes = votes
    BY <1>1, <1>7 DEF RunFields
  <2>4. appr = IF Degraded(h, Key) THEN {} ELSE Carried(h, Key)
    BY <1>6
  <2>5. D = SelectPlanReviewers(h, Key, run.prior, appr, latch)
    BY DEF D
  <2> QED BY <1>5, <1>7, <2>1, <2>2, <2>3, <2>4, <2>5
<1>8. \/ log' = log /\ Stop("none")
      \/ /\ log' = Append(log, [Record("advance", run.round + 1, run.plan, "unkeyed")
                                  EXCEPT !.prior = rest])
         /\ run' = [run EXCEPT !.round = @ + 1, !.prior = rest, !.resumed = FALSE]
         /\ pc' = pc
      \/ /\ log' = Append(log, mark) /\ pc' = "launch"
         /\ run' = [run EXCEPT !.votes = votes, !.settled = R.settled, !.appr = appr,
                      !.new = IF R.settled THEN R.minted ELSE {}, !.chosen = D.chosen,
                      !.latch = latch \/ D.latch]
  BY <1>6, Zenon DEF Prepares
<1> QED BY <1>3, <1>4, <1>7, <1>8, Zenon

(* Answers of the spool are answers of reviewers.                           *)
LEMMA LaunchReviewersKeeps ==
  ASSUME PanelInv, LaunchReviewers
  PROVE  PanelInv'
<1> DEFINE asked == {r \in Pending : Held(r) = {}}
<1>1. log' = log /\ pc = "launch" /\ \A v \in held : "by" \in DOMAIN v
  BY DEF LaunchReviewers, PanelInv, RunInScope
<1>2. CASE UNCHANGED held /\ Stop("none")
  BY <1>1, <1>2, StopKeeps DEF Stop
<1>3. ASSUME NEW failed \in SUBSET asked,
             NEW given \in [asked \ failed -> UNION {Answers(r) : r \in asked}],
             \A r \in asked \ failed : given[r] \in Answers(r),
             held' = {v \in held : v.by \notin asked \ failed}
                       \cup {given[r] : r \in asked \ failed},
             (pc' = "publish" /\ UNCHANGED run) \/ Stop("none")
      PROVE  PanelInv'
  <2>1. \A r : \A v \in Answers(r) : "by" \in DOMAIN v
    BY DEF Answers
  <2>2. \A v \in held' : "by" \in DOMAIN v
    BY <1>1, <1>3, <2>1
  <2>3. CASE Stop("none")
    BY <1>1, <2>2, <2>3, StopKeeps DEF Stop
  <2>4. CASE pc' = "publish" /\ UNCHANGED run
    <3>1. /\ GoodLog(log)' /\ PanelWaits' /\ ScopeStart(log)' = ScopeStart(log)
          /\ (BoardOpened(log)' <=> BoardOpened(log))
      BY <1>1, NothingPosted
    <3>2. RunInScope'
      BY <1>1, <2>2, <2>4, <3>1 DEF PanelInv, RunInScope
    <3> QED BY <3>1, <3>2 DEF PanelInv
  <2> QED BY <1>3, <2>3, <2>4
<1>4. \/ UNCHANGED held /\ Stop("none")
      \/ \E failed \in SUBSET asked :
           \E given \in [asked \ failed -> UNION {Answers(r) : r \in asked}] :
             /\ \A r \in asked \ failed : given[r] \in Answers(r)
             /\ held' = {v \in held : v.by \notin asked \ failed}
                          \cup {given[r] : r \in asked \ failed}
             /\ (pc' = "publish" /\ UNCHANGED run) \/ Stop("none")
  BY Zenon DEF LaunchReviewers
<1> QED BY <1>2, <1>3, <1>4, Zenon

(* Only a chosen reviewer's answer is published.                            *)
LEMMA PublishReviewKeeps ==
  ASSUME PanelInv, PublishReview
  PROVE  PanelInv'
<1>1. PICK r \in Pending : \E v \in Held(r) :
        /\ log' = Append(log, Review(v, FALSE))
        /\ run' = [run EXCEPT !.votes = @ \cup {v}]
  BY DEF PublishReview
<1>2. PICK v \in Held(r) :
        /\ log' = Append(log, Review(v, FALSE))
        /\ run' = [run EXCEPT !.votes = @ \cup {v}]
  BY <1>1
<1>3. pc = "publish" /\ UNCHANGED <<pc, held>>
  BY DEF PublishReview
<1>4. r \in run.chosen /\ v \in held /\ v.by = r
  BY <1>1, <1>2 DEF Pending, Held
<1>5. DOMAIN run = RunFields /\ run.round \in Nat
  BY <1>3 DEF PanelInv, RunInScope
<1> DEFINE e == Review(v, FALSE)
<1>6. e.kind = "review" /\ e.round = run.round /\ e.by = r /\ log' = Append(log, e)
  BY <1>2, <1>4 DEF Review, Record
<1> HIDE DEF e
<1>7. r = Primary \/ BoardOpened(log)
  BY <1>3, <1>4 DEF PanelInv, RunInScope
<1>8. /\ GoodLog(log)' /\ PanelWaits' /\ ScopeStart(log)' = ScopeStart(log)
      /\ BoardOpened(log) => BoardOpened(log)'
  <2>1. e.round \in Nat /\ e.round >= run.round
    BY <1>5, <1>6
  <2> QED BY <1>3, <1>6, <1>7, <2>1, RecordPosted
<1>9. /\ DOMAIN run' = RunFields /\ run'.round = run.round /\ run'.chosen = run.chosen
      /\ run'.votes = run.votes \cup {v}
  BY <1>2, <1>5 DEF RunFields
<1>10. RunInScope'
  BY <1>3, <1>4, <1>8, <1>9 DEF PanelInv, RunInScope
<1> QED BY <1>8, <1>10 DEF PanelInv

(* The settlement of a round is a record of the round.                      *)
LEMMA SettleRoundKeeps ==
  ASSUME PanelInv, SettleRound
  PROVE  PanelInv'
<1> DEFINE new == IF run.settled THEN run.new ELSE UNION {v.new : v \in Votes(run.chosen)}
           e == [Record("settled", run.round, run.plan, "unkeyed")
                   EXCEPT !.prior = run.prior, !.new = new]
<1>1. /\ pc = "publish" /\ pc' = "outcome" /\ held' = {}
      /\ run' = [run EXCEPT !.new = new]
      /\ log' = log \/ log' = Append(log, e)
  BY DEF SettleRound
<1> HIDE DEF new
<1>2. DOMAIN run = RunFields /\ run.round \in Nat
  BY <1>1 DEF PanelInv, RunInScope
<1>3. e.kind = "settled" /\ e.round = run.round
  BY DEF Record
<1> HIDE DEF e
<1>4. /\ GoodLog(log)' /\ PanelWaits' /\ ScopeStart(log)' = ScopeStart(log)
      /\ BoardOpened(log) => BoardOpened(log)'
  <2>1. CASE log' = log
    BY <2>1, NothingPosted
  <2>2. CASE log' = Append(log, e)
    BY <1>1, <1>2, <1>3, <2>2, RecordPosted
  <2> QED BY <1>1, <2>1, <2>2
<1>5. /\ DOMAIN run' = RunFields /\ run'.round = run.round /\ run'.chosen = run.chosen
      /\ run'.votes = run.votes
  BY <1>1, <1>2 DEF RunFields
<1>6. RunInScope'
  BY <1>1, <1>4, <1>5 DEF PanelInv, RunInScope
<1> QED BY <1>4, <1>6 DEF PanelInv

(* Only chosen reviewers are asked to acknowledge.                          *)
LEMMA ReadOutcomeKeeps ==
  ASSUME PanelInv, ReadOutcome
  PROVE  PanelInv'
<1>1. PICK ledger, blocked, todo, missing :
        /\ run' = [run EXCEPT !.ledger = ledger, !.blocked = blocked,
                              !.todo = todo, !.missing = missing]
        /\ todo \subseteq {v.by : v \in Votes(run.chosen)}
  <2> DEFINE mine == Votes(run.chosen)
             paused == {v \in Votes(run.appr \ run.chosen) : v.ok}
             ledger == Apply(run.prior, mine \cup paused) \cup run.new
             blocked == {v.by : v \in {w \in mine : ~w.ok}}
             asks == ledger = {} /\ blocked = {} /\ run.demand # NoDemand /\ mine # {}
             unaware == log[run.plan].under # run.demand
             todo == IF asks THEN {v.by : v \in {w \in mine : ~w.ack}} ELSE {}
             missing == IF asks /\ unaware THEN {Orchestrator} ELSE {}
  <2>1. run' = [run EXCEPT !.ledger = ledger, !.blocked = blocked,
                           !.todo = todo, !.missing = missing]
    BY Zenon DEF ReadOutcome
  <2>2. todo \subseteq {v.by : v \in mine}
    OBVIOUS
  <2> HIDE DEF ledger, blocked, todo, missing
  <2> QED BY <2>1, <2>2
<1>2. pc = "outcome" /\ pc' = "gate" /\ UNCHANGED <<log, held>>
  BY DEF ReadOutcome
<1>3. DOMAIN run = RunFields
  BY DEF PanelInv, RunInScope
<1>4. /\ DOMAIN run' = RunFields /\ run'.round = run.round /\ run'.chosen = run.chosen
      /\ run'.votes = run.votes /\ run'.todo = todo
  BY <1>1, <1>3 DEF RunFields
<1>5. todo \subseteq run.chosen
  BY <1>1 DEF Votes
<1>6. /\ GoodLog(log)' /\ PanelWaits' /\ ScopeStart(log)' = ScopeStart(log)
      /\ (BoardOpened(log)' <=> BoardOpened(log))
  BY <1>2, NothingPosted
<1>7. RunInScope'
  BY <1>2, <1>4, <1>5, <1>6 DEF PanelInv, RunInScope
<1> QED BY <1>6, <1>7 DEF PanelInv

(* A repaired review is one of a chosen reviewer.                           *)
LEMMA RepairApprovalKeeps ==
  ASSUME PanelInv, RepairApproval
  PROVE  PanelInv'
<1>1. PICK v \in Votes(run.todo), how \in {"recovered", "blocking", "missing"} :
        LET item == [by |-> v.by, round |-> run.round]
            w == CASE how = "recovered" -> [v EXCEPT !.ack = TRUE]
                   [] how = "blocking" -> [v EXCEPT !.ok = FALSE, !.new = {item}]
                   [] how = "missing" -> v
        IN  /\ log' = IF how = "missing" THEN log ELSE Append(log, Review(w, TRUE))
            /\ run' = [run EXCEPT
                 !.todo = @ \ {v.by},
                 !.ledger = IF how = "blocking" THEN @ \cup {item} ELSE @,
                 !.blocked = IF how = "blocking" THEN @ \cup {v.by} ELSE @,
                 !.missing = IF how = "missing" THEN @ \cup {v.by} ELSE @]
  BY Zenon DEF RepairApproval
<1> DEFINE item == [by |-> v.by, round |-> run.round]
           w == CASE how = "recovered" -> [v EXCEPT !.ack = TRUE]
                  [] how = "blocking" -> [v EXCEPT !.ok = FALSE, !.new = {item}]
                  [] how = "missing" -> v
           e == Review(w, TRUE)
<1>2. pc = "gate" /\ UNCHANGED <<pc, held>>
  BY DEF RepairApproval
<1>3. /\ DOMAIN run = RunFields /\ run.round \in Nat /\ v \in run.votes
      /\ v.by \in run.todo /\ "by" \in DOMAIN v /\ run.todo \subseteq run.chosen
  BY <1>1, <1>2 DEF PanelInv, RunInScope, Votes
<1>4. w.by = v.by
  BY <1>3, <1>1
<1>5. log' = log \/ log' = Append(log, e)
  BY <1>1
<1>6. /\ DOMAIN run' = RunFields /\ run'.round = run.round /\ run'.chosen = run.chosen
      /\ run'.votes = run.votes /\ run'.todo = run.todo \ {v.by}
  BY <1>1, <1>3 DEF RunFields
<1> HIDE DEF w
<1>7. e.kind = "review" /\ e.round = run.round /\ e.by = v.by
  BY <1>4 DEF Review, Record
<1> HIDE DEF e
<1>8. v.by = Primary \/ BoardOpened(log)
  BY <1>2, <1>3 DEF PanelInv, RunInScope
<1>9. /\ GoodLog(log)' /\ PanelWaits' /\ ScopeStart(log)' = ScopeStart(log)
      /\ BoardOpened(log) => BoardOpened(log)'
  <2>1. CASE log' = log
    BY <2>1, NothingPosted
  <2>2. CASE log' = Append(log, e)
    BY <1>2, <1>3, <1>7, <1>8, <2>2, RecordPosted
  <2> QED BY <1>5, <2>1, <2>2
<1>10. RunInScope'
  BY <1>2, <1>3, <1>6, <1>9 DEF PanelInv, RunInScope
<1> QED BY <1>9, <1>10 DEF PanelInv

(* The next round of a run has chosen nobody yet.                           *)
LEMMA NextRoundFields ==
  ASSUME NEW plan, NEW prior
  PROVE  /\ DOMAIN NextRound(plan, prior) = RunFields
         /\ NextRound(plan, prior).round = run.round + 1
         /\ NextRound(plan, prior).chosen = {} /\ NextRound(plan, prior).votes = {}
BY DEF NextRound, NoRun, RunFields

(* The gate ends the run or goes on in the next round of the scope.         *)
LEMMA PassGateKeeps ==
  ASSUME PanelInv, PassGate
  PROVE  PanelInv'
<1>1. pc = "gate" /\ held' = held /\ \A v \in held : "by" \in DOMAIN v
  BY DEF PassGate, PanelInv, RunInScope
<1>2. run.round \in Nat
  BY <1>1 DEF PanelInv, RunInScope
<1>3. CASE log' = log /\ pc' = "off" /\ run' = NoRun
  BY <1>1, <1>3, StopKeeps
<1>4. ASSUME NEW e, log' = Append(log, e), e.kind \in {"advance", "plan"},
             e.round = run.round + 1, e.kind = "plan" => e.plan = Len(log) + 1,
             NEW plan, NEW prior, run' = NextRound(plan, prior), pc' = "round"
      PROVE  PanelInv'
  <2>1. GoodLog(log)' /\ PanelWaits' /\ ScopeStart(log)' = ScopeStart(log)
    BY <1>1, <1>2, <1>4, RecordPosted
  <2>2. run.round >= ScopeStart(log) /\ ScopeStart(log) \in Nat
    BY <1>1, ScopeOfLog DEF PanelInv, RunInScope
  <2>3. /\ DOMAIN run' = RunFields /\ run'.round = run.round + 1
        /\ run'.chosen = {} /\ run'.votes = {}
    BY <1>4, NextRoundFields
  <2>4. RunInScope'
    BY <1>1, <1>2, <1>4, <2>1, <2>2, <2>3 DEF RunInScope
  <2> QED BY <2>1, <2>4 DEF PanelInv
<1>5. CASE /\ log' = Append(log, Record("advance", run.round + 1, run.plan, run.demand))
           /\ run' = NextRound(run.plan, {}) /\ pc' = "round"
  <2> DEFINE e == Record("advance", run.round + 1, run.plan, run.demand)
  <2>1. e.kind = "advance" /\ e.round = run.round + 1
    BY DEF Record
  <2> HIDE DEF e
  <2> QED BY <1>4, <1>5, <2>1 DEF e
<1>6. ASSUME NEW narrow \in BOOLEAN,
             log' = Append(log, [Record("plan", run.round + 1, Len(log) + 1, run.demand) EXCEPT
                      !.prior = Ledger, !.text = run.text, !.base = run.plan, !.narrow = narrow]),
             run' = NextRound(Len(log) + 1, Ledger), pc' = "round"
      PROVE  PanelInv'
  <2> DEFINE e == [Record("plan", run.round + 1, Len(log) + 1, run.demand) EXCEPT
                     !.prior = Ledger, !.text = run.text, !.base = run.plan, !.narrow = narrow]
  <2>1. e.kind = "plan" /\ e.round = run.round + 1 /\ e.plan = Len(log) + 1
    BY DEF Record
  <2> HIDE DEF e
  <2> QED BY <1>4, <1>6, <2>1 DEF e
<1>7. \/ log' = log /\ pc' = "off" /\ run' = NoRun
      \/ /\ log' = Append(log, Record("advance", run.round + 1, run.plan, run.demand))
         /\ run' = NextRound(run.plan, {}) /\ pc' = "round"
      \/ /\ \E narrow \in BOOLEAN :
              log' = Append(log, [Record("plan", run.round + 1, Len(log) + 1, run.demand) EXCEPT
                       !.prior = Ledger, !.text = run.text, !.base = run.plan, !.narrow = narrow])
         /\ run' = NextRound(Len(log) + 1, Ledger) /\ pc' = "round"
  BY Zenon DEF PassGate, Stop
<1> QED BY <1>3, <1>5, <1>6, <1>7, Zenon

-----------------------------------------------------------------------------
(* The theorem of the panel *)

(* Every step keeps the invariant.                                          *)
LEMMA PanelStep ==
  ASSUME PanelInv, [Next]_vars
  PROVE  PanelInv'
<1>1. CASE UNCHANGED vars
  <2>1. UNCHANGED <<log, held, pc, run>>
    BY <1>1 DEF vars
  <2>2. GoodLog(log)' /\ PanelWaits'
    BY <2>1, NothingPosted
  <2> QED BY <2>1, <2>2 DEF PanelInv, RunInScope
<1>2. CASE Next
  BY <1>2, OutsideKeeps, StartKeeps, PostFreshPlanKeeps, PrepareRoundKeeps,
     LaunchReviewersKeeps, PublishReviewKeeps, SettleRoundKeeps, ReadOutcomeKeeps,
     RepairApprovalKeeps, PassGateKeeps DEF Next
<1> QED BY <1>1, <1>2

(* The secondaries of a plan board wait for its primary, for any board and  *)
(* any number of rounds, runs, restarts and edits of the issue.             *)
THEOREM PlanPanelWaits == Spec => []PanelWaits
<1>1. Init => PanelInv
  BY InitPanelInv
<1>2. PanelInv /\ [Next]_vars => PanelInv'
  BY PanelStep
<1>3. PanelInv => PanelWaits
  BY DEF PanelInv
<1> QED BY <1>1, <1>2, <1>3, PTL DEF Spec

-----------------------------------------------------------------------------
(* What an approval rests on *)

(* The records of a scope come in the order of their rounds; a round is      *)
(* about one plan, the newest there is, and starts from one ledger.          *)
Ordered(L) ==
  /\ \A i, j \in Here(L) : i < j => L[i].round <= L[j].round
  /\ \A i, j \in Here(L) : L[i].round = L[j].round =>
       L[i].plan = L[j].plan /\ L[i].prior = L[j].prior
  /\ \A i \in Here(L) :
       /\ L[i].plan \in OfKind(L, Here(L), "plan") /\ L[i].plan <= i
       /\ \A p \in OfKind(L, Here(L), "plan") : p <= i => p <= L[i].plan
       /\ L[i].kind \notin {"review", "settled"} => L[i].new = {}

(* An approval leaves nothing open, what is kept is older than the round and *)
(* what is found is of it.                                                   *)
Sane(v) ==
  /\ v.ok => v.kept = {} /\ v.new = {}
  /\ \A item \in v.kept : item.round \in Nat /\ item.round < v.round
  /\ \A item \in v.new : item.round = v.round

InRound(L, n) == {i \in OfKind(L, Here(L), "review") : L[i].round = n}
Settled(L, n) == \E s \in OfKind(L, Here(L), "settled") : L[s].round = n
MintedAt(L, n) == MintedIn(L, {i \in Here(L) : L[i].round = n})

(* A reviewer that has blocked a round is not heard again in it.             *)
Judged(L) ==
  /\ \A i \in Here(L) : Sane(L[i])
  /\ \A i \in Here(L) : \A item \in L[i].prior : item.round \in Nat /\ item.round < L[i].round
  /\ \A i \in OfKind(L, Here(L), "review") : L[i].by \in Reviewers
  /\ \A i, j \in OfKind(L, Here(L), "review") :
       i < j /\ L[i].by = L[j].by /\ L[i].round = L[j].round => L[i].ok

(* A round that is over was settled, by the findings of every review but     *)
(* those overlooked.                                                         *)
Closed(L) ==
  /\ \A i, j \in Here(L) : L[i].round < L[j].round => Settled(L, L[i].round)
  /\ \A i \in OfKind(L, Here(L), "review") : L[i].final => Settled(L, L[i].round)
  /\ \A s \in OfKind(L, Here(L), "settled") :
       \A i \in InRound(L, L[s].round) \ Overlooked(L) :
         ~L[i].final => L[i].new \subseteq L[s].new

(* An item of a round that is over is carried or answered.                   *)
Accounted(L) ==
  Overlooked(L) = {} =>
    \A i, j \in Here(L) :
      L[i].round < L[j].round /\ (\A k \in Here(L) : L[k].round <= L[j].round) =>
        \A item \in Minted(L[i]) : item \in L[j].prior \/ Answered(History(L), item)

LogInv == Ordered(log) /\ Judged(log) /\ Closed(log) /\ Accounted(log)

Reviewed(L, r) == ReviewsBy(L, Here(L), r)
Approves(L, r, key) == Reviewed(L, r) # {} /\ Binds(L[Newest(Reviewed(L, r))], key)

(* A vote is the last word of its reviewer.                                  *)
Heard(L, v, n) ==
  \E i \in InRound(L, n) : v = Vote(L[i]) /\ \A j \in Reviewed(L, v.by) : j <= i

Working == pc \notin {"off", "plan"}
Judging == pc \in {"launch", "publish", "outcome", "gate"}

RunIsCurrent ==
  /\ pc = "plan" => Here(log) = {} /\ ~run.short /\ run.prior = {}
  /\ pc # "off" => ended = "none" /\ ~executed
  /\ pc \in {"plan", "round"} => run.votes = {} /\ ~run.short /\ run.chosen = {}
  /\ Working =>
       /\ run.plan \in OfKind(log, Here(log), "plan")
       /\ \A p \in OfKind(log, Here(log), "plan") : p <= run.plan
  /\ Working /\ ~run.short =>
       /\ \A i \in Here(log) : log[i].round <= run.round
       /\ \E i \in Here(log) : log[i].round = run.round /\ log[i].plan = run.plan
                                /\ log[i].prior = run.prior
  /\ pc = "round" /\ ~run.resumed =>
       InRound(log, run.round) = {} /\ ~Settled(log, run.round)

VotesAreHeard ==
  /\ pc \in {"launch", "publish", "outcome"} =>
       \A v \in run.votes : Heard(log, v, run.round) /\ (v.ok => KeyOf(v) = Key)
  /\ Judging => run.chosen \subseteq Reviewers
  /\ Judging => \A r \in run.appr \ run.chosen : Approves(log, r, Key)
  /\ pc \in {"launch", "publish", "outcome"} /\ ~run.short =>
       \A i \in InRound(log, run.round) :
         ~log[i].ok => IF log[i].by \in run.chosen THEN Vote(log[i]) \in run.votes
                       ELSE i \in Overlooked(log)

RoundIsSettled ==
  /\ pc \in {"launch", "publish"} =>
       /\ run.settled <=> Settled(log, run.round)
       /\ run.settled => Pending = {} /\ run.new = MintedAt(log, run.round)
  /\ pc \in {"outcome", "gate"} => run.chosen \subseteq Names(run.votes)
  /\ pc \in {"outcome", "gate"} /\ ~run.short => Settled(log, run.round)
  /\ pc = "outcome" => MintedAt(log, run.round) \subseteq run.new
  /\ pc = "outcome" => \A item \in run.new : item.round = run.round

GateIsSound ==
  pc = "gate" =>
    /\ \A r \in run.chosen \ run.blocked :
         /\ Reviewed(log, r) # {}
         /\ LET e == log[Newest(Reviewed(log, r))]
            IN  /\ e.ok /\ KeyOf(e) = Key
                /\ e.ack \/ r \in run.todo \/ run.demand = NoDemand \/ ~Clean
    /\ run.todo \cap run.blocked = {}
    /\ \A v \in Votes(run.todo) :
         Sane(v) /\ v = Vote(v) /\ v.ok /\ KeyOf(v) = Key /\ v.round = run.round
    /\ ~run.short =>
         /\ MintedAt(log, run.round) \subseteq run.ledger
         /\ \A i \in InRound(log, run.round) : i \in Overlooked(log) \/ log[i].kept \subseteq run.ledger
         /\ run.prior \subseteq run.ledger \/ InRound(log, run.round) # {}
         /\ \A item \in run.ledger : item.round \in Nat /\ item.round <= run.round
         /\ run.new \subseteq run.ledger

ShortIsSound ==
  /\ run.short => pc \in {"outcome", "gate"}
  /\ run.short =>
       /\ run.chosen = Names(run.votes) /\ run.appr = Reviewers
       /\ \A v \in run.votes : Binds(v, Key)
       /\ \A item \in run.prior : Answered(History(log), item)
       /\ Lost(History(log), run.prior \cup run.new) = {}
       /\ Apply(run.prior, run.votes) = {} /\ run.new = {}
       /\ run.demand # NoDemand => log[run.plan].under = run.demand
       /\ pc = "gate" => Clean /\ run.todo = {} /\ run.missing = {}

(* So is what waits in the spool.                                            *)
HeldIsSane == \A v \in held : Sane(v) /\ v = Vote(v)

RunSound == RunIsCurrent /\ VotesAreHeard /\ RoundIsSettled /\ GateIsSound /\ ShortIsSound

-----------------------------------------------------------------------------
(* The newest of some numbers is the one no other exceeds.                  *)
LEMMA TheNewest ==
  ASSUME NEW S \in SUBSET Nat, NEW x \in S, \A j \in S : j <= x
  PROVE  Newest(S) = x
<1> DEFINE m == Newest(S)
<1>1. m \in S /\ \A j \in S : j <= m
  <2>1. x \in Nat /\ S # {}
    OBVIOUS
  <2> QED BY <2>1, NewestIsGreatest
<1> HIDE DEF m
<1>2. m = x
  BY <1>1
<1> QED BY <1>2 DEF m

-----------------------------------------------------------------------------
(* One record more *)

(* What M has in its scope: all of L, and after it e.                       *)
Grown(L, M, e) ==
  LET n == Len(L) + 1
  IN  /\ n \in Nat /\ Here(M) = Here(L) \cup {n} /\ M[n] = e
      /\ \A i \in Here(L) : i \in Nat /\ i < n /\ M[i] = L[i]

(* A record of the scope grows it.                                          *)
LEMMA AppendGrows ==
  ASSUME NEW L, GoodLog(L), NEW e, e.kind # "scope", e.round \in Nat,
         e.round >= ScopeStart(L), e.kind = "plan" => e.plan = Len(L) + 1
  PROVE  Grown(L, Append(L, e), e)
<1> DEFINE M == Append(L, e)
<1>1. OneMore(L, M, e)
  BY AppendsOne DEF GoodLog
<1>2. Here(M) = Here(L) \cup {Len(L) + 1}
  BY AppendInScope
<1>3. Here(L) \subseteq DOMAIN L
  BY ScopeOfLog
<1> HIDE DEF M
<1>4. Grown(L, M, e)
  BY <1>1, <1>2, <1>3 DEF Grown, OneMore
<1> QED BY <1>4 DEF M

(* What the scope shows of it.                                              *)
LEMMA GrownKinds ==
  ASSUME NEW L, NEW M, NEW e, Grown(L, M, e)
  PROVE  /\ \A k : OfKind(M, Here(M), k) =
              OfKind(L, Here(L), k) \cup (IF e.kind = k THEN {Len(L) + 1} ELSE {})
         /\ \A r : Reviewed(M, r) =
              Reviewed(L, r) \cup (IF e.kind = "review" /\ e.by = r THEN {Len(L) + 1} ELSE {})
         /\ \A n : InRound(M, n) =
              InRound(L, n) \cup (IF e.kind = "review" /\ e.round = n THEN {Len(L) + 1} ELSE {})
         /\ \A n : Settled(M, n) <=> Settled(L, n) \/ (e.kind = "settled" /\ e.round = n)
<1> DEFINE n == Len(L) + 1
<1>1. /\ Here(M) = Here(L) \cup {n} /\ M[n] = e
      /\ \A i \in Here(L) : M[i] = L[i]
  BY DEF Grown
<1> HIDE DEF n
<1>2. \A k : OfKind(M, Here(M), k) =
              OfKind(L, Here(L), k) \cup (IF e.kind = k THEN {n} ELSE {})
  BY <1>1 DEF OfKind
<1>3. \A r : Reviewed(M, r) =
              Reviewed(L, r) \cup (IF e.kind = "review" /\ e.by = r THEN {n} ELSE {})
  BY <1>1, <1>2 DEF Reviewed, ReviewsBy, OfKind
<1>4. \A m : InRound(M, m) =
              InRound(L, m) \cup (IF e.kind = "review" /\ e.round = m THEN {n} ELSE {})
  BY <1>1, <1>2 DEF InRound, OfKind
<1>5. \A m : Settled(M, m) <=> Settled(L, m) \/ (e.kind = "settled" /\ e.round = m)
  BY <1>1 DEF Settled, OfKind
<1> QED BY <1>2, <1>3, <1>4, <1>5 DEF n

(* What it mints is minted in its round.                                    *)
LEMMA GrownMinted ==
  ASSUME NEW L, NEW M, NEW e, Grown(L, M, e)
  PROVE  /\ \A n : e.round # n => MintedAt(M, n) = MintedAt(L, n)
         /\ MintedAt(M, e.round) = MintedAt(L, e.round) \cup Minted(e)
<1> DEFINE n == Len(L) + 1
<1>1. /\ Here(M) = Here(L) \cup {n} /\ M[n] = e
      /\ \A i \in Here(L) : M[i] = L[i]
  BY DEF Grown
<1> HIDE DEF n
<1>2. /\ \A i \in Here(L) : Minted(M[i]) = Minted(L[i])
      /\ Minted(M[n]) = Minted(e)
  BY <1>1
<1>3. ASSUME NEW m, e.round # m
      PROVE  MintedAt(M, m) = MintedAt(L, m)
  <2>1. {i \in Here(M) : M[i].round = m} = {i \in Here(L) : L[i].round = m}
    BY <1>1, <1>3
  <2> QED BY <1>2, <2>1 DEF MintedAt, MintedIn
<1>4. MintedAt(M, e.round) = MintedAt(L, e.round) \cup Minted(e)
  <2>1. {i \in Here(M) : M[i].round = e.round} = {i \in Here(L) : L[i].round = e.round} \cup {n}
    BY <1>1
  <2> QED BY <1>2, <2>1 DEF MintedAt, MintedIn
<1> QED BY <1>3, <1>4

(* What was overlooked stays so, and only a checkpoint overlooks.           *)
LEMMA GrownOverlooked ==
  ASSUME NEW L, NEW M, NEW e, Grown(L, M, e)
  PROVE  /\ Overlooked(L) \subseteq Overlooked(M)
         /\ e.kind # "prelaunch" => Overlooked(M) = Overlooked(L)
         /\ \A i \in OfKind(L, Here(L), "review") :
              /\ e.kind = "prelaunch" /\ ~L[i].ok /\ L[i].plan = e.plan /\ L[i].round = e.round
              /\ L[i].by \notin e.chosen
              => i \in Overlooked(M)
<1> DEFINE n == Len(L) + 1
<1>1. /\ Here(M) = Here(L) \cup {n} /\ M[n] = e /\ n \in Nat
      /\ \A i \in Here(L) : M[i] = L[i] /\ i < n /\ i \in Nat
  BY DEF Grown
<1> HIDE DEF n
<1>2. \A k : OfKind(M, Here(M), k) =
              OfKind(L, Here(L), k) \cup (IF e.kind = k THEN {n} ELSE {})
  BY <1>1 DEF OfKind
<1>3. ASSUME NEW i \in Here(L)
      PROVE  Later(OfKind(M, SameRound(M, Here(M), i), "prelaunch"), i) =
               Later(OfKind(L, SameRound(L, Here(L), i), "prelaunch"), i)
                 \cup (IF e.kind = "prelaunch" /\ e.plan = L[i].plan /\ e.round = L[i].round
                       THEN {n} ELSE {})
  BY <1>1 DEF Later, OfKind, SameRound
<1>4. Later(OfKind(M, SameRound(M, Here(M), n), "prelaunch"), n) = {}
  BY <1>1 DEF Later, OfKind, SameRound
<1>5. \A i \in Here(L) : \A m \in Later(OfKind(L, SameRound(L, Here(L), i), "prelaunch"), i) :
        M[m] = L[m]
  BY <1>1 DEF Later, OfKind, SameRound
<1>6. ASSUME NEW i \in Here(L)
      PROVE  /\ i \in Overlooked(L) => i \in Overlooked(M)
             /\ e.kind # "prelaunch" /\ i \in Overlooked(M) => i \in Overlooked(L)
             /\ (/\ e.kind = "prelaunch" /\ ~L[i].ok /\ L[i].plan = e.plan /\ L[i].round = e.round
                 /\ L[i].by \notin e.chosen /\ L[i].kind = "review")
                => i \in Overlooked(M)
  <2>1. M[i] = L[i] /\ i \in Here(M)
    BY <1>1
  <2>2. i \in OfKind(M, Here(M), "review") <=> i \in OfKind(L, Here(L), "review")
    BY <1>6, <2>1 DEF OfKind
  <2>3. i \in OfKind(L, Here(L), "review") <=> L[i].kind = "review"
    BY <1>6 DEF OfKind
  <2> QED BY <1>1, <1>3, <1>5, <2>1, <2>2, <2>3 DEF Overlooked
<1>7. n \notin Overlooked(M)
  BY <1>4 DEF Overlooked
<1>8. Overlooked(L) \subseteq Here(L) /\ Overlooked(M) \subseteq Here(L) \cup {n}
  BY <1>1 DEF Overlooked, OfKind
<1> QED BY <1>6, <1>7, <1>8 DEF OfKind

(* What is said last of a reviewer stays the last until it speaks again.    *)
LEMMA GrownWords ==
  ASSUME NEW L, NEW M, NEW e, Grown(L, M, e), \E S : L \in Seq(S)
  PROVE  /\ \A r, key : ~(e.kind = "review" /\ e.by = r) =>
              (Approves(L, r, key) <=> Approves(M, r, key))
         /\ \A r, key : e.kind = "review" /\ e.by = r =>
              (Approves(M, r, key) <=> Binds(e, key))
         /\ \A r : e.kind = "review" /\ e.by = r =>
              Reviewed(M, r) # {} /\ M[Newest(Reviewed(M, r))] = e
         /\ \A r : ~(e.kind = "review" /\ e.by = r) =>
              /\ Reviewed(M, r) = Reviewed(L, r)
              /\ Reviewed(L, r) # {} => M[Newest(Reviewed(M, r))] = L[Newest(Reviewed(L, r))]
         /\ \A v, k : Heard(L, v, k) /\ ~(e.kind = "review" /\ e.by = v.by) => Heard(M, v, k)
         /\ \A v, k : e.kind = "review" /\ e.by = v.by /\ e.round = k /\ v = Vote(e) => Heard(M, v, k)
<1> DEFINE n == Len(L) + 1
<1>1. /\ Here(M) = Here(L) \cup {n} /\ M[n] = e /\ n \in Nat
      /\ \A i \in Here(L) : M[i] = L[i] /\ i < n /\ i \in Nat
  BY DEF Grown
<1>2. /\ \A r : Reviewed(M, r) =
           Reviewed(L, r) \cup (IF e.kind = "review" /\ e.by = r THEN {n} ELSE {})
      /\ \A k : InRound(M, k) =
           InRound(L, k) \cup (IF e.kind = "review" /\ e.round = k THEN {n} ELSE {})
  BY GrownKinds
<1> HIDE DEF n
<1>3. \A r : Reviewed(L, r) \subseteq Here(L) /\ Reviewed(L, r) \subseteq DOMAIN L
  BY DEF Reviewed, ReviewsBy, OfKind, Here
<1>4. ASSUME NEW r, e.kind = "review", e.by = r
      PROVE  Reviewed(M, r) # {} /\ M[Newest(Reviewed(M, r))] = e
  <2>1. n \in Reviewed(M, r) /\ \A j \in Reviewed(M, r) : j <= n /\ j \in Nat
    BY <1>1, <1>2, <1>3, <1>4
  <2>2. Reviewed(M, r) \in SUBSET Nat
    BY <2>1
  <2>3. Newest(Reviewed(M, r)) = n
    BY <2>1, <2>2, TheNewest
  <2> QED BY <1>1, <2>1, <2>3
<1>5. ASSUME NEW r, ~(e.kind = "review" /\ e.by = r)
      PROVE  /\ Reviewed(M, r) = Reviewed(L, r)
             /\ Reviewed(L, r) # {} => M[Newest(Reviewed(M, r))] = L[Newest(Reviewed(L, r))]
  <2>1. Reviewed(M, r) = Reviewed(L, r)
    BY <1>2, <1>5
  <2>2. Reviewed(L, r) # {} => Newest(Reviewed(L, r)) \in Reviewed(L, r)
    BY <1>3, NewestPlace
  <2> QED BY <1>1, <1>3, <2>1, <2>2
<1>6. ASSUME NEW v, NEW k, Heard(L, v, k), ~(e.kind = "review" /\ e.by = v.by)
      PROVE  Heard(M, v, k)
  <2>1. PICK i \in InRound(L, k) : v = Vote(L[i]) /\ \A j \in Reviewed(L, v.by) : j <= i
    BY <1>6 DEF Heard
  <2>2. i \in InRound(M, k) /\ M[i] = L[i]
    BY <1>1, <1>2, <2>1 DEF InRound, OfKind
  <2>3. Reviewed(M, v.by) = Reviewed(L, v.by)
    BY <1>5, <1>6
  <2> QED BY <2>1, <2>2, <2>3 DEF Heard
<1>7. ASSUME NEW v, NEW k, e.kind = "review", e.by = v.by, e.round = k, v = Vote(e)
      PROVE  Heard(M, v, k)
  <2>1. n \in InRound(M, k) /\ M[n] = e
    BY <1>1, <1>2, <1>7
  <2>2. \A j \in Reviewed(M, v.by) : j <= n
    BY <1>1, <1>2, <1>3
  <2> QED BY <1>7, <2>1, <2>2 DEF Heard
<1> QED BY <1>4, <1>5, <1>6, <1>7 DEF Approves

-----------------------------------------------------------------------------
(* The order of the records *)

(* A record of the newest round, or of a newer one, keeps the order.        *)
LEMMA OrderKept ==
  ASSUME NEW L, NEW M, NEW e, Grown(L, M, e), Ordered(L),
         \A i \in Here(L) : L[i].round <= e.round,
         \A i \in Here(L) : L[i].round = e.round => L[i].plan = e.plan /\ L[i].prior = e.prior,
         \/ e.kind = "plan" /\ e.plan = Len(L) + 1
         \/ /\ e.kind # "plan" /\ e.plan \in OfKind(L, Here(L), "plan")
            /\ \A p \in OfKind(L, Here(L), "plan") : p <= e.plan,
         e.kind \notin {"review", "settled"} => e.new = {}
  PROVE  Ordered(M)
<1> DEFINE n == Len(L) + 1
<1>1. /\ Here(M) = Here(L) \cup {n} /\ M[n] = e /\ n \in Nat
      /\ \A i \in Here(L) : M[i] = L[i] /\ i < n /\ i \in Nat
  BY DEF Grown
<1>2. OfKind(M, Here(M), "plan") = OfKind(L, Here(L), "plan") \cup (IF e.kind = "plan" THEN {n} ELSE {})
  BY GrownKinds
<1>3. \A i \in OfKind(L, Here(L), "plan") : i \in Here(L)
  BY DEF OfKind
<1>7. \/ e.kind = "plan" /\ e.plan = n
      \/ /\ e.kind # "plan" /\ e.plan \in OfKind(L, Here(L), "plan")
         /\ \A p \in OfKind(L, Here(L), "plan") : p <= e.plan
  OBVIOUS
<1> HIDE DEF n
<1>4. \A i, j \in Here(M) : i < j => M[i].round <= M[j].round
  BY <1>1 DEF Ordered
<1>5. \A i, j \in Here(M) : M[i].round = M[j].round =>
        M[i].plan = M[j].plan /\ M[i].prior = M[j].prior
  BY <1>1 DEF Ordered
<1>6. ASSUME NEW i \in Here(M)
      PROVE  /\ M[i].plan \in OfKind(M, Here(M), "plan") /\ M[i].plan <= i
             /\ \A p \in OfKind(M, Here(M), "plan") : p <= i => p <= M[i].plan
             /\ M[i].kind \notin {"review", "settled"} => M[i].new = {}
  <2>1. CASE i = n
    <3>1. M[i] = e /\ i \in Nat
      BY <1>1, <2>1
    <3>4. \A p \in OfKind(L, Here(L), "plan") : p \in Nat /\ p < n
      BY <1>1, <1>3
    <3>2. CASE e.kind = "plan"
      <4>1. e.plan = n /\ OfKind(M, Here(M), "plan") = OfKind(L, Here(L), "plan") \cup {n}
        BY <1>2, <1>7, <3>2
      <4>2. n <= n /\ e.new = {}
        BY <1>1, <3>2
      <4> QED BY <2>1, <3>1, <4>1, <4>2
    <3>3. CASE e.kind # "plan"
      <4>1. OfKind(M, Here(M), "plan") = OfKind(L, Here(L), "plan")
        BY <1>2, <3>3
      <4>2. /\ e.plan \in OfKind(L, Here(L), "plan") /\ e.plan <= n
            /\ \A p \in OfKind(L, Here(L), "plan") : p <= e.plan
        BY <1>1, <1>7, <3>3, <3>4
      <4>3. e.kind \notin {"review", "settled"} => e.new = {}
        OBVIOUS
      <4> QED BY <2>1, <3>1, <4>1, <4>2, <4>3
    <3> QED BY <3>2, <3>3
  <2>2. CASE i # n
    <3>1. i \in Here(L) /\ M[i] = L[i] /\ i < n
      BY <1>1, <2>2
    <3>2. /\ L[i].plan \in OfKind(L, Here(L), "plan") /\ L[i].plan <= i
          /\ \A p \in OfKind(L, Here(L), "plan") : p <= i => p <= L[i].plan
          /\ L[i].kind \notin {"review", "settled"} => L[i].new = {}
      BY <3>1 DEF Ordered
    <3>3. ~(n <= i) /\ i \in Nat
      BY <1>1, <3>1
    <3> QED BY <1>2, <3>1, <3>2, <3>3
  <2> QED BY <2>1, <2>2
<1> QED BY <1>4, <1>5, <1>6 DEF Ordered

-----------------------------------------------------------------------------
(* What the records say of the items *)

(* Only what was found is made an item.                                     *)
LEMMA MintedIsNew == \A e : Minted(e) \subseteq e.new
BY DEF Minted

(* A sane record keeps the log judged, if it is no second word of a reviewer *)
(* that blocks the round.                                                   *)
LEMMA JudgedKept ==
  ASSUME NEW L, NEW M, NEW e, Grown(L, M, e), Judged(L), Sane(e),
         \A item \in e.prior : item.round \in Nat /\ item.round < e.round,
         e.kind = "review" =>
           e.by \in Reviewers /\ \A i \in InRound(L, e.round) : L[i].by = e.by => L[i].ok
  PROVE  Judged(M)
<1> DEFINE n == Len(L) + 1
<1>1. /\ Here(M) = Here(L) \cup {n} /\ M[n] = e /\ n \in Nat
      /\ \A i \in Here(L) : M[i] = L[i] /\ i < n /\ i \in Nat
  BY DEF Grown
<1> HIDE DEF n
<1>2. \A i \in Here(M) : Sane(M[i])
  BY <1>1 DEF Judged
<1>3. \A i \in Here(M) : \A item \in M[i].prior : item.round \in Nat /\ item.round < M[i].round
  BY <1>1 DEF Judged
<1>4. ASSUME NEW i \in OfKind(M, Here(M), "review"), NEW j \in OfKind(M, Here(M), "review"),
             i < j, M[i].by = M[j].by, M[i].round = M[j].round
      PROVE  M[i].ok
  <2>1. i \in Here(M) /\ j \in Here(M) /\ M[i].kind = "review" /\ M[j].kind = "review"
    BY DEF OfKind
  <2>2. i \in Here(L) /\ M[i] = L[i]
    BY <1>1, <1>4, <2>1
  <2>3. CASE j = n
    BY <1>1, <1>4, <2>1, <2>2, <2>3 DEF InRound, OfKind
  <2>4. CASE j # n
    BY <1>1, <1>4, <2>1, <2>2, <2>4 DEF Judged, OfKind
  <2> QED BY <2>3, <2>4
<1>5. \A i \in OfKind(M, Here(M), "review") : M[i].by \in Reviewers
  BY <1>1 DEF Judged, OfKind
<1> QED BY <1>2, <1>3, <1>4, <1>5 DEF Judged

(* A record keeps what is closed closed.                                    *)
LEMMA ClosedKept ==
  ASSUME NEW L, NEW M, NEW e, Grown(L, M, e), Closed(L),
         \A i \in Here(L) : L[i].round \in Nat /\ L[i].round <= e.round, e.round \in Nat,
         \A i \in Here(L) : L[i].round < e.round => Settled(L, L[i].round),
         e.kind = "review" /\ e.final => Settled(L, e.round),
         e.kind = "settled" =>
           \A i \in InRound(L, e.round) \ Overlooked(L) : ~L[i].final => L[i].new \subseteq e.new,
         e.kind = "review" /\ ~e.final => ~Settled(L, e.round) \/ e.new = {}
  PROVE  Closed(M)
<1> DEFINE n == Len(L) + 1
<1>1. /\ Here(M) = Here(L) \cup {n} /\ M[n] = e /\ n \in Nat
      /\ \A i \in Here(L) : M[i] = L[i] /\ i < n /\ i \in Nat
  BY DEF Grown
<1>2. /\ \A m : Settled(M, m) <=> Settled(L, m) \/ (e.kind = "settled" /\ e.round = m)
      /\ \A m : InRound(M, m) =
              InRound(L, m) \cup (IF e.kind = "review" /\ e.round = m THEN {n} ELSE {})
  BY GrownKinds
<1>3. Overlooked(L) \subseteq Overlooked(M)
  BY GrownOverlooked
<1> HIDE DEF n
<1>4. ASSUME NEW i \in Here(M), NEW j \in Here(M), M[i].round < M[j].round
      PROVE  Settled(M, M[i].round)
  <2>1. i \in Here(L) /\ M[i] = L[i]
    BY <1>1, <1>4
  <2>2. CASE j = n
    BY <1>1, <1>2, <1>4, <2>1, <2>2
  <2>3. CASE j # n
    BY <1>1, <1>2, <1>4, <2>1, <2>3 DEF Closed
  <2> QED BY <2>2, <2>3
<1>5. ASSUME NEW i \in OfKind(M, Here(M), "review"), M[i].final
      PROVE  Settled(M, M[i].round)
  <2>1. CASE i = n
    BY <1>1, <1>2, <1>5, <2>1 DEF OfKind
  <2>2. CASE i # n
    BY <1>1, <1>2, <1>5, <2>2 DEF OfKind, Closed
  <2> QED BY <2>1, <2>2
<1>6. ASSUME NEW s \in OfKind(M, Here(M), "settled"),
             NEW i \in InRound(M, M[s].round), i \notin Overlooked(M), ~M[i].final
      PROVE  M[i].new \subseteq M[s].new
  <2>1. s \in Here(M) /\ M[s].kind = "settled"
    BY DEF OfKind
  <2>2. i \in Here(M) /\ M[i].kind = "review" /\ M[i].round = M[s].round
    BY DEF InRound, OfKind
  <2>3. CASE s = n
    <3>1. i \in InRound(L, e.round) /\ M[i] = L[i] /\ i \notin Overlooked(L)
      BY <1>1, <1>2, <1>3, <1>6, <2>1, <2>2, <2>3 DEF InRound, OfKind
    <3> QED BY <1>1, <1>6, <2>1, <2>3, <3>1
  <2>4. CASE s # n
    <3>1. s \in OfKind(L, Here(L), "settled") /\ M[s] = L[s]
      BY <1>1, <2>1, <2>4 DEF OfKind
    <3>2. CASE i = n
      <4>1. Settled(L, e.round) /\ e.kind = "review" /\ ~e.final
        BY <1>1, <1>6, <2>2, <3>1, <3>2 DEF Settled
      <4> QED BY <1>1, <3>2, <4>1
    <3>3. CASE i # n
      <4>1. i \in InRound(L, L[s].round) /\ M[i] = L[i] /\ i \notin Overlooked(L)
        BY <1>1, <1>3, <1>6, <2>2, <3>1, <3>3 DEF InRound, OfKind
      <4> QED BY <1>6, <3>1, <4>1 DEF Closed
    <3> QED BY <3>2, <3>3
  <2> QED BY <2>3, <2>4
<1> QED BY <1>4, <1>5, <1>6 DEF Closed

(* An answered item that a record does not mention stays answered.          *)
LEMMA AnsweredStays ==
  ASSUME NEW L, NEW M, NEW e, Grown(L, M, e), \E S : L \in Seq(S),
         NEW item, item \notin e.prior \cup Minted(e), Answered(History(L), item)
  PROVE  Answered(History(M), item)
<1> DEFINE n == Len(L) + 1
           mentions(K) == {i \in Here(K) : item \in K[i].prior \cup Minted(K[i])}
           round(K) == SameRound(K, Here(K), Newest(mentions(K)))
           judges(K) == {i \in OfKind(K, round(K), "review") : item \in K[i].prior}
<1>1. /\ Here(M) = Here(L) \cup {n} /\ M[n] = e
      /\ \A i \in Here(L) : M[i] = L[i]
  BY DEF Grown
<1>2. \A K : Answered(History(K), item) <=>
        /\ item \notin MintedIn(K, round(K))
        /\ judges(K) # {} /\ \A i \in judges(K) : item \notin K[i].kept
  BY DEF Answered, History
<1>3. mentions(M) = mentions(L) /\ mentions(L) \subseteq Here(L) /\ Here(L) \subseteq DOMAIN L
  BY <1>1 DEF Here
<1>4. \A K : judges(K) \subseteq mentions(K)
  BY DEF OfKind, SameRound
<1>5. Newest(mentions(L)) \in Here(L)
  <2>1. mentions(L) # {} /\ mentions(L) \in SUBSET DOMAIN L
    BY <1>2, <1>3, <1>4
  <2> HIDE DEF mentions
  <2> QED BY <1>3, <2>1, NewestPlace
<1> DEFINE t == Newest(mentions(L))
<1>6. round(M) \subseteq round(L) \cup {n} /\ round(L) \subseteq round(M) /\ round(L) \subseteq Here(L)
  <2>1. t \in Here(L) /\ M[t] = L[t] /\ Newest(mentions(M)) = t
    BY <1>1, <1>3, <1>5
  <2> HIDE DEF t, mentions
  <2>2. round(M) = SameRound(M, Here(M), t) /\ round(L) = SameRound(L, Here(L), t)
    BY <2>1 DEF t
  <2> HIDE DEF round
  <2> QED BY <1>1, <2>1, <2>2 DEF SameRound
<1> HIDE DEF n, round, mentions, t
<1>7. item \notin MintedIn(M, round(M))
  <2> SUFFICES ASSUME NEW i \in round(M), item \in Minted(M[i]) PROVE FALSE
    BY DEF MintedIn
  <2>1. i \in round(L) /\ M[i] = L[i]
    BY <1>1, <1>6
  <2> QED BY <1>2, <2>1 DEF MintedIn
<1>8. judges(M) = judges(L)
  <2>1. \A i \in round(M) : M[i].kind = "review" /\ item \in M[i].prior => i \in round(L)
    BY <1>1, <1>6
  <2> QED BY <1>1, <1>6, <2>1 DEF OfKind
<1>9. \A i \in judges(L) : M[i] = L[i]
  BY <1>1, <1>6 DEF OfKind
<1> QED BY <1>2, <1>7, <1>8, <1>9

(* An item that nobody keeps in the last round that mentions it is answered.*)
LEMMA AnsweredInRound ==
  ASSUME NEW L, GoodLog(L), Ordered(L), Judged(L), NEW m, NEW item,
         \A i \in Here(L) : item \in L[i].prior \cup Minted(L[i]) => L[i].round <= m,
         NEW k \in Here(L), L[k].round = m, item \in L[k].prior,
         InRound(L, m) # {}, \A i \in InRound(L, m) : item \notin L[i].kept
  PROVE  Answered(History(L), item)
<1> DEFINE mentions == {i \in Here(L) : item \in L[i].prior \cup Minted(L[i])}
           t == Newest(mentions)
           round == SameRound(L, Here(L), t)
           judges == {i \in OfKind(L, round, "review") : item \in L[i].prior}
<1>1. /\ Here(L) \subseteq DOMAIN L /\ DOMAIN L \subseteq Nat
      /\ \A i \in Here(L) : L[i].round \in Nat
  <2>1. DOMAIN L \subseteq Nat
    BY AppendsOne DEF GoodLog, OneMore
  <2> QED BY <2>1, ScopeOfLog
<1>2. t \in mentions /\ k <= t
  <2>1. k \in mentions /\ mentions \in SUBSET DOMAIN L
    BY <1>1
  <2>2. \E S : L \in Seq(S)
    BY DEF GoodLog
  <2> HIDE DEF mentions
  <2> QED BY <2>1, <2>2, NewestPlace
<1> HIDE DEF t
<1>3. L[t].round = m
  <2>1. t \in Here(L) /\ L[t].round <= m
    BY <1>2
  <2>2. k = t \/ k < t
    BY <1>1, <1>2, <2>1
  <2>3. L[k].round <= L[t].round
    BY <1>1, <2>1, <2>2 DEF Ordered
  <2> QED BY <1>1, <2>1, <2>3
<1>4. \A i : i \in round <=> i \in Here(L) /\ L[i].round = m
  <2>1. t \in Here(L)
    BY <1>2
  <2> QED BY <1>3, <2>1 DEF SameRound, Ordered
<1> HIDE DEF round
<1>5. item \notin MintedIn(L, round)
  <2> SUFFICES ASSUME NEW i \in round, item \in L[i].new PROVE FALSE
    BY MintedIsNew DEF MintedIn
  <2>1. i \in Here(L) /\ L[i].round = m
    BY <1>4
  <2>2. item.round = m
    BY <2>1 DEF Judged, Sane
  <2>3. item.round \in Nat /\ item.round < m
    BY DEF Judged
  <2> QED BY <2>2, <2>3
<1>6. judges = InRound(L, m)
  <2>1. \A i \in Here(L) : L[i].round = m => item \in L[i].prior
    BY DEF Ordered
  <2> QED BY <1>4, <2>1 DEF InRound, OfKind
<1>7. Answered(History(L), item) <=>
        /\ item \notin MintedIn(L, round)
        /\ judges # {} /\ \A i \in judges : item \notin L[i].kept
  BY DEF Answered, History, round, t
<1> HIDE DEF judges
<1> QED BY <1>5, <1>6, <1>7

(* A record of the newest round, or of one that carries what is not         *)
(* answered, keeps the account.                                             *)
LEMMA AccountKept ==
  ASSUME NEW L, NEW M, NEW e, Grown(L, M, e), GoodLog(L), Ordered(L), Judged(L), Accounted(L),
         \A i \in Here(L) : L[i].round <= e.round, e.round \in Nat,
         \A i \in Here(L) : L[i].round = e.round => L[i].prior = e.prior,
         Sane(e),
         (\A i \in Here(L) : L[i].round < e.round) /\ Overlooked(L) = {} =>
           \A i \in Here(L) : \A item \in Minted(L[i]) :
             item \in e.prior \/ Answered(History(L), item)
  PROVE  Accounted(M)
<1> DEFINE n == Len(L) + 1
<1>1. /\ Here(M) = Here(L) \cup {n} /\ M[n] = e /\ n \in Nat
      /\ \A i \in Here(L) : M[i] = L[i] /\ i < n /\ i \in Nat /\ L[i].round \in Nat
  BY ScopeOfLog DEF Grown
<1>2. Overlooked(L) \subseteq Overlooked(M)
  BY GrownOverlooked
<1> HIDE DEF n
<1> SUFFICES ASSUME Overlooked(M) = {}, NEW i \in Here(M), NEW j \in Here(M),
                    M[i].round < M[j].round, \A k \in Here(M) : M[k].round <= M[j].round,
                    NEW item \in Minted(M[i])
             PROVE  item \in M[j].prior \/ Answered(History(M), item)
  BY DEF Accounted
<1>3. M[j].round = e.round /\ M[j].prior = e.prior
  BY <1>1
<1>4. i \in Here(L) /\ M[i] = L[i] /\ L[i].round < e.round /\ item \in Minted(L[i])
  BY <1>1, <1>3
<1>5. item \in e.prior \/ Answered(History(L), item)
  <2>1. CASE \E k \in Here(L) : L[k].round = e.round
    <3>1. PICK k \in Here(L) : L[k].round = e.round
      BY <2>1
    <3>2. L[k].prior = e.prior /\ L[i].round < L[k].round /\ \A l \in Here(L) : L[l].round <= L[k].round
      BY <1>4, <3>1
    <3>3. Overlooked(L) = {}
      BY <1>2
    <3> QED BY <1>4, <3>1, <3>2, <3>3 DEF Accounted
  <2>2. CASE ~\E k \in Here(L) : L[k].round = e.round
    <3>1. \A k \in Here(L) : L[k].round < e.round
      BY <1>1, <2>2
    <3> QED BY <1>2, <1>4, <3>1
  <2> QED BY <2>1, <2>2
<1>6. item \notin Minted(e)
  <2>1. item.round = L[i].round
    BY <1>4, MintedIsNew DEF Judged, Sane
  <2>2. item \in Minted(e) => item.round = e.round
    BY MintedIsNew DEF Sane
  <2> QED BY <1>1, <1>4, <2>1, <2>2
<1>7. CASE item \in e.prior
  BY <1>3, <1>7
<1>8. CASE item \notin e.prior
  <2>1. \E S : L \in Seq(S)
    BY DEF GoodLog
  <2> QED BY <1>5, <1>6, <1>8, <2>1, AnsweredStays
<1> QED BY <1>7, <1>8

(* What a ledger that keeps what is minted and what a review keeps leaves   *)
(* out is answered.                                                         *)
LEMMA LeftOutIsAnswered ==
  ASSUME NEW L, GoodLog(L), Ordered(L), Judged(L), Accounted(L), Overlooked(L) = {},
         NEW k \in Here(L), \A i \in Here(L) : L[i].round <= L[k].round,
         NEW P, MintedAt(L, L[k].round) \subseteq P,
         \A i \in InRound(L, L[k].round) : L[i].kept \subseteq P,
         L[k].prior \subseteq P \/ InRound(L, L[k].round) # {},
         NEW i \in Here(L), NEW item \in Minted(L[i]), item \notin P
  PROVE  Answered(History(L), item)
<1> DEFINE m == L[k].round
<1>1. m \in Nat /\ L[i].round \in Nat
  BY ScopeOfLog
<1>2. L[i].round < m
  <2>1. L[i].round = m => item \in MintedAt(L, m)
    BY DEF MintedAt, MintedIn
  <2>2. L[i].round <= m
    OBVIOUS
  <2> HIDE DEF m
  <2>3. L[i].round # m
    BY <2>1 DEF m
  <2> QED BY <1>1, <2>2, <2>3
<1>3. item \in L[k].prior \/ Answered(History(L), item)
  BY <1>2 DEF Accounted
<1>4. CASE item \in L[k].prior
  <2>1. InRound(L, m) # {} /\ \A j \in InRound(L, m) : item \notin L[j].kept
    BY <1>4
  <2>2. \A j \in Here(L) : item \in L[j].prior \cup Minted(L[j]) => L[j].round <= m
    OBVIOUS
  <2>3. k \in Here(L) /\ L[k].round = m
    OBVIOUS
  <2> HIDE DEF m
  <2> QED BY <1>4, <2>1, <2>2, <2>3, AnsweredInRound
<1> QED BY <1>3, <1>4

-----------------------------------------------------------------------------
(* The records a run may post *)

Sound(L) == GoodLog(L) /\ Ordered(L) /\ Judged(L) /\ Closed(L) /\ Accounted(L)
NewestPlan(L, p) ==
  p \in OfKind(L, Here(L), "plan") /\ \A q \in OfKind(L, Here(L), "plan") : q <= p

(* A record of the newest round keeps the log sound, if a review of it is   *)
(* no second word after a blocking one and is settled, and a settlement has *)
(* all there is to settle.                                                  *)
LEMMA RoundGrows ==
  ASSUME NEW L, Sound(L), NEW e, e.kind \in {"prelaunch", "review", "settled"},
         NEW k \in Here(L), \A i \in Here(L) : L[i].round <= L[k].round,
         e.round = L[k].round, e.plan = L[k].plan, e.prior = L[k].prior,
         NewestPlan(L, e.plan), Sane(e), e.kind = "prelaunch" => e.new = {},
         e.kind = "review" =>
           /\ e.by \in Reviewers
           /\ \A i \in InRound(L, e.round) : L[i].by = e.by => L[i].ok
           /\ IF e.final THEN Settled(L, e.round) ELSE ~Settled(L, e.round) \/ e.new = {},
         e.kind = "settled" =>
           \A i \in InRound(L, e.round) \ Overlooked(L) : ~L[i].final => L[i].new \subseteq e.new
  PROVE  Sound(Append(L, e)) /\ Grown(L, Append(L, e), e)
<1> DEFINE M == Append(L, e)
<1>1. e.round \in Nat /\ e.round >= ScopeStart(L) /\ e.kind # "scope" /\ e.kind # "plan"
  BY ScopeOfLog DEF Sound, Here
<1>2. GoodLog(M) /\ Grown(L, M, e)
  BY <1>1, AppendInScope, AppendGrows DEF Sound
<1> HIDE DEF M
<1>3. \A i \in Here(L) : L[i].round = e.round => L[i].plan = e.plan /\ L[i].prior = e.prior
  BY DEF Sound, Ordered
<1>4. Ordered(M)
  <2>1. /\ e.plan \in OfKind(L, Here(L), "plan")
        /\ \A p \in OfKind(L, Here(L), "plan") : p <= e.plan
    BY DEF NewestPlan
  <2>2. e.kind \notin {"review", "settled"} => e.new = {}
    OBVIOUS
  <2> QED BY <1>1, <1>2, <1>3, <2>1, <2>2, OrderKept DEF Sound
<1>5. Judged(M)
  <2>1. \A item \in e.prior : item.round \in Nat /\ item.round < e.round
    BY DEF Sound, Judged
  <2> QED BY <1>2, <2>1, JudgedKept DEF Sound
<1>6. Closed(M)
  <2>1. \A i \in Here(L) : L[i].round \in Nat /\ L[i].round <= e.round
    BY ScopeOfLog DEF Sound
  <2>2. \A i \in Here(L) : L[i].round < e.round => Settled(L, L[i].round)
    BY DEF Sound, Closed
  <2>3. /\ e.kind = "review" /\ e.final => Settled(L, e.round)
        /\ e.kind = "review" /\ ~e.final => ~Settled(L, e.round) \/ e.new = {}
    OBVIOUS
  <2> QED BY <1>1, <1>2, <2>1, <2>2, <2>3, ClosedKept DEF Sound
<1>7. Accounted(M)
  <2>1. ~\A i \in Here(L) : L[i].round < e.round
    BY <1>1
  <2> QED BY <1>1, <1>2, <1>3, <2>1, AccountKept DEF Sound
<1> QED BY <1>2, <1>4, <1>5, <1>6, <1>7 DEF Sound, M

(* The first record of a round keeps the log sound, if the round before it  *)
(* is settled and what that leaves open is its prior ledger.                *)
LEMMA RoundFollows ==
  ASSUME NEW L, Sound(L), NEW e, e.new = {},
         NEW k \in Here(L), \A i \in Here(L) : L[i].round <= L[k].round,
         e.round = L[k].round + 1, Settled(L, L[k].round),
         \/ e.kind = "plan" /\ e.plan = Len(L) + 1
         \/ e.kind = "advance" /\ NewestPlan(L, e.plan),
         e.kept = {}, \A item \in e.prior : item.round \in Nat /\ item.round <= L[k].round,
         MintedAt(L, L[k].round) \subseteq e.prior,
         \A i \in InRound(L, L[k].round) : i \in Overlooked(L) \/ L[i].kept \subseteq e.prior,
         L[k].prior \subseteq e.prior \/ InRound(L, L[k].round) # {}
  PROVE  Sound(Append(L, e)) /\ Grown(L, Append(L, e), e)
<1> DEFINE M == Append(L, e)
<1>1. /\ e.round \in Nat /\ e.round >= ScopeStart(L) /\ e.kind \in {"plan", "advance"}
      /\ e.kind = "plan" => e.plan = Len(L) + 1
      /\ \A i \in Here(L) : L[i].round \in Nat /\ L[i].round < e.round
  <2>1. \A i \in Here(L) : L[i].round \in Nat /\ L[i].round >= ScopeStart(L) /\ ScopeStart(L) \in Nat
    BY ScopeOfLog DEF Sound, Here
  <2> QED BY <2>1
<1>2. GoodLog(M) /\ Grown(L, M, e)
  BY <1>1, AppendInScope, AppendGrows DEF Sound
<1> HIDE DEF M
<1>3. \A i \in Here(L) : L[i].round <= e.round /\ L[i].round # e.round
  BY <1>1
<1>4. Ordered(M)
  <2>1. \/ e.kind = "plan" /\ e.plan = Len(L) + 1
        \/ /\ e.kind # "plan" /\ e.plan \in OfKind(L, Here(L), "plan")
           /\ \A p \in OfKind(L, Here(L), "plan") : p <= e.plan
    BY DEF NewestPlan
  <2> QED BY <1>2, <1>3, <2>1, OrderKept DEF Sound
<1>5. Sane(e) /\ \A item \in e.prior : item.round \in Nat /\ item.round < e.round
  BY <1>1 DEF Sane
<1>6. Judged(M)
  <2>1. e.kind # "review"
    BY <1>1
  <2> QED BY <1>2, <1>5, <2>1, JudgedKept DEF Sound
<1>7. Closed(M)
  <2>1. \A i \in Here(L) : L[i].round < e.round => Settled(L, L[i].round)
    <3> TAKE i \in Here(L)
    <3>1. L[i].round < L[k].round \/ L[i].round = L[k].round
      BY <1>1
    <3> QED BY <3>1 DEF Sound, Closed
  <2>2. e.kind # "review" /\ e.kind # "settled"
    BY <1>1
  <2> QED BY <1>1, <1>2, <1>3, <2>1, <2>2, ClosedKept DEF Sound
<1>8. Accounted(M)
  <2>1. Overlooked(L) = {} =>
           \A i \in Here(L) : \A item \in Minted(L[i]) :
             item \in e.prior \/ Answered(History(L), item)
    BY LeftOutIsAnswered DEF Sound
  <2> QED BY <1>1, <1>2, <1>3, <1>5, <2>1, AccountKept DEF Sound
<1> QED BY <1>2, <1>4, <1>6, <1>7, <1>8 DEF Sound, M

(* The first plan of a scope begins it.                                     *)
LEMMA ScopeBegins ==
  ASSUME NEW L, GoodLog(L), Here(L) = {}, NEW e, e.kind = "plan", e.plan = Len(L) + 1,
         e.round \in Nat, e.round >= ScopeStart(L), e.prior = {}, e.new = {}, e.kept = {}
  PROVE  Sound(Append(L, e)) /\ Grown(L, Append(L, e), e)
<1> DEFINE M == Append(L, e)
<1>1. GoodLog(M) /\ Grown(L, M, e)
  BY AppendInScope, AppendGrows
<1> HIDE DEF M
<1>2. Ordered(L) /\ Judged(L) /\ Closed(L) /\ Accounted(L)
  BY DEF Ordered, Judged, Closed, Accounted, OfKind
<1>3. Sane(e) /\ e.kind # "review" /\ e.kind # "settled"
  BY DEF Sane
<1>4. Ordered(M)
  BY <1>1, <1>2, OrderKept
<1>5. Judged(M)
  BY <1>1, <1>2, <1>3, JudgedKept
<1>6. Closed(M)
  BY <1>1, <1>2, <1>3, ClosedKept
<1>7. Accounted(M)
  BY <1>1, <1>2, <1>3, AccountKept
<1> QED BY <1>1, <1>4, <1>5, <1>6, <1>7 DEF Sound, M

-----------------------------------------------------------------------------
(* What a run resumes *)

(* The round that is resumed is the newest of the scope, with the last word *)
(* of every reviewer that spoke in it.                                      *)
Resumes(L, R) ==
  /\ NewestPlan(L, R.plan)
  /\ \E k \in Here(L) :
       /\ L[k].round = R.round /\ L[k].plan = R.plan /\ L[k].prior = R.prior
       /\ \A i \in Here(L) : L[i].round <= L[k].round
  /\ R.settled <=> Settled(L, R.round)
  /\ R.minted = MintedAt(L, R.round)
  /\ \A e \in R.reviews : \E i \in InRound(L, R.round) :
       e = L[i] /\ \A j \in Reviewed(L, L[i].by) : j <= i
  /\ \A i \in InRound(L, R.round) :
       (\A j \in Reviewed(L, L[i].by) : j <= i) => L[i] \in R.reviews

(* Every record of the scope counts, but checkpoints of a settled round.    *)
LEMMA WhatCounts ==
  ASSUME NEW L, NEW h, h = History(L)
  PROVE  /\ h.log = L /\ h.here = Here(L) /\ h.live \subseteq Here(L)
         /\ \A i \in Here(L) : L[i].kind # "prelaunch" => i \in h.live
         /\ \A i \in Here(L) \ h.live : \E s \in h.live :
              s < i /\ L[s].kind = "settled" /\ L[s].round = L[i].round
         /\ h.idle = Here(L) \ h.live
<1>1. /\ h.log = L /\ h.here = Here(L) /\ h.live = Here(L) \ Idle(L, Here(L))
      /\ h.idle = Idle(L, Here(L))
  BY DEF History
<1>2. \A i \in Idle(L, Here(L)) : i \in Here(L) /\ L[i].kind = "prelaunch"
  BY DEF Idle, OfKind
<1>3. ASSUME NEW i \in Idle(L, Here(L))
      PROVE  \E s \in Here(L) : s < i /\ L[s].kind = "settled" /\ L[s].round = L[i].round
  BY DEF Idle, OfKind, Earlier, SameRound
<1>4. \A s \in Here(L) : L[s].kind = "settled" => s \in h.live
  BY <1>1, <1>2
<1> QED BY <1>1, <1>2, <1>3, <1>4

(* A run resumes the newest round of the scope.                             *)
LEMMA ResumedIsNewest ==
  ASSUME NEW L, GoodLog(L), Ordered(L), Planned(History(L))
  PROVE  Resumes(L, Resumed(History(L)))
<1> DEFINE h == History(L)
           plan == Newest(OfKind(h.log, h.live, "plan"))
           own == {i \in h.live : h.log[i].plan = plan}
           closing == OfKind(h.log, SameRound(h.log, own, Newest(own)), "settled")
           anchor == IF closing = {} THEN Newest(own) ELSE Newest(closing)
           m == L[anchor].round
           now == {i \in SameRound(h.log, h.live, anchor) :
                     \/ h.log[i].prior = h.log[anchor].prior
                     \/ h.log[i].kind = "review" /\ i > anchor}
           R == RoundAt(h, plan, anchor)
<1>1. /\ h.log = L /\ h.live \subseteq Here(L)
      /\ \A i \in Here(L) : L[i].kind # "prelaunch" => i \in h.live
      /\ \A i \in Here(L) \ h.live : \E s \in h.live : L[s].round = L[i].round
      /\ \A i \in Here(L) \ h.live : L[i].kind = "prelaunch"
  BY WhatCounts
<1>2. Here(L) \subseteq DOMAIN L /\ (\E S : L \in Seq(S)) /\ DOMAIN L \subseteq Nat
      /\ \A i \in Here(L) : L[i].round \in Nat
  <2>1. DOMAIN L \subseteq Nat
    BY AppendsOne DEF GoodLog, OneMore
  <2> QED BY <2>1, ScopeOfLog DEF GoodLog
<1>3. Resumed(h) = R
  BY DEF Resumed
<1>4. Planned(h)
  OBVIOUS
<1> HIDE DEF h
<1>5. OfKind(h.log, h.live, "plan") = OfKind(L, Here(L), "plan")
  BY <1>1 DEF OfKind
<1>6. NewestPlan(L, plan)
  <2>1. OfKind(L, Here(L), "plan") # {} /\ OfKind(L, Here(L), "plan") \in SUBSET DOMAIN L
    BY <1>2, <1>4, <1>5 DEF Planned, OfKind
  <2> QED BY <1>2, <1>5, <2>1, NewestPlace DEF NewestPlan
<1>7. plan \in own
  BY <1>1, <1>2, <1>6 DEF NewestPlan, OfKind, GoodLog
<1>8. \A i \in own : i \in h.live /\ L[i].plan = plan
  BY <1>1
<1> HIDE DEF plan
<1>9. \A i \in h.live : L[i].plan = plan => i \in own
  BY <1>1
<1> HIDE DEF own
<1>10. Newest(own) \in own /\ \A i \in own : i <= Newest(own)
  <2>1. own \in SUBSET DOMAIN L /\ own # {}
    BY <1>1, <1>2, <1>7, <1>8
  <2> QED BY <1>2, <2>1, NewestPlace
<1>11. /\ anchor \in own /\ L[anchor].round = L[Newest(own)].round
  <2>1. \A i \in closing : i \in own /\ L[i].round = L[Newest(own)].round
    BY <1>1 DEF SameRound, OfKind
  <2>2. closing # {} => Newest(closing) \in closing
    <3>1. closing \in SUBSET DOMAIN L
      BY <1>1, <1>2, <1>8, <2>1
    <3> HIDE DEF closing
    <3> QED BY <1>2, <3>1, NewestPlace
  <2> HIDE DEF closing
  <2> QED BY <1>10, <2>1, <2>2
<1> HIDE DEF anchor
<1>12. \A i \in Here(L) : L[i].round <= m
  <2>1. ASSUME NEW i \in h.live
        PROVE  L[i].round <= m
    <3>1. i \in Here(L) /\ i \in Nat /\ Newest(own) \in Here(L) /\ Newest(own) \in Nat
      BY <1>1, <1>2, <1>8, <1>10
    <3>2. CASE i <= Newest(own)
      <4>1. i = Newest(own) \/ i < Newest(own)
        BY <3>1, <3>2
      <4> QED BY <1>2, <1>11, <3>1, <4>1 DEF Ordered
    <3>3. CASE Newest(own) < i
      <4>1. plan <= i /\ plan \in Nat
        BY <1>1, <1>2, <1>7, <1>8, <1>10, <3>1, <3>3
      <4>2. plan <= L[i].plan /\ L[i].plan <= plan /\ L[i].plan \in Nat
        <5>1. L[i].plan \in OfKind(L, Here(L), "plan") /\ plan <= L[i].plan
          BY <1>6, <3>1, <4>1 DEF Ordered, NewestPlan
        <5> QED BY <1>2, <1>6, <5>1 DEF NewestPlan, OfKind
      <4>3. i \in own
        BY <1>9, <4>1, <4>2
      <4> QED BY <1>10, <3>1, <3>3, <4>3
    <3> QED BY <3>1, <3>2, <3>3
  <2> QED BY <1>1, <2>1
<1>13. \A i : i \in now <=> i \in h.live /\ L[i].round = m
  <2>1. anchor \in Here(L)
    BY <1>1, <1>8, <1>11
  <2> QED BY <1>1, <2>1 DEF SameRound, Ordered
<1>14. /\ R.plan = plan /\ R.round = m /\ R.prior = L[anchor].prior
       /\ R.settled <=> OfKind(L, now, "settled") # {}
       /\ R.minted = MintedIn(L, now)
       /\ R.reviews = {L[i] : i \in {j \in OfKind(L, now, "review") :
                         Later(ReviewsBy(L, now, L[j].by), j) = {}}}
  BY <1>1 DEF RoundAt
<1> HIDE DEF now, R
<1>15. R.settled <=> Settled(L, R.round)
  BY <1>1, <1>13, <1>14 DEF Settled, OfKind
<1>16. R.minted = MintedAt(L, R.round)
  <2>1. \A i \in Here(L) : L[i].kind = "prelaunch" => Minted(L[i]) = {}
    BY MintedIsNew DEF Ordered
  <2>2. \A i \in Here(L) : L[i].round = m /\ Minted(L[i]) # {} => i \in now
    BY <1>1, <1>13, <2>1
  <2>3. \A i \in now : i \in Here(L) /\ L[i].round = m
    BY <1>1, <1>13
  <2> HIDE DEF m
  <2> QED BY <1>14, <2>2, <2>3 DEF MintedAt, MintedIn
<1>17. ASSUME NEW i \in now, L[i].kind = "review"
       PROVE  Later(ReviewsBy(L, now, L[i].by), i) = {} <=> \A j \in Reviewed(L, L[i].by) : j <= i
  <2>1. i \in Here(L) /\ i \in Nat /\ L[i].round = m
    BY <1>1, <1>2, <1>13
  <2>2. ASSUME NEW j \in Reviewed(L, L[i].by), i < j
        PROVE  j \in now
    <3>1. j \in Here(L) /\ L[j].kind = "review" /\ L[j].round \in Nat
      BY <1>2 DEF Reviewed, ReviewsBy, OfKind
    <3>2. L[i].round <= L[j].round /\ L[j].round <= m
      BY <1>12, <2>1, <2>2, <3>1 DEF Ordered
    <3>3. L[j].round = m
      BY <1>2, <2>1, <3>1, <3>2
    <3> QED BY <1>1, <1>13, <3>1, <3>3
  <2>3. \A j \in Reviewed(L, L[i].by) : j \in Nat /\ j \in Here(L) /\ L[j].kind = "review" /\ L[j].by = L[i].by
    BY <1>2 DEF Reviewed, ReviewsBy, OfKind
  <2>4. \A j \in ReviewsBy(L, now, L[i].by) : j \in Reviewed(L, L[i].by)
    BY <1>1, <1>13 DEF Reviewed, ReviewsBy, OfKind
  <2>5. \A j \in Reviewed(L, L[i].by) : i < j => j \in ReviewsBy(L, now, L[i].by)
    BY <2>2, <2>3 DEF ReviewsBy, OfKind
  <2> QED BY <2>1, <2>3, <2>4, <2>5 DEF Later
<1>18. \A i : i \in InRound(L, m) <=> i \in now /\ L[i].kind = "review"
  BY <1>1, <1>13 DEF InRound, OfKind
<1>19. \A e \in R.reviews : \E i \in InRound(L, R.round) :
         e = L[i] /\ \A j \in Reviewed(L, L[i].by) : j <= i
  BY <1>14, <1>17, <1>18 DEF OfKind
<1>20. \A i \in InRound(L, R.round) :
         (\A j \in Reviewed(L, L[i].by) : j <= i) => L[i] \in R.reviews
  BY <1>14, <1>17, <1>18 DEF OfKind
<1>21. \E k \in Here(L) :
         /\ L[k].round = R.round /\ L[k].plan = R.plan /\ L[k].prior = R.prior
         /\ \A i \in Here(L) : L[i].round <= L[k].round
  BY <1>1, <1>8, <1>11, <1>12, <1>14
<1>22. Resumes(L, R)
  BY <1>6, <1>14, <1>15, <1>16, <1>19, <1>20, <1>21 DEF Resumes
<1> QED BY <1>3, <1>22 DEF h

-----------------------------------------------------------------------------
(* What startup reads of an approved plan *)

(* An approval that is carried is the last word of its reviewer.            *)
LEMMA CarriedIsNewest ==
  ASSUME NEW L, GoodLog(L), NEW key, NEW r \in Carried(History(L), key)
  PROVE  Approves(L, r, key) /\ r \in Reviewers
<1> DEFINE h == History(L)
<1>1. /\ h.log = L /\ h.live \subseteq Here(L)
      /\ \A i \in Here(L) : L[i].kind # "prelaunch" => i \in h.live
  BY WhatCounts
<1>2. Here(L) \subseteq DOMAIN L /\ DOMAIN L \subseteq Nat
  <2>1. DOMAIN L \subseteq Nat
    BY AppendsOne DEF GoodLog, OneMore
  <2> QED BY <2>1, ScopeOfLog
<1>3. r \in Reviewers
  BY DEF Carried
<1>4. PICK i \in Counted(h, r) : Later(Counted(h, r), i) = {} /\ Binds(h.log[i], key)
  BY DEF Carried
<1>5. \A j \in h.openings : j \in h.live
  BY DEF History, Openings, OfKind
<1> HIDE DEF h
<1>6. ReviewsBy(h.log, h.live, r) = Reviewed(L, r)
  BY <1>1 DEF Reviewed, ReviewsBy, OfKind
<1>7. i \in Reviewed(L, r) /\ Reviewed(L, r) \subseteq Here(L)
  BY <1>4, <1>6 DEF Counted, Reviewed, ReviewsBy, OfKind
<1>8. ASSUME NEW j \in Reviewed(L, r), i < j
      PROVE  j \in Counted(h, r)
  <2>1. i \in Nat /\ j \in Nat
    BY <1>2, <1>7
  <2>2. PastOpening(h, i) => PastOpening(h, j)
    BY <1>1, <1>2, <1>5, <1>8, <2>1 DEF PastOpening, Earlier
  <2> QED BY <1>4, <1>6, <2>2 DEF Counted
<1>9. \A j \in Reviewed(L, r) : j <= i
  <2> TAKE j \in Reviewed(L, r)
  <2>1. i \in Nat /\ j \in Nat
    BY <1>2, <1>7
  <2>2. ~(i < j)
    BY <1>4, <1>8 DEF Later
  <2> QED BY <2>1, <2>2
<1>10. Newest(Reviewed(L, r)) = i
  <2>1. Reviewed(L, r) \in SUBSET Nat
    BY <1>2, <1>7
  <2> QED BY <1>7, <1>9, <2>1, TheNewest
<1> QED BY <1>1, <1>3, <1>4, <1>7, <1>10 DEF Approves

(* A round that is taken for approved: the newest one that is about         *)
(* anything, with the last word of every reviewer it heard.                 *)
Shows(L, R) ==
  /\ NewestPlan(L, R.plan)
  /\ \E k \in Here(L) : L[k].round = R.round /\ L[k].prior = R.prior
  /\ R.minted = MintedAt(L, R.round)
  /\ \A e \in R.reviews : \E i \in InRound(L, R.round) :
       e = L[i] /\ \A j \in Reviewed(L, L[i].by) : j <= i
  /\ \A i \in Here(L) : L[i].kind = "review" \/ L[i].prior \cup Minted(L[i]) # {} =>
       L[i].round <= R.round

(* The newest round is one.                                                 *)
LEMMA ResumesShows ==
  ASSUME NEW L, NEW R, Resumes(L, R)
  PROVE  Shows(L, R)
BY DEF Resumes, Shows

(* What comes after the last record that counts, when that is an advance    *)
(* nobody used: nothing.                                                    *)
LEMMA NothingAfterUnused ==
  ASSUME NEW L, GoodLog(L), Ordered(L), NEW last, NEW d,
         last \in History(L).live, \A j \in History(L).live : j <= last,
         Unused(History(L), last, d)
  PROVE  /\ last \in Here(L) /\ \A i \in Here(L) : i <= last
         /\ L[last].kind = "advance" /\ L[last].prior = {}
<1> DEFINE h == History(L)
<1>1. /\ h.log = L /\ h.live \subseteq Here(L)
      /\ \A i \in Here(L) \ h.live : \E s \in h.live :
           s < i /\ L[s].kind = "settled" /\ L[s].round = L[i].round
  BY WhatCounts
<1>2. /\ Here(L) \subseteq Nat /\ \A i \in Here(L) : L[i].round \in Nat
  <2>1. DOMAIN L \subseteq Nat
    BY AppendsOne DEF GoodLog, OneMore
  <2> QED BY <2>1, ScopeOfLog
<1>3. /\ L[last].kind = "advance" /\ L[last].prior = {}
      /\ \E j \in h.live : Later(h.live, j) = {last} /\ L[last].round = L[j].round + 1
  BY <1>1 DEF Unused
<1>4. PICK j \in h.live : Later(h.live, j) = {last} /\ L[last].round = L[j].round + 1
  BY <1>3
<1> HIDE DEF h
<1>5. ASSUME NEW i \in Here(L), last < i
      PROVE  FALSE
  <2>1. i \notin h.live
    <3>1. i \in Nat /\ last \in Nat /\ ~(i <= last)
      BY <1>1, <1>2, <1>5 DEF h
    <3> QED BY <3>1 DEF h
  <2>2. PICK s \in h.live : s < i /\ L[s].kind = "settled" /\ L[s].round = L[i].round
    BY <1>1, <2>1
  <2>3. s # last /\ s \in Nat /\ j \in Nat /\ s \in Here(L) /\ j \in Here(L) /\ last \in Here(L)
    BY <1>1, <1>2, <1>3, <2>2 DEF h
  <2>4. ~(j < s)
    BY <1>4, <2>2, <2>3 DEF Later
  <2>5. s = j \/ s < j
    BY <2>3, <2>4
  <2>6. L[s].round <= L[j].round
    BY <1>2, <2>3, <2>5 DEF Ordered
  <2>7. L[last].round <= L[i].round
    BY <1>5, <2>3 DEF Ordered
  <2> QED BY <1>2, <1>4, <2>2, <2>3, <2>6, <2>7
<1>6. last \in Here(L)
  BY <1>1 DEF h
<1>7. \A i \in Here(L) : i <= last
  BY <1>2, <1>5, <1>6
<1> QED BY <1>3, <1>6, <1>7

(* Every view of a planned scope is one.                                    *)
LEMMA ViewShows ==
  ASSUME NEW L, GoodLog(L), Ordered(L), Planned(History(L)), NEW d, NEW R \in Views(History(L), d)
  PROVE  Shows(L, R)
<1> DEFINE h == History(L)
           last == Newest(h.live)
           p == SubSeq(L, 1, last - 1)
<1>1. /\ h.log = L /\ h.live \subseteq Here(L)
      /\ \A i \in Here(L) : L[i].kind # "prelaunch" => i \in h.live
  BY WhatCounts
<1>2. Here(L) \subseteq DOMAIN L /\ (\E S : L \in Seq(S)) /\ DOMAIN L \subseteq Nat
  <2>1. DOMAIN L \subseteq Nat
    BY AppendsOne DEF GoodLog, OneMore
  <2> QED BY <2>1, ScopeOfLog DEF GoodLog
<1>3. PICK plan \in h.live : L[plan].kind = "plan"
  BY <1>1 DEF Planned, OfKind
<1>4. R = Resumed(h) \/ (R = Resumed(History(p)) /\ Unused(h, last, d))
  BY <1>1 DEF Views
<1>5. CASE R = Resumed(h)
  BY <1>5, ResumedIsNewest, ResumesShows
<1> HIDE DEF h
<1>6. last \in h.live /\ \A j \in h.live : j <= last
  BY <1>1, <1>2, <1>3, NewestPlace
<1> HIDE DEF last
<1>7. CASE R = Resumed(History(p)) /\ Unused(h, last, d)
  <2>1. /\ last \in Here(L) /\ \A i \in Here(L) : i <= last
        /\ L[last].kind = "advance" /\ L[last].prior = {}
    BY <1>6, <1>7, NothingAfterUnused DEF h
  <2>2. /\ GoodLog(p) /\ Here(p) = {i \in Here(L) : i < last}
        /\ \A i \in Here(p) : p[i] = L[i]
    BY <2>1, PrefixInScope
  <2> HIDE DEF p
  <2>3. Here(L) = Here(p) \cup {last} /\ Here(L) \subseteq Nat
    BY <1>2, <2>1, <2>2
  <2>4. \A k : k # "advance" => OfKind(p, Here(p), k) = OfKind(L, Here(L), k)
    BY <2>1, <2>2, <2>3 DEF OfKind
  <2>5. Ordered(p)
    <3>1. \A i, j \in Here(p) : i < j => p[i].round <= p[j].round
      BY <2>2, <2>3 DEF Ordered
    <3>2. \A i, j \in Here(p) : p[i].round = p[j].round =>
            p[i].plan = p[j].plan /\ p[i].prior = p[j].prior
      BY <2>2, <2>3 DEF Ordered
    <3>3. \A i \in Here(p) :
            /\ p[i].plan \in OfKind(p, Here(p), "plan") /\ p[i].plan <= i
            /\ \A q \in OfKind(p, Here(p), "plan") : q <= i => q <= p[i].plan
            /\ p[i].kind \notin {"review", "settled"} => p[i].new = {}
      BY <2>2, <2>3, <2>4 DEF Ordered
    <3> QED BY <3>1, <3>2, <3>3 DEF Ordered
  <2>6. Planned(History(p))
    <3>1. plan \in Here(L) /\ plan # last
      BY <1>1, <1>3, <2>1
    <3>2. plan \in Here(p) /\ p[plan].kind = "plan"
      BY <1>3, <2>2, <2>3, <3>1
    <3>3. plan \in Here(p) \ Idle(p, Here(p))
      BY <3>2 DEF Idle, OfKind
    <3> QED BY <3>2, <3>3 DEF Planned, History, OfKind
  <2>7. Resumes(p, R)
    BY <1>7, <2>2, <2>5, <2>6, ResumedIsNewest
  <2>8. Shows(p, R)
    BY <2>7, ResumesShows
  <2>9. Minted(L[last]) = {} /\ L[last].kind # "review"
    BY <2>1, MintedIsNew DEF Ordered
  <2>10. \A r : Reviewed(p, r) = Reviewed(L, r)
    BY <2>1, <2>2, <2>3 DEF Reviewed, ReviewsBy, OfKind
  <2>11. InRound(p, R.round) = InRound(L, R.round)
    BY <2>1, <2>2, <2>3 DEF InRound, OfKind
  <2>12. MintedAt(p, R.round) = MintedAt(L, R.round)
    BY <2>2, <2>3, <2>9 DEF MintedAt, MintedIn
  <2>13. NewestPlan(L, R.plan)
    BY <2>4, <2>8 DEF Shows, NewestPlan
  <2>14. \E k \in Here(L) : L[k].round = R.round /\ L[k].prior = R.prior
    BY <2>2, <2>3, <2>8 DEF Shows
  <2>15. \A e \in R.reviews : \E i \in InRound(L, R.round) :
           e = L[i] /\ \A j \in Reviewed(L, L[i].by) : j <= i
    BY <2>2, <2>8, <2>10, <2>11 DEF Shows, InRound, OfKind
  <2>16. \A i \in Here(L) : L[i].kind = "review" \/ L[i].prior \cup Minted(L[i]) # {} =>
           L[i].round <= R.round
    BY <2>1, <2>2, <2>3, <2>8, <2>9 DEF Shows
  <2> QED BY <2>8, <2>12, <2>13, <2>14, <2>15, <2>16 DEF Shows
<1> QED BY <1>4, <1>5, <1>7

(* Who blocks the newest round it has reviewed does so to the end of it.    *)
LEMMA ApprovedToTheEnd ==
  ASSUME NEW L, GoodLog(L), Ordered(L), Judged(L), NEW r, NEW i \in Reviewed(L, r),
         \A j \in Reviewed(L, r) : L[j].round <= L[i].round,
         L[Newest(Reviewed(L, r))].ok
  PROVE  L[i].ok
<1> DEFINE n == Newest(Reviewed(L, r))
<1>1. /\ Reviewed(L, r) \in SUBSET DOMAIN L /\ DOMAIN L \subseteq Nat
      /\ \A j \in Reviewed(L, r) : j \in OfKind(L, Here(L), "review") /\ L[j].by = r
                                   /\ j \in Here(L) /\ L[j].round \in Nat
  <2>1. DOMAIN L \subseteq Nat
    BY AppendsOne DEF GoodLog, OneMore
  <2> QED BY <2>1, ScopeOfLog DEF Reviewed, ReviewsBy, OfKind
<1>2. n \in Reviewed(L, r) /\ i <= n
  BY <1>1, NewestPlace DEF GoodLog
<1>3. L[n].ok
  OBVIOUS
<1> HIDE DEF n
<1>4. CASE i = n
  BY <1>3, <1>4
<1>5. CASE i # n
  <2>1. i < n
    BY <1>1, <1>2, <1>5
  <2>2. L[i].round = L[n].round
    BY <1>1, <1>2, <2>1 DEF Ordered
  <2> QED BY <1>1, <1>2, <2>1, <2>2 DEF Judged
<1> QED BY <1>4, <1>5

(* What startup takes for completely approved is: every reviewer's last     *)
(* word binds the plan and the demand, and nothing is left open.            *)
LEMMA ApprovedView ==
  ASSUME NEW L, Sound(L), NEW d, NEW R \in Approvals(History(L), d)
  PROVE  /\ Shows(L, R)
         /\ Carried(History(L), <<R.plan, d>>) = Reviewers
         /\ \A e \in R.reviews : Binds(e, <<R.plan, d>>)
         /\ \A item \in R.prior : Answered(History(L), item)
         /\ R.minted = {} /\ Apply(R.prior, R.reviews) = {}
         /\ Lost(History(L), R.prior) = {}
         /\ d # NoDemand => L[R.plan].under = d
<1> DEFINE h == History(L)
           key == <<R.plan, d>>
<1>1. /\ Planned(h) /\ R \in Views(h, d) /\ Lost(h, R.prior \cup R.minted) = {}
      /\ d # NoDemand => L[R.plan].under = d
      /\ Apply(R.prior, R.reviews) = {} /\ R.minted \ R.prior = {}
      /\ Carried(h, key) = Reviewers
  <2>1. h.log = L /\ R \in Approvals(h, d)
    BY WhatCounts
  <2> HIDE DEF h
  <2>2. Planned(h)
    BY <2>1 DEF Approvals
  <2>3. /\ R \in Views(h, d) /\ Complete(h, R, key)
        /\ Lost(h, R.prior \cup R.minted) = {}
        /\ d # NoDemand => h.log[R.plan].under = d
    BY <2>1, <2>2 DEF Approvals
  <2>4. /\ Apply(R.prior, R.reviews) \cup (R.minted \ R.prior) = {}
        /\ Carried(h, key) = Reviewers
    BY <2>3 DEF Complete
  <2> QED BY <2>1, <2>2, <2>3, <2>4
<1>2. Shows(L, R)
  BY <1>1, ViewShows DEF Sound
<1>3. PICK k \in Here(L) : L[k].round = R.round /\ L[k].prior = R.prior
  BY <1>2 DEF Shows
<1>4. \A r \in Reviewers : Approves(L, r, key)
  BY <1>1, CarriedIsNewest DEF Sound
<1>5. /\ Here(L) \subseteq DOMAIN L /\ DOMAIN L \subseteq Nat
      /\ \A i \in Here(L) : L[i].round \in Nat
  <2>1. DOMAIN L \subseteq Nat
    BY AppendsOne DEF Sound, GoodLog, OneMore
  <2> QED BY <2>1, ScopeOfLog DEF Sound
<1> HIDE DEF h, key
<1>6. R.minted = {}
  <2>1. \A item \in R.minted : item.round = R.round
    <3> SUFFICES ASSUME NEW i \in Here(L), L[i].round = R.round, NEW item \in Minted(L[i])
                 PROVE  item.round = R.round
      BY <1>2 DEF Shows, MintedAt, MintedIn
    <3> QED BY MintedIsNew DEF Sound, Judged, Sane
  <2>2. \A item \in R.prior : item.round \in Nat /\ item.round < R.round
    BY <1>3 DEF Sound, Judged
  <2>3. R.round \in Nat
    BY <1>3, <1>5
  <2> QED BY <1>1, <2>1, <2>2, <2>3
<1>7. ASSUME NEW e \in R.reviews
      PROVE  Binds(e, key)
  <2>1. PICK i \in InRound(L, R.round) : e = L[i] /\ \A j \in Reviewed(L, L[i].by) : j <= i
    BY <1>2 DEF Shows
  <2>2. i \in Reviewed(L, L[i].by) /\ L[i].by \in Reviewers
    BY DEF InRound, Reviewed, ReviewsBy, OfKind, Sound, Judged
  <2>3. Reviewed(L, L[i].by) \in SUBSET Nat
    BY <1>5 DEF Reviewed, ReviewsBy, OfKind
  <2>4. Newest(Reviewed(L, L[i].by)) = i
    BY <2>1, <2>2, <2>3, TheNewest
  <2> QED BY <1>4, <2>1, <2>2, <2>4 DEF Approves
<1>8. ASSUME NEW item \in R.prior
      PROVE  Answered(h, item)
  <2>1. InRound(L, R.round) # {}
    <3>1. R.reviews # {}
      BY <1>1 DEF Apply
    <3> QED BY <1>2, <3>1 DEF Shows
  <2>2. ASSUME NEW i \in InRound(L, R.round)
        PROVE  item \notin L[i].kept
    <3>1. /\ i \in Reviewed(L, L[i].by) /\ L[i].by \in Reviewers
          /\ L[i].round = R.round /\ i \in Here(L)
      BY DEF InRound, Reviewed, ReviewsBy, OfKind, Sound, Judged
    <3>2. \A j \in Reviewed(L, L[i].by) : L[j].round <= L[i].round
      BY <1>2, <3>1 DEF Shows, Reviewed, ReviewsBy, OfKind
    <3>3. L[Newest(Reviewed(L, L[i].by))].ok
      BY <1>4, <3>1 DEF Approves, Binds
    <3>4. L[i].ok
      BY <3>1, <3>2, <3>3, ApprovedToTheEnd DEF Sound
    <3> QED BY <3>1, <3>4 DEF Sound, Judged, Sane
  <2>3. \A i \in Here(L) : item \in L[i].prior \cup Minted(L[i]) => L[i].round <= R.round
    BY <1>2 DEF Shows
  <2> QED BY <1>3, <2>1, <2>2, <2>3, AnsweredInRound DEF Sound, h
<1>9. \A item \in R.prior : Answered(h, item)
  BY <1>8
<1> QED BY <1>1, <1>2, <1>6, <1>7, <1>9 DEF h, key

-----------------------------------------------------------------------------
(* The steps of a run, and what an approval rests on *)

ApprovalInv ==
  PanelInv /\ Sound(log) /\ HeldIsSane /\ RunSound /\ ApprovedPlanIsSound /\ CrossChecksAgree

(* At the beginning no record is there to say anything.                     *)
LEMMA InitApprovalInv == Init => ApprovalInv
<1> SUFFICES ASSUME Init PROVE ApprovalInv
  OBVIOUS
<1>1. log = <<>> /\ pc = "off" /\ run = NoRun /\ held = {} /\ ended = "none" /\ ~executed
  BY DEF Init
<1>2. PanelInv
  BY InitPanelInv
<1>3. Here(log) = {}
  <2>1. DOMAIN log = {}
    BY <1>1
  <2> QED BY <2>1 DEF Here
<1>4. Ordered(log) /\ Judged(log) /\ Closed(log) /\ Accounted(log)
  BY <1>3 DEF Ordered, Judged, Closed, Accounted, OfKind
<1>5. ~run.short
  BY <1>1 DEF NoRun
<1>6. RunSound
  BY <1>1, <1>5 DEF RunSound, RunIsCurrent, VotesAreHeard, RoundIsSettled, GateIsSound,
                    ShortIsSound, Working, Judging
<1> QED BY <1>1, <1>2, <1>4, <1>6
        DEF ApprovalInv, PanelInv, Sound, HeldIsSane, ApprovedPlanIsSound, CrossChecksAgree

(* A run that is over without an approval leaves nothing to be kept but the *)
(* log.                                                                     *)
LEMMA StopKeepsApproval ==
  ASSUME ApprovalInv, pc # "off", Stop("none"), UNCHANGED <<log, executed>>,
         PanelInv', HeldIsSane'
  PROVE  ApprovalInv'
<1>1. pc' = "off" /\ run' = NoRun /\ ended' = "none" /\ ~executed'
  BY DEF Stop, ApprovalInv, RunSound, RunIsCurrent
<1>2. ~run'.short
  BY <1>1 DEF NoRun
<1>3. RunSound'
  BY <1>1, <1>2 DEF RunSound, RunIsCurrent, VotesAreHeard, RoundIsSettled, GateIsSound,
                    ShortIsSound, Working, Judging
<1>4. Sound(log)'
  BY DEF ApprovalInv
<1> QED BY <1>1, <1>3, <1>4 DEF ApprovalInv, ApprovedPlanIsSound, CrossChecksAgree

(* A run that goes on has not been stopped, and has approved nothing.       *)
LEMMA RunningKeepsEnds ==
  ASSUME ApprovalInv, pc # "off", UNCHANGED <<ended, executed>>
  PROVE  /\ ended' = "none" /\ ~executed'
         /\ ApprovedPlanIsSound' /\ CrossChecksAgree'
<1>1. ended' = "none" /\ ~executed'
  BY DEF ApprovalInv, RunSound, RunIsCurrent
<1> QED BY <1>1 DEF ApprovedPlanIsSound, CrossChecksAgree

(* People change the issue, and a run is killed.                            *)
LEMMA OutsideKeepsApproval ==
  ASSUME ApprovalInv, ChangeDemand \/ EditText \/ Crash
  PROVE  ApprovalInv'
<1>1. PanelInv'
  BY OutsideKeeps DEF ApprovalInv
<1>2. CASE ChangeDemand \/ EditText
  <2>1. UNCHANGED <<log, held, pc, run, ended, executed>> /\ ~executed
    BY <1>2 DEF ChangeDemand, EditText
  <2>2. Sound(log)' /\ HeldIsSane'
    BY <2>1 DEF ApprovalInv, HeldIsSane
  <2>3. RunIsCurrent' /\ RoundIsSettled'
    BY <2>1 DEF ApprovalInv, RunSound, RunIsCurrent, RoundIsSettled, Working, Pending
  <2>4. VotesAreHeard'
    BY <2>1 DEF ApprovalInv, RunSound, VotesAreHeard, Judging, Key
  <2>5. GateIsSound'
    BY <2>1 DEF ApprovalInv, RunSound, GateIsSound, Key, Votes, Clean, Ledger
  <2>6. ShortIsSound'
    BY <2>1 DEF ApprovalInv, RunSound, ShortIsSound, Key, Clean, Ledger
  <2>7. ApprovedPlanIsSound' /\ CrossChecksAgree'
    BY <2>1 DEF ApprovalInv, ApprovedPlanIsSound, CrossChecksAgree
  <2> QED BY <1>1, <2>2, <2>3, <2>4, <2>5, <2>6, <2>7 DEF ApprovalInv, RunSound
<1>3. CASE Crash
  <2>1. pc # "off" /\ Stop("none") /\ UNCHANGED <<log, held, executed>>
    BY <1>3 DEF Crash
  <2>2. HeldIsSane'
    BY <2>1 DEF ApprovalInv, HeldIsSane
  <2> QED BY <1>1, <2>1, <2>2, StopKeepsApproval
<1> QED BY <1>2, <1>3

(* What a run that begins without a plan knows.                             *)
LEMMA FreshFields ==
  ASSUME NEW n, NEW d, NEW t
  PROVE  LET f == [NoRun EXCEPT !.round = n, !.demand = d, !.text = t]
         IN  f.votes = {} /\ f.chosen = {} /\ f.prior = {} /\ ~f.short
BY DEF NoRun

(* What a run that resumes a round knows.                                   *)
LEMMA ResumedFields ==
  ASSUME NEW R
  PROVE  /\ Begin(R).round = R.round /\ Begin(R).plan = R.plan /\ Begin(R).demand = demand
         /\ Begin(R).prior = R.prior /\ Begin(R).votes = {} /\ Begin(R).chosen = {}
         /\ ~Begin(R).short /\ Begin(R).resumed
BY DEF Begin, NoRun

(* A scope without a plan has no record at all.                             *)
LEMMA UnplannedIsEmpty ==
  ASSUME NEW L, Ordered(L), ~Planned(History(L))
  PROVE  Here(L) = {}
<1> SUFFICES ASSUME NEW i \in Here(L) PROVE FALSE
  OBVIOUS
<1>1. L[i].plan \in OfKind(L, Here(L), "plan")
  BY DEF Ordered
<1>2. L[i].plan \in OfKind(History(L).log, History(L).live, "plan")
  BY <1>1, WhatCounts DEF OfKind
<1> QED BY <1>2 DEF Planned

(* Startup begins in an empty scope, in the newest round, or with an        *)
(* approval that no check can refuse for what the log says.                 *)
LEMMA StartKeepsApproval ==
  ASSUME ApprovalInv, Start
  PROVE  ApprovalInv'
<1> DEFINE h == History(log)
           T == {log[i].round : i \in DOMAIN log \ Boundaries(log)}
                  \cup {ScopeStart(log) - 1, 1}
           next == Newest(T) + 1
           fresh(n) == [NoRun EXCEPT !.round = n, !.demand = demand, !.text = text]
           e == [Record("scope", next, 0, NoDemand) EXCEPT !.text = text]
<1>1. PanelInv' /\ GoodLog(log) /\ Ordered(log) /\ Sound(log)
  BY StartKeeps DEF ApprovalInv, PanelInv, Sound
<1>2. HeldIsSane'
  BY DEF Start, ApprovalInv, HeldIsSane
<1>3. ended' = "none" /\ ~executed'
  BY DEF Start
<1>4. ApprovedPlanIsSound' /\ CrossChecksAgree'
  BY <1>3 DEF ApprovedPlanIsSound, CrossChecksAgree
<1>5. ASSUME NEW n, run' = fresh(n), pc' = "plan", Here(log') = {}, Sound(log)'
      PROVE  ApprovalInv'
  <2>1. run'.votes = {} /\ run'.chosen = {} /\ run'.prior = {} /\ ~run'.short
    BY <1>5, FreshFields
  <2>2. RunSound'
    BY <1>3, <1>5, <2>1 DEF RunSound, RunIsCurrent, VotesAreHeard, RoundIsSettled, GateIsSound,
                            ShortIsSound, Working, Judging
  <2> QED BY <1>1, <1>2, <1>4, <1>5, <2>2 DEF ApprovalInv
<1>6. CASE log' = Append(log, e) /\ run' = fresh(next) /\ pc' = "plan"
  <2>1. next \in Nat /\ next >= 1 /\ \A i \in DOMAIN log \ Boundaries(log) : log[i].round < next
    BY <1>1, NextScope
  <2> HIDE DEF next
  <2>2. e.kind = "scope" /\ e.round = next
    BY DEF Record
  <2> HIDE DEF e
  <2>3. \A M : M = Append(log, e) => GoodLog(M) /\ Here(M) = {}
    BY <1>1, <2>1, <2>2, ScopeStartsEmpty
  <2>4. GoodLog(log') /\ Here(log') = {}
    BY <1>6, <2>3
  <2>5. Sound(log)'
    BY <2>4 DEF Sound, Ordered, Judged, Closed, Accounted, OfKind
  <2> QED BY <1>5, <1>6, <2>4, <2>5
<1>7. CASE log' = log /\ ~Planned(h) /\ run' = fresh(ScopeStart(log)) /\ pc' = "plan"
  <2>1. Here(log') = {}
    BY <1>1, <1>7, UnplannedIsEmpty
  <2> QED BY <1>1, <1>5, <1>7, <2>1
<1>8. CASE log' = log /\ Planned(h) /\ run' = Begin(Resumed(h)) /\ pc' = "round"
  <2> DEFINE R == Resumed(h)
  <2>1. Resumes(log, R)
    BY <1>1, <1>8, ResumedIsNewest
  <2> HIDE DEF R
  <2>2. /\ run'.round = R.round /\ run'.plan = R.plan /\ run'.prior = R.prior
        /\ run'.votes = {} /\ run'.chosen = {} /\ ~run'.short /\ run'.resumed
    BY <1>8, ResumedFields DEF R
  <2>3. RunIsCurrent'
    BY <1>3, <1>8, <2>1, <2>2 DEF RunIsCurrent, Working, Resumes, NewestPlan
  <2>4. VotesAreHeard' /\ RoundIsSettled' /\ GateIsSound' /\ ShortIsSound'
    BY <1>8, <2>2 DEF VotesAreHeard, RoundIsSettled, GateIsSound, ShortIsSound, Judging
  <2> QED BY <1>1, <1>2, <1>4, <1>8, <2>3, <2>4 DEF ApprovalInv, RunSound
<1>9. ASSUME log' = log, pc' = "outcome", NEW R \in Approvals(h, demand),
             run' = [Begin(R) EXCEPT
                       !.votes = {Vote(f) : f \in R.reviews},
                       !.chosen = Names({Vote(f) : f \in R.reviews}), !.short = TRUE,
                       !.new = R.minted, !.settled = R.settled,
                       !.appr = Carried(h, <<R.plan, demand>>)]
      PROVE  ApprovalInv'
  <2> DEFINE votes == {Vote(f) : f \in R.reviews}
             key == <<R.plan, demand>>
  <2>1. /\ Shows(log, R) /\ Carried(h, key) = Reviewers
        /\ \A f \in R.reviews : Binds(f, key)
        /\ \A item \in R.prior : Answered(h, item)
        /\ R.minted = {} /\ Apply(R.prior, R.reviews) = {} /\ Lost(h, R.prior) = {}
        /\ demand # NoDemand => log[R.plan].under = demand
    <3>1. \A d : d = demand =>
            /\ Shows(log, R) /\ Carried(h, <<R.plan, d>>) = Reviewers
            /\ \A f \in R.reviews : Binds(f, <<R.plan, d>>)
            /\ \A item \in R.prior : Answered(h, item)
            /\ R.minted = {} /\ Apply(R.prior, R.reviews) = {} /\ Lost(h, R.prior) = {}
            /\ d # NoDemand => log[R.plan].under = d
      BY <1>1, <1>9, ApprovedView
    <3> QED BY <3>1
  <2>2. /\ run'.round = R.round /\ run'.plan = R.plan /\ run'.demand = demand
        /\ run'.prior = R.prior /\ run'.votes = votes /\ run'.chosen = Names(votes)
        /\ run'.short /\ run'.new = R.minted /\ run'.appr = Carried(h, key)
    <3> HIDE DEF votes, key, h
    <3>1. DOMAIN Begin(R) = RunFields
      BY BeginFields
    <3> QED BY <1>9, <3>1, ResumedFields DEF RunFields, votes, key
  <2>3. Key' = key
    BY <2>2 DEF Key
  <2>4. \A v \in votes : Heard(log, v, R.round) /\ Binds(v, key) /\ v.by \in Reviewers
    <3> SUFFICES ASSUME NEW f \in R.reviews
                 PROVE  Heard(log, Vote(f), R.round) /\ Binds(Vote(f), key) /\ f.by \in Reviewers
      BY DEF Vote
    <3>1. PICK i \in InRound(log, R.round) : f = log[i] /\ \A j \in Reviewed(log, f.by) : j <= i
      BY <2>1 DEF Shows
    <3>2. Vote(f).by = f.by /\ (Binds(Vote(f), key) <=> Binds(f, key))
      BY DEF Vote, Binds, KeyOf
    <3>3. f.by \in Reviewers
      BY <1>1, <3>1 DEF Sound, Judged, InRound, OfKind
    <3> HIDE DEF key
    <3> QED BY <2>1, <3>1, <3>2, <3>3 DEF Heard
  <2>5. \A r \in Reviewers : Approves(log, r, key)
    <3>1. \A k : k = key => \A r \in Carried(h, k) : Approves(log, r, k)
      BY <1>1, CarriedIsNewest
    <3> QED BY <2>1, <3>1
  <2>6. Apply(R.prior, votes) = {}
    <3>1. \A f : Vote(f).kept = f.kept
      BY DEF Vote
    <3>2. {v.kept : v \in votes} = {f.kept : f \in R.reviews}
      BY <3>1
    <3>3. votes = {} <=> R.reviews = {}
      OBVIOUS
    <3> QED BY <2>1, <3>2, <3>3 DEF Apply
  <2>7. R.minted = MintedAt(log, R.round) /\ NewestPlan(log, R.plan)
    BY <2>1 DEF Shows
  <2> HIDE DEF votes, key, h
  <2>8. RunIsCurrent'
    BY <1>3, <1>9, <2>2, <2>7 DEF RunIsCurrent, Working, NewestPlan
  <2>9. VotesAreHeard'
    <3>1. Names(votes) \subseteq Reviewers
      BY <2>4 DEF Names
    <3>2. \A v \in votes : v.ok => KeyOf(v) = key
      BY <2>4 DEF Binds
    <3> QED BY <1>9, <2>1, <2>2, <2>3, <2>4, <2>5, <3>1, <3>2 DEF VotesAreHeard, Judging
  <2>10. RoundIsSettled'
    BY <1>9, <2>1, <2>2, <2>7 DEF RoundIsSettled
  <2>11. GateIsSound'
    BY <1>9 DEF GateIsSound
  <2>12. ShortIsSound'
    <3>1. R.prior \cup R.minted = R.prior
      BY <2>1
    <3> QED BY <1>9, <2>1, <2>2, <2>3, <2>4, <2>6, <3>1 DEF ShortIsSound, h
  <2> QED BY <1>1, <1>2, <1>4, <1>9, <2>8, <2>9, <2>10, <2>11, <2>12 DEF ApprovalInv, RunSound
<1> QED BY <1>6, <1>7, <1>8, <1>9, Zenon DEF Start

(* A record of a newer round that is no review begins it.                   *)
LEMMA GrownRound ==
  ASSUME NEW L, NEW M, NEW e, Grown(L, M, e), e.round \in Nat,
         e.kind \notin {"review", "settled"},
         \A i \in Here(L) : L[i].round \in Nat /\ L[i].round < e.round
  PROVE  /\ \A i \in Here(M) : M[i].round <= e.round
         /\ InRound(M, e.round) = {} /\ ~Settled(M, e.round)
<1>1. \A i \in Here(M) : M[i] = e \/ M[i].round < e.round
  BY DEF Grown
<1>2. \A i \in Here(L) : L[i].round # e.round /\ L[i].round <= e.round
  OBVIOUS
<1>3. \A i \in Here(M) : M[i] = e \/ (M[i].round <= e.round /\ M[i].round # e.round)
  BY <1>2 DEF Grown
<1>4. e.round <= e.round
  OBVIOUS
<1> QED BY <1>3, <1>4 DEF InRound, Settled, OfKind

(* A record of the newest plan leaves it the newest, a new plan takes over. *)
LEMMA GrownPlan ==
  ASSUME NEW L, NEW M, NEW e, Grown(L, M, e),
         \/ e.kind = "plan" /\ e.plan = Len(L) + 1
         \/ e.kind # "plan" /\ NewestPlan(L, e.plan)
  PROVE  NewestPlan(M, e.plan)
<1> DEFINE n == Len(L) + 1
<1>1. /\ Here(M) = Here(L) \cup {n} /\ M[n] = e /\ n \in Nat
      /\ \A i \in Here(L) : M[i] = L[i] /\ i < n /\ i \in Nat
  BY DEF Grown
<1>2. e.kind = "plan" => e.plan = n
  OBVIOUS
<1> HIDE DEF n
<1>3. CASE e.kind = "plan"
  <2>1. OfKind(M, Here(M), "plan") = OfKind(L, Here(L), "plan") \cup {n}
    BY <1>1, <1>3 DEF OfKind
  <2>2. \A p \in OfKind(L, Here(L), "plan") : p \in Nat /\ p < n
    BY <1>1 DEF OfKind
  <2>3. \A p \in OfKind(M, Here(M), "plan") : p <= n
    BY <1>1, <2>1, <2>2
  <2> QED BY <1>2, <1>3, <2>1, <2>3 DEF NewestPlan
<1>4. CASE e.kind # "plan"
  <2>1. OfKind(M, Here(M), "plan") = OfKind(L, Here(L), "plan")
    BY <1>1, <1>4 DEF OfKind
  <2> QED BY <1>4, <2>1 DEF NewestPlan
<1> QED BY <1>3, <1>4

(* The first plan of a scope is its first record.                           *)
LEMMA PostFreshPlanKeepsApproval ==
  ASSUME ApprovalInv, PostFreshPlan
  PROVE  ApprovalInv'
<1> DEFINE e == [Record("plan", run.round, Len(log) + 1, run.demand) EXCEPT !.text = run.text]
<1>1. /\ pc = "plan" /\ log' = Append(log, e) /\ run' = [run EXCEPT !.plan = Len(log) + 1]
      /\ pc' = "round" /\ UNCHANGED <<held, ended, executed>>
  BY DEF PostFreshPlan
<1>2. /\ e.kind = "plan" /\ e.round = run.round /\ e.plan = Len(log) + 1
      /\ e.prior = {} /\ e.new = {} /\ e.kept = {}
  BY DEF Record
<1> HIDE DEF e
<1>3. /\ GoodLog(log) /\ DOMAIN run = RunFields /\ run.round \in Nat
      /\ run.round >= ScopeStart(log)
      /\ Here(log) = {} /\ ~run.short /\ run.prior = {} /\ run.votes = {} /\ run.chosen = {}
  BY <1>1 DEF ApprovalInv, PanelInv, RunInScope, RunSound, RunIsCurrent
<1>4. Sound(log') /\ Grown(log, log', e)
  <2>1. \A M : M = Append(log, e) => Sound(M) /\ Grown(log, M, e)
    BY <1>2, <1>3, ScopeBegins
  <2> QED BY <1>1, <2>1
<1>5. PanelInv' /\ HeldIsSane' /\ ended' = "none" /\ ~executed'
      /\ ApprovedPlanIsSound' /\ CrossChecksAgree'
  BY <1>1, PostFreshPlanKeeps, RunningKeepsEnds DEF ApprovalInv, HeldIsSane
<1>6. /\ run'.plan = Len(log) + 1 /\ run'.round = run.round /\ run'.prior = {}
      /\ run'.votes = {} /\ run'.chosen = {} /\ ~run'.short
  BY <1>1, <1>3 DEF RunFields
<1>7. /\ NewestPlan(log', e.plan) /\ InRound(log', e.round) = {} /\ ~Settled(log', e.round)
      /\ \A i \in Here(log') : log'[i].round <= e.round
      /\ \E i \in Here(log') : log'[i] = e
  <2>1. e.kind \notin {"review", "settled"} /\ e.round \in Nat
    BY <1>2, <1>3
  <2>2. \E i \in Here(log') : log'[i] = e
    BY <1>4 DEF Grown
  <2> QED BY <1>2, <1>3, <1>4, <2>1, <2>2, GrownRound, GrownPlan
<1>8. RunIsCurrent'
  BY <1>1, <1>2, <1>5, <1>6, <1>7 DEF RunIsCurrent, Working, NewestPlan
<1>9. VotesAreHeard' /\ RoundIsSettled' /\ GateIsSound' /\ ShortIsSound'
  BY <1>1, <1>6 DEF VotesAreHeard, RoundIsSettled, GateIsSound, ShortIsSound, Judging
<1> QED BY <1>4, <1>5, <1>8, <1>9 DEF ApprovalInv, RunSound

(* The round a run works in is the newest of the scope.                     *)
LEMMA RoundOfRun ==
  ASSUME ApprovalInv, Working, ~run.short
  PROVE  /\ Sound(log) /\ NewestPlan(log, run.plan) /\ run.round \in Nat /\ DOMAIN run = RunFields
         /\ \E k \in Here(log) : log[k].round = run.round /\ log[k].plan = run.plan
                                 /\ log[k].prior = run.prior
         /\ \A i \in Here(log) : log[i].round \in Nat /\ log[i].round <= run.round
         /\ \A item \in run.prior : item.round \in Nat /\ item.round < run.round
<1>1. /\ Sound(log) /\ NewestPlan(log, run.plan) /\ run.round \in Nat /\ DOMAIN run = RunFields
      /\ \E k \in Here(log) : log[k].round = run.round /\ log[k].plan = run.plan
                              /\ log[k].prior = run.prior
      /\ \A i \in Here(log) : log[i].round <= run.round
  BY DEF ApprovalInv, PanelInv, RunInScope, RunSound, RunIsCurrent, NewestPlan, Working
<1>2. \A i \in Here(log) : log[i].round \in Nat
  BY <1>1, ScopeOfLog DEF Sound
<1>3. \A item \in run.prior : item.round \in Nat /\ item.round < run.round
  BY <1>1 DEF Sound, Judged
<1> QED BY <1>1, <1>2, <1>3

(* A settlement has the findings of every review but those overlooked.      *)
Gathers(L, n, e) ==
  \A i \in InRound(L, n) \ Overlooked(L) : ~L[i].final => L[i].new \subseteq e.new

(* A record of the round leaves the run in it.                              *)
LEMMA RecordOfRound ==
  ASSUME ApprovalInv, Working, ~run.short,
         NEW e, e.kind \in {"prelaunch", "review", "settled"}, log' = Append(log, e),
         e.round = run.round, e.plan = run.plan, e.prior = run.prior, Sane(e),
         e.kind = "prelaunch" => e.new = {},
         e.kind = "review" =>
           /\ e.by \in Reviewers
           /\ \A i \in InRound(log, run.round) : log[i].by = e.by => log[i].ok
           /\ IF e.final THEN Settled(log, run.round) ELSE ~Settled(log, run.round) \/ e.new = {},
         e.kind = "settled" => Gathers(log, run.round, e),
         run'.round = run.round, run'.plan = run.plan, run'.prior = run.prior, ~run'.short,
         pc' \in {"launch", "publish", "outcome", "gate"}, UNCHANGED <<ended, executed>>
  PROVE  Sound(log') /\ Grown(log, log', e) /\ RunIsCurrent'
<1>1. /\ Sound(log) /\ NewestPlan(log, run.plan) /\ run.round \in Nat
      /\ \A i \in Here(log) : log[i].round \in Nat /\ log[i].round <= run.round
  BY RoundOfRun
<1>2. PICK k \in Here(log) : log[k].round = run.round /\ log[k].plan = run.plan
                             /\ log[k].prior = run.prior
  BY RoundOfRun
<1>3. Sound(log') /\ Grown(log, log', e)
  <2>1. \A M : M = Append(log, e) => Sound(M) /\ Grown(log, M, e)
    BY <1>1, <1>2, RoundGrows DEF Gathers
  <2> QED BY <2>1
<1>4. /\ Here(log') = Here(log) \cup {Len(log) + 1} /\ log'[Len(log) + 1] = e
      /\ \A i \in Here(log) : log'[i] = log[i]
  BY <1>3 DEF Grown
<1>5. OfKind(log', Here(log'), "plan") = OfKind(log, Here(log), "plan")
  BY <1>4 DEF OfKind
<1>6. pc # "off" /\ ended' = "none" /\ ~executed'
  BY RunningKeepsEnds DEF Working
<1>7. RunIsCurrent'
  BY <1>1, <1>2, <1>4, <1>5, <1>6 DEF RunIsCurrent, Working, NewestPlan
<1> QED BY <1>3, <1>7

(* The first record of the next round takes the run there, when the round   *)
(* is settled and the record takes its open items over.                     *)
LEMMA NextRoundKeepsApproval ==
  ASSUME ApprovalInv, Working, ~run.short, PanelInv', HeldIsSane',
         NEW e, log' = Append(log, e), e.round = run.round + 1, e.new = {}, e.kept = {},
         \/ e.kind = "plan" /\ e.plan = Len(log) + 1
         \/ e.kind = "advance" /\ e.plan = run.plan,
         Settled(log, run.round),
         \A item \in e.prior : item.round \in Nat /\ item.round <= run.round,
         MintedAt(log, run.round) \subseteq e.prior,
         \A i \in InRound(log, run.round) : i \in Overlooked(log) \/ log[i].kept \subseteq e.prior,
         run.prior \subseteq e.prior \/ InRound(log, run.round) # {},
         run'.round = run.round + 1, run'.plan = e.plan, run'.prior = e.prior,
         run'.votes = {}, run'.chosen = {}, ~run'.short,
         pc' = "round", UNCHANGED <<ended, executed>>
  PROVE  ApprovalInv'
<1>1. /\ Sound(log) /\ NewestPlan(log, run.plan) /\ run.round \in Nat
      /\ \A i \in Here(log) : log[i].round \in Nat /\ log[i].round <= run.round
  BY RoundOfRun
<1>2. PICK k \in Here(log) : log[k].round = run.round /\ log[k].plan = run.plan
                             /\ log[k].prior = run.prior
  BY RoundOfRun
<1>3. Sound(log') /\ Grown(log, log', e)
  <2>1. \/ e.kind = "plan" /\ e.plan = Len(log) + 1
        \/ e.kind = "advance" /\ NewestPlan(log, e.plan)
    BY <1>1
  <2>2. \A M : M = Append(log, e) => Sound(M) /\ Grown(log, M, e)
    BY <1>1, <1>2, <2>1, RoundFollows
  <2> QED BY <2>2
<1>4. NewestPlan(log', e.plan)
  BY <1>1, <1>3, GrownPlan
<1>5. \E i \in Here(log') : log'[i] = e
  BY <1>3 DEF Grown
<1>6. pc # "off" /\ ended' = "none" /\ ~executed' /\ ApprovedPlanIsSound' /\ CrossChecksAgree'
  BY RunningKeepsEnds DEF Working
<1>7. /\ \A i \in Here(log') : log'[i].round <= e.round
      /\ InRound(log', e.round) = {} /\ ~Settled(log', e.round)
  <2>1. \A i \in Here(log) : log[i].round \in Nat /\ log[i].round < run.round + 1
    BY <1>1
  <2>2. e.round \in Nat /\ e.kind \notin {"review", "settled"}
    BY <1>1
  <2> QED BY <1>3, <2>1, <2>2, GrownRound
<1>8. RunIsCurrent'
  BY <1>4, <1>5, <1>6, <1>7 DEF RunIsCurrent, Working, NewestPlan
<1>9. VotesAreHeard' /\ RoundIsSettled' /\ GateIsSound' /\ ShortIsSound'
  BY DEF VotesAreHeard, RoundIsSettled, GateIsSound, ShortIsSound, Judging
<1> QED BY <1>3, <1>6, <1>8, <1>9 DEF ApprovalInv, RunSound

(* What a resumed round leaves open: what any of its reviews keeps, and     *)
(* what it minted.                                                          *)
LEMMA ResumedLedger ==
  ASSUME NEW L, Sound(L), NEW R, Resumes(L, R)
  PROVE  LET rest == Apply(R.prior, R.reviews) \cup R.minted
         IN  /\ \A item \in rest : item.round \in Nat /\ item.round <= R.round
             /\ MintedAt(L, R.round) \subseteq rest
             /\ \A i \in InRound(L, R.round) : L[i].kept \subseteq rest
             /\ R.prior \subseteq rest \/ InRound(L, R.round) # {}
<1> DEFINE open == Apply(R.prior, R.reviews)
           rest == open \cup R.minted
<1>1. PICK k \in Here(L) :
        /\ L[k].round = R.round /\ L[k].prior = R.prior
        /\ \A i \in Here(L) : L[i].round <= L[k].round
  BY DEF Resumes
<1>2. /\ R.minted = MintedAt(L, R.round)
      /\ \A e \in R.reviews : \E i \in InRound(L, R.round) : e = L[i]
  BY DEF Resumes
<1>3. R.round \in Nat /\ Here(L) \subseteq DOMAIN L /\ DOMAIN L \subseteq Nat
      /\ \A i \in Here(L) : L[i].round \in Nat
  <2>1. DOMAIN L \subseteq Nat
    BY AppendsOne DEF Sound, GoodLog, OneMore
  <2> QED BY <1>1, <2>1, ScopeOfLog DEF Sound
<1>4. \A i \in InRound(L, R.round) : i \in Here(L) /\ Sane(L[i]) /\ L[i].round = R.round
  BY DEF InRound, OfKind, Sound, Judged
<1>5. ASSUME NEW item \in R.minted
      PROVE  item.round = R.round
  <2>1. PICK i \in Here(L) : L[i].round = R.round /\ item \in Minted(L[i])
    BY <1>2 DEF MintedAt, MintedIn
  <2> QED BY <2>1, MintedIsNew DEF Sound, Judged, Sane
<1>6. ASSUME NEW item \in open
      PROVE  item.round \in Nat /\ item.round <= R.round
  <2>1. CASE R.reviews = {}
    <3>1. item \in L[k].prior
      BY <1>1, <2>1 DEF Apply
    <3>2. item.round \in Nat /\ item.round < R.round
      BY <1>1, <3>1 DEF Sound, Judged
    <3> QED BY <1>3, <3>2
  <2>2. CASE R.reviews # {}
    <3>1. PICK e \in R.reviews : item \in e.kept
      BY <2>2 DEF Apply
    <3>2. Sane(e) /\ e.round = R.round
      BY <1>2, <1>4
    <3>3. item.round \in Nat /\ item.round < R.round
      BY <3>1, <3>2 DEF Sane
    <3> QED BY <1>3, <3>3
  <2> QED BY <2>1, <2>2
<1>7. ASSUME NEW i \in InRound(L, R.round)
      PROVE  L[i].kept \subseteq open
  <2>1. CASE \A j \in Reviewed(L, L[i].by) : j <= i
    <3>1. L[i] \in R.reviews
      BY <2>1 DEF Resumes
    <3> QED BY <3>1 DEF Apply
  <2>2. CASE ~\A j \in Reviewed(L, L[i].by) : j <= i
    <3>1. PICK j \in Reviewed(L, L[i].by) : ~(j <= i)
      BY <2>2
    <3>2. /\ j \in Here(L) /\ j \in OfKind(L, Here(L), "review") /\ L[j].by = L[i].by
          /\ i \in OfKind(L, Here(L), "review") /\ i \in Here(L)
      BY <3>1 DEF Reviewed, ReviewsBy, InRound, OfKind
    <3>3. i < j
      BY <1>3, <3>1, <3>2
    <3>4. L[i].round <= L[j].round /\ L[j].round <= L[i].round
      BY <1>1, <1>4, <3>2, <3>3 DEF Sound, Ordered
    <3>5. L[i].round = L[j].round
      BY <1>3, <3>2, <3>4
    <3>6. L[i].ok
      BY <3>2, <3>3, <3>5 DEF Sound, Judged
    <3> QED BY <1>4, <3>6 DEF Sane
  <2> QED BY <2>1, <2>2
<1>8. R.prior \subseteq open \/ InRound(L, R.round) # {}
  <2>1. R.reviews = {} => open = R.prior
    BY DEF Apply
  <2> QED BY <1>2, <2>1
<1> HIDE DEF open
<1>9. \A item \in rest : item.round \in Nat /\ item.round <= R.round
  BY <1>3, <1>5, <1>6
<1>10. /\ MintedAt(L, R.round) \subseteq rest
       /\ \A i \in InRound(L, R.round) : L[i].kept \subseteq rest
       /\ R.prior \subseteq rest \/ InRound(L, R.round) # {}
  BY <1>2, <1>7, <1>8
<1> QED BY <1>9, <1>10 DEF open

(* The round a run has resumed is the one it works in.                      *)
LEMMA ResumedIsOfRun ==
  ASSUME ApprovalInv, Working, ~run.short, NEW R, Resumes(log, R)
  PROVE  R.round = run.round /\ R.plan = run.plan /\ R.prior = run.prior
<1>1. /\ Sound(log) /\ NewestPlan(log, run.plan)
      /\ \A i \in Here(log) : log[i].round \in Nat /\ log[i].round <= run.round
  BY RoundOfRun
<1>2. PICK k \in Here(log) : log[k].round = run.round /\ log[k].plan = run.plan
                             /\ log[k].prior = run.prior
  BY RoundOfRun
<1>3. PICK m \in Here(log) :
        /\ log[m].round = R.round /\ log[m].plan = R.plan /\ log[m].prior = R.prior
        /\ \A i \in Here(log) : log[i].round <= log[m].round
  BY DEF Resumes
<1>4. log[m].round = log[k].round
  <2>1. log[k].round <= log[m].round /\ log[m].round <= log[k].round
    BY <1>1, <1>2, <1>3
  <2>2. log[k].round \in Nat /\ log[m].round \in Nat
    BY <1>1
  <2> QED BY <2>1, <2>2
<1> QED BY <1>1, <1>2, <1>3, <1>4 DEF Sound, Ordered

(* Only the board is asked.                                                 *)
LEMMA BoardIsChosen ==
  ASSUME Primary \in Reviewers, NEW h, NEW key, NEW prior, NEW appr, NEW latch
  PROVE  SelectPlanReviewers(h, key, prior, appr, latch).chosen \subseteq Reviewers
<1>1. PrePanel(h, key, appr).chosen \subseteq Reviewers
  BY DEF PrePanel, Decision, Secondaries
<1>2. PostPanel(h, key, prior, appr, latch).chosen \subseteq Reviewers
  BY DEF PostPanel, Decision, FullBoard, Owners
<1> QED BY <1>1, <1>2 DEF SelectPlanReviewers

(* A record that is neither a review nor a settlement, and mints nothing,   *)
(* says nothing new of any round.                                           *)
LEMMA GrownByNoWord ==
  ASSUME NEW L, NEW M, NEW e, Grown(L, M, e), e.kind # "review", e.kind # "settled",
         Minted(e) = {}, NEW n
  PROVE  /\ InRound(M, n) = InRound(L, n) /\ (Settled(M, n) <=> Settled(L, n))
         /\ MintedAt(M, n) = MintedAt(L, n)
<1>1. /\ \A m : Settled(M, m) <=> Settled(L, m) \/ (e.kind = "settled" /\ e.round = m)
      /\ \A m : InRound(M, m) =
              InRound(L, m) \cup (IF e.kind = "review" /\ e.round = m THEN {Len(L) + 1} ELSE {})
  BY GrownKinds
<1>2. InRound(M, n) = InRound(L, n) \cup {}
  BY <1>1
<1>3. MintedAt(M, n) = MintedAt(L, n)
  BY GrownMinted
<1> QED BY <1>1, <1>2, <1>3

(* What counts of the reviews of a resumed round: an approval only of this  *)
(* candidate.                                                               *)
StillSaid(h, R) ==
  {Vote(e) : e \in {f \in R.reviews : ~(f.ok /\ (Degraded(h, Key) \/ KeyOf(f) # Key))}}

(* The checkpoint of a round is posted with what the reviews of the round   *)
(* said that are public already.                                            *)
LEMMA MarkKeepsApproval ==
  ASSUME ApprovalInv, pc = "round", PanelInv', HeldIsSane',
         NEW h, h = History(log),
         NEW R, R.settled \in BOOLEAN,
         IF run.resumed THEN Resumes(log, R) ELSE ~R.settled /\ R.reviews = {},
         NEW e, e.kind = "prelaunch", log' = Append(log, e), Sane(e), e.new = {},
         e.round = run.round, e.plan = run.plan, e.prior = run.prior,
         NEW appr, appr \subseteq Carried(h, Key), e.chosen \subseteq Reviewers,
         NEW votes,
         votes = StillSaid(h, R),
         R.settled => e.chosen \subseteq Names(votes),
         run'.round = run.round, run'.plan = run.plan, run'.demand = run.demand,
         run'.prior = run.prior, ~run'.short, run'.votes = votes, run'.settled = R.settled,
         run'.appr = appr, run'.chosen = e.chosen, R.settled => run'.new = R.minted,
         pc' = "launch", UNCHANGED <<ended, executed>>
  PROVE  ApprovalInv'
<1>1. Working /\ ~run.short
  BY DEF Working, ApprovalInv, RunSound, RunIsCurrent
<1>2. Sound(log') /\ Grown(log, log', e) /\ RunIsCurrent'
  BY <1>1, RecordOfRound
<1>3. /\ Sound(log) /\ run.round \in Nat /\ (\E S : log \in Seq(S))
      /\ Here(log) \subseteq Nat
  <2>1. Sound(log)
    BY DEF ApprovalInv
  <2>2. Here(log) \subseteq DOMAIN log /\ DOMAIN log \subseteq Nat
    <3>1. \E S : log \in Seq(S)
      BY <2>1 DEF Sound, GoodLog
    <3>2. DOMAIN log \subseteq Nat
      BY <3>1, AppendsOne DEF OneMore
    <3> QED BY <2>1, <3>2, ScopeOfLog DEF Sound
  <2> QED BY <1>1, <2>1, <2>2, RoundOfRun DEF Sound, GoodLog
<1>4. Key' = Key
  BY DEF Key
<1>5. run.resumed => Resumes(log, R) /\ R.round = run.round /\ R.plan = run.plan
  BY <1>1, ResumedIsOfRun
<1>6. ~run.resumed =>
        ~R.settled /\ votes = {} /\ InRound(log, run.round) = {} /\ ~Settled(log, run.round)
  BY DEF ApprovalInv, RunSound, RunIsCurrent, StillSaid
<1>7. ~(e.kind = "review") /\ e.kind # "settled"
  OBVIOUS
<1>8. ASSUME NEW v \in votes
      PROVE  Heard(log', v, run.round) /\ (v.ok => KeyOf(v) = Key)
  <2>1. PICK f \in R.reviews : v = Vote(f) /\ ~(f.ok /\ KeyOf(f) # Key)
    BY <1>8 DEF StillSaid
  <2>2. PICK i \in InRound(log, run.round) :
          f = log[i] /\ \A j \in Reviewed(log, log[i].by) : j <= i
    BY <1>5, <1>6, <2>1 DEF Resumes
  <2>3. v.by = f.by /\ v.ok = f.ok /\ KeyOf(v) = KeyOf(f)
    BY <2>1 DEF Vote, KeyOf
  <2>4. Heard(log, v, run.round)
    BY <2>1, <2>2, <2>3 DEF Heard
  <2>5. Heard(log', v, run.round)
    BY <1>2, <1>3, <1>7, <2>4, GrownWords
  <2> QED BY <2>1, <2>3, <2>5
<1>9. ASSUME NEW r \in appr
      PROVE  Approves(log', r, Key)
  <2>1. \A k : k = Key => Approves(log, r, k)
    BY <1>3, CarriedIsNewest DEF Sound
  <2>2. \A k : Approves(log, r, k) => Approves(log', r, k)
    BY <1>2, <1>3, <1>7, GrownWords
  <2> QED BY <2>1, <2>2
<1>10. InRound(log', run.round) = InRound(log, run.round)
       /\ (Settled(log', run.round) <=> Settled(log, run.round))
       /\ MintedAt(log', run.round) = MintedAt(log, run.round)
  <2>1. Minted(e) = {}
    BY MintedIsNew
  <2> QED BY <1>2, <1>7, <2>1, GrownByNoWord
<1>11. ASSUME NEW i \in InRound(log, run.round), ~log[i].ok
       PROVE  IF log[i].by \in e.chosen THEN Vote(log[i]) \in votes
              ELSE i \in Overlooked(log')
  <2>1. /\ i \in Here(log) /\ log[i].kind = "review" /\ log[i].round = run.round
        /\ i \in OfKind(log, Here(log), "review") /\ i \in Nat
    BY <1>3 DEF InRound, OfKind
  <2>2. CASE log[i].by \in e.chosen
    <3>1. Resumes(log, R) /\ R.round = run.round
      BY <1>5, <1>6
    <3>2. ASSUME NEW j \in Reviewed(log, log[i].by), i < j
          PROVE  FALSE
      <4>1. j \in OfKind(log, Here(log), "review") /\ j \in Here(log) /\ log[j].by = log[i].by
        BY DEF Reviewed, ReviewsBy, OfKind
      <4>2. log[i].round <= log[j].round /\ log[j].round <= run.round
        BY <1>1, <1>3, <2>1, <3>2, <4>1, RoundOfRun DEF Sound, Ordered
      <4>3. log[j].round \in Nat
        BY <1>1, <4>1, RoundOfRun
      <4>4. log[i].round = log[j].round
        BY <1>3, <2>1, <4>2, <4>3
      <4> QED BY <1>3, <1>11, <2>1, <3>2, <4>1, <4>4 DEF Sound, Judged
    <3>3. \A j \in Reviewed(log, log[i].by) : j <= i
      <4> TAKE j \in Reviewed(log, log[i].by)
      <4>1. j \in Nat /\ ~(i < j)
        BY <1>3, <3>2 DEF Reviewed, ReviewsBy, OfKind
      <4> QED BY <2>1, <4>1
    <3>4. log[i] \in R.reviews
      BY <3>1, <3>3 DEF Resumes
    <3> QED BY <1>11, <2>2, <3>4 DEF StillSaid
  <2>3. CASE log[i].by \notin e.chosen
    <3>1. log[i].plan = run.plan
      <4>1. PICK k \in Here(log) : log[k].round = run.round /\ log[k].plan = run.plan
        BY <1>1, RoundOfRun
      <4> QED BY <1>3, <2>1, <4>1 DEF Sound, Ordered
    <3>2. i \in Overlooked(log')
      BY <1>2, <1>11, <2>1, <2>3, <3>1, GrownOverlooked
    <3> QED BY <2>3, <3>2
  <2> QED BY <2>2, <2>3
<1>12. VotesAreHeard'
  <2>1. \A i \in InRound(log, run.round) : log'[i] = log[i]
    BY <1>2 DEF Grown, InRound, OfKind
  <2> HIDE DEF Key
  <2> QED BY <1>4, <1>8, <1>9, <1>10, <1>11, <2>1 DEF VotesAreHeard, Judging
<1>13. RoundIsSettled'
  <2>1. R.settled <=> Settled(log, run.round)
    BY <1>5, <1>6 DEF Resumes
  <2>2. R.settled => R.minted = MintedAt(log, run.round)
    BY <1>5, <1>6 DEF Resumes
  <2>3. R.settled => Pending' = {}
    BY DEF Pending
  <2> QED BY <1>10, <2>1, <2>2, <2>3 DEF RoundIsSettled
<1>14. GateIsSound' /\ ShortIsSound'
  BY DEF GateIsSound, ShortIsSound
<1>15. ApprovedPlanIsSound' /\ CrossChecksAgree'
  BY RunningKeepsEnds
<1> QED BY <1>2, <1>12, <1>13, <1>14, <1>15 DEF ApprovalInv, RunSound

(* A round is reviewed with what is public of it, or rolls over with what   *)
(* it leaves open.                                                          *)
LEMMA PrepareRoundKeepsApproval ==
  ASSUME Primary \in Reviewers, ApprovalInv, PrepareRound
  PROVE  ApprovalInv'
<1> DEFINE h == History(log)
<1>1. pc = "round" /\ UNCHANGED <<held, executed>>
  BY DEF PrepareRound
<1>2. /\ Working /\ ~run.short /\ pc # "off" /\ DOMAIN run = RunFields
      /\ run.votes = {} /\ run.chosen = {} /\ PanelInv' /\ HeldIsSane'
  BY <1>1, PrepareRoundKeeps
  DEF Working, ApprovalInv, RunSound, RunIsCurrent, HeldIsSane, PanelInv, RunInScope
<1>3. /\ Sound(log) /\ NewestPlan(log, run.plan) /\ run.round \in Nat
      /\ \A item \in run.prior : item.round \in Nat /\ item.round < run.round
  BY <1>2, RoundOfRun
<1>4. Planned(h)
  <2>1. run.plan \in OfKind(h.log, h.live, "plan")
    BY <1>3, WhatCounts DEF NewestPlan, OfKind
  <2> QED BY <2>1 DEF Planned
<1>5. PICK appr \in {IF Degraded(h, Key) THEN {} ELSE Carried(h, Key)},
           latch \in {run.latch \/ (Opened(h) /\ PanelLatched(h))},
           R \in {IF run.resumed THEN Resumed(h)
                  ELSE [settled |-> FALSE, reviews |-> {}, minted |-> {}, prior |-> run.prior]} :
        Prepares(h, appr, latch, R, SelectPlanReviewers(h, Key, run.prior, appr, latch))
  BY RoundPrepared
<1>6. IF run.resumed THEN Resumes(log, R) ELSE ~R.settled /\ R.reviews = {}
  BY <1>3, <1>4, ResumedIsNewest DEF Sound
<1>7. R.settled \in BOOLEAN
  <2>1. \A p, a : RoundAt(h, p, a).settled \in BOOLEAN
    BY DEF RoundAt
  <2>2. Resumed(h).settled \in BOOLEAN
    BY <2>1, Zenon DEF Resumed
  <2>3. ~run.resumed =>
          R = [settled |-> FALSE, reviews |-> {}, minted |-> {}, prior |-> run.prior]
    OBVIOUS
  <2>4. run.resumed => R = Resumed(h)
    OBVIOUS
  <2>5. CASE run.resumed
    BY <2>2, <2>4, <2>5
  <2>6. CASE ~run.resumed
    <3>1. R.settled = FALSE
      BY <2>3, <2>6
    <3> QED BY <3>1
  <2> QED BY <2>5, <2>6
<1> DEFINE D == SelectPlanReviewers(h, Key, run.prior, appr, latch)
           votes == {Vote(e) : e \in {f \in R.reviews :
                       ~(f.ok /\ (Degraded(h, Key) \/ KeyOf(f) # Key))}}
           rest == Apply(R.prior, R.reviews) \cup R.minted
           mark == [Record("prelaunch", run.round, run.plan, run.demand)
                      EXCEPT !.prior = run.prior, !.chosen = D.chosen, !.appr = appr,
                             !.phase = D.phase, !.force = latch \/ D.latch,
                             !.prev = PreviousKey(h, Key)]
           roll == [Record("advance", run.round + 1, run.plan, "unkeyed") EXCEPT !.prior = rest]
<1>8. CASE log' = log /\ Stop("none")
  BY <1>1, <1>2, <1>8, StopKeepsApproval
<1>9. CASE /\ R.settled /\ log' = Append(log, roll)
           /\ run' = [run EXCEPT !.round = @ + 1, !.prior = rest, !.resumed = FALSE]
           /\ UNCHANGED <<pc, ended>>
  <2>1. Resumes(log, R) /\ R.round = run.round /\ R.prior = run.prior
    BY <1>2, <1>6, <1>9, ResumedIsOfRun
  <2>2. /\ \A item \in rest : item.round \in Nat /\ item.round <= R.round
        /\ MintedAt(log, R.round) \subseteq rest
        /\ \A i \in InRound(log, R.round) : log[i].kept \subseteq rest
        /\ R.prior \subseteq rest \/ InRound(log, R.round) # {}
    BY <1>3, <2>1, ResumedLedger
  <2>3. Settled(log, run.round)
    BY <1>9, <2>1 DEF Resumes
  <2> HIDE DEF rest
  <2>4. /\ roll.kind = "advance" /\ roll.round = run.round + 1 /\ roll.plan = run.plan
        /\ roll.prior = rest /\ roll.new = {} /\ roll.kept = {}
    BY DEF Record
  <2> HIDE DEF roll
  <2>5. /\ run'.round = run.round + 1 /\ run'.plan = run.plan /\ run'.prior = rest
        /\ run'.votes = {} /\ run'.chosen = {} /\ ~run'.short
    BY <1>2, <1>9 DEF RunFields
  <2>6. \A i \in InRound(log, run.round) : i \in Overlooked(log) \/ log[i].kept \subseteq roll.prior
    BY <2>1, <2>2, <2>4
  <2>7. /\ \A item \in roll.prior : item.round \in Nat /\ item.round <= run.round
        /\ MintedAt(log, run.round) \subseteq roll.prior
        /\ run.prior \subseteq roll.prior \/ InRound(log, run.round) # {}
    BY <2>1, <2>2, <2>4
  <2>8. pc' = "round" /\ UNCHANGED <<ended, executed>> /\ log' = Append(log, roll)
    BY <1>1, <1>9
  <2> QED BY <1>2, <2>3, <2>4, <2>5, <2>6, <2>7, <2>8, NextRoundKeepsApproval
<1>10. CASE /\ R.settled => D.chosen \subseteq Names(votes)
            /\ log' = Append(log, mark) /\ pc' = "launch"
            /\ run' = [run EXCEPT !.votes = votes, !.settled = R.settled, !.appr = appr,
                         !.new = IF R.settled THEN R.minted ELSE {}, !.chosen = D.chosen,
                         !.latch = latch \/ D.latch]
            /\ UNCHANGED ended
  <2>1. D.chosen \subseteq Reviewers
    BY BoardIsChosen
  <2>2. votes = StillSaid(h, R)
    BY DEF StillSaid
  <2>3. appr \subseteq Carried(h, Key)
    OBVIOUS
  <2>4. h = History(log)
    OBVIOUS
  <2> HIDE DEF D, votes, h
  <2>5. /\ mark.kind = "prelaunch" /\ mark.round = run.round /\ mark.plan = run.plan
        /\ mark.prior = run.prior /\ mark.chosen = D.chosen /\ mark.new = {} /\ mark.kept = {}
    BY DEF Record
  <2> HIDE DEF mark
  <2>6. /\ run'.round = run.round /\ run'.plan = run.plan /\ run'.demand = run.demand
        /\ run'.prior = run.prior /\ run'.short = run.short
        /\ run'.votes = votes /\ run'.settled = R.settled
    BY <1>2, <1>10 DEF RunFields
  <2>7. run'.appr = appr /\ run'.chosen = D.chosen /\ (R.settled => run'.new = R.minted)
    BY <1>2, <1>10 DEF RunFields
  <2>8. Sane(mark)
    BY <2>5 DEF Sane
  <2>9. /\ log' = Append(log, mark) /\ pc' = "launch" /\ UNCHANGED <<ended, executed>>
        /\ R.settled => mark.chosen \subseteq Names(votes)
        /\ mark.chosen \subseteq Reviewers /\ run'.chosen = mark.chosen /\ ~run'.short
    BY <1>1, <1>2, <1>10, <2>1, <2>5, <2>6, <2>7
  <2> QED BY <1>1, <1>2, <1>6, <1>7, <2>2, <2>3, <2>4, <2>5, <2>6, <2>7, <2>8, <2>9,
             MarkKeepsApproval
<1>11. \/ log' = log /\ Stop("none")
       \/ /\ R.settled /\ log' = Append(log, roll)
          /\ run' = [run EXCEPT !.round = @ + 1, !.prior = rest, !.resumed = FALSE]
          /\ UNCHANGED <<pc, ended>>
       \/ /\ R.settled => D.chosen \subseteq Names(votes)
          /\ log' = Append(log, mark) /\ pc' = "launch"
          /\ run' = [run EXCEPT !.votes = votes, !.settled = R.settled, !.appr = appr,
                       !.new = IF R.settled THEN R.minted ELSE {}, !.chosen = D.chosen,
                       !.latch = latch \/ D.latch]
          /\ UNCHANGED ended
  BY <1>5, Zenon DEF Prepares
<1> QED BY <1>8, <1>9, <1>10, <1>11, Zenon

(* An answer given now is sane, and nothing but a vote.                     *)
LEMMA AnswersAreSane ==
  ASSUME ApprovalInv, Working, ~run.short, NEW r, NEW v \in Answers(r)
  PROVE  Sane(v) /\ v = Vote(v)
<1>1. \A item \in run.prior : item.round \in Nat /\ item.round < run.round
  BY RoundOfRun
<1>2. v \in [by : {r}, round : {run.round}, plan : {run.plan}, under : {run.demand},
             ok : BOOLEAN, ack : BOOLEAN, kept : {{}, run.prior},
             new : {{}, {[by |-> r, round |-> run.round]}}]
      /\ (v.ok => v.kept = {} /\ v.new = {})
  BY DEF Answers
<1>3. v = Vote(v)
  BY <1>2 DEF Vote
<1>4. /\ v.round = run.round /\ (v.kept = {} \/ v.kept = run.prior)
      /\ v.new = {} \/ v.new = {[by |-> r, round |-> run.round]}
  BY <1>2
<1>5. \A item \in v.new : item.round = v.round
  BY <1>4
<1>6. \A item \in v.kept : item.round \in Nat /\ item.round < v.round
  BY <1>1, <1>4
<1> QED BY <1>2, <1>3, <1>5, <1>6 DEF Sane

(* The answers asked for go to the spool; nothing is public yet.            *)
LEMMA LaunchReviewersKeepsApproval ==
  ASSUME ApprovalInv, LaunchReviewers
  PROVE  ApprovalInv'
<1> DEFINE asked == {r \in Pending : Held(r) = {}}
<1>1. pc = "launch" /\ UNCHANGED <<log, executed>>
  BY DEF LaunchReviewers
<1>2. Working /\ ~run.short /\ PanelInv' /\ pc # "off"
  BY <1>1, LaunchReviewersKeeps DEF Working, ApprovalInv, RunSound, ShortIsSound
<1>3. CASE UNCHANGED held /\ Stop("none")
  <2>1. HeldIsSane'
    BY <1>3 DEF ApprovalInv, HeldIsSane
  <2> QED BY <1>1, <1>2, <1>3, <2>1, StopKeepsApproval
<1>4. ASSUME NEW failed \in SUBSET asked,
             NEW given \in [asked \ failed -> UNION {Answers(r) : r \in asked}],
             \A r \in asked \ failed : given[r] \in Answers(r),
             held' = {v \in held : v.by \notin asked \ failed}
                       \cup {given[r] : r \in asked \ failed},
             (pc' = "publish" /\ UNCHANGED <<run, ended>>) \/ Stop("none")
      PROVE  ApprovalInv'
  <2>1. \A v \in held' : v \in held \/ \E r : v \in Answers(r)
    BY <1>4
  <2>2. \A v \in held' : Sane(v) /\ v = Vote(v)
    BY <1>2, <2>1, AnswersAreSane DEF ApprovalInv, HeldIsSane
  <2>3. HeldIsSane'
    BY <2>2 DEF HeldIsSane, Vote
  <2>4. CASE Stop("none")
    BY <1>1, <1>2, <2>3, <2>4, StopKeepsApproval
  <2>5. CASE pc' = "publish" /\ UNCHANGED <<run, ended>>
    <3>1. ApprovedPlanIsSound' /\ CrossChecksAgree' /\ UNCHANGED <<log, run, ended, executed>>
      BY <1>1, <1>2, <2>5, RunningKeepsEnds
    <3>2. RunIsCurrent'
      BY <1>1, <2>5, <3>1 DEF ApprovalInv, RunSound, RunIsCurrent, Working
    <3>3. VotesAreHeard'
      BY <1>1, <2>5, <3>1 DEF ApprovalInv, RunSound, VotesAreHeard, Judging, Key
    <3>4. RoundIsSettled'
      BY <1>1, <2>5, <3>1 DEF ApprovalInv, RunSound, RoundIsSettled, Pending
    <3>5. GateIsSound' /\ ShortIsSound'
      BY <1>2, <2>5, <3>1 DEF GateIsSound, ShortIsSound
    <3>6. Sound(log)'
      BY <3>1 DEF ApprovalInv
    <3> QED BY <1>2, <2>3, <3>1, <3>2, <3>3, <3>4, <3>5, <3>6 DEF ApprovalInv, RunSound
  <2> QED BY <1>4, <2>4, <2>5
<1>5. \/ UNCHANGED held /\ Stop("none")
      \/ \E failed \in SUBSET asked :
           \E given \in [asked \ failed -> UNION {Answers(r) : r \in asked}] :
             /\ \A r \in asked \ failed : given[r] \in Answers(r)
             /\ held' = {v \in held : v.by \notin asked \ failed}
                          \cup {given[r] : r \in asked \ failed}
             /\ (pc' = "publish" /\ UNCHANGED <<run, ended>>) \/ Stop("none")
  BY Zenon DEF LaunchReviewers
<1> QED BY <1>3, <1>4, <1>5, Zenon

(* The record of a review says what the vote says.                          *)
LEMMA ReviewFields ==
  ASSUME NEW v, NEW final
  PROVE  LET e == Review(v, final)
         IN  /\ e.kind = "review" /\ e.round = run.round /\ e.plan = run.plan
             /\ e.under = run.demand /\ e.prior = run.prior /\ e.final = final
             /\ e.by = v.by /\ e.ok = v.ok /\ e.ack = v.ack /\ e.kept = v.kept /\ e.new = v.new
BY DEF Review, Record

(* A review that is published is the last word of its reviewer.             *)
LEMMA PublishReviewKeepsApproval ==
  ASSUME ApprovalInv, PublishReview
  PROVE  ApprovalInv'
<1>1. PICK r \in Pending : \E v \in Held(r) :
        /\ log' = Append(log, Review(v, FALSE))
        /\ run' = [run EXCEPT !.votes = @ \cup {v}]
  BY DEF PublishReview
<1>2. PICK v \in Held(r) :
        /\ log' = Append(log, Review(v, FALSE))
        /\ run' = [run EXCEPT !.votes = @ \cup {v}]
  BY <1>1
<1>3. pc = "publish" /\ UNCHANGED <<pc, held, ended, executed>>
  BY DEF PublishReview
<1>4. /\ r \in run.chosen /\ r \notin Names(run.votes) /\ v \in held /\ v.by = r
      /\ v.round = run.round /\ v.plan = run.plan /\ v.under = run.demand
      /\ Sane(v) /\ v = Vote(v)
  BY <1>1, <1>2 DEF Pending, Held, InContext, ApprovalInv, HeldIsSane
<1>5. /\ Working /\ ~run.short /\ PanelInv' /\ DOMAIN run = RunFields
      /\ ApprovedPlanIsSound' /\ CrossChecksAgree'
  BY <1>3, PublishReviewKeeps, RunningKeepsEnds
  DEF Working, ApprovalInv, RunSound, ShortIsSound, PanelInv, RunInScope
<1> DEFINE e == Review(v, FALSE)
<1>6. /\ e.kind = "review" /\ e.round = run.round /\ e.plan = run.plan
      /\ e.under = run.demand /\ e.prior = run.prior /\ e.final = FALSE
      /\ e.by = v.by /\ e.ok = v.ok /\ e.ack = v.ack /\ e.kept = v.kept /\ e.new = v.new
  BY ReviewFields
<1>7. log' = Append(log, e)
  BY <1>2
<1> HIDE DEF e
<1>8. Sane(e) /\ Vote(e) = v /\ e.by = r
  BY <1>4, <1>6 DEF Sane, Vote
<1>9. ~run.settled /\ ~Settled(log, run.round)
  BY <1>1, <1>3 DEF ApprovalInv, RunSound, RoundIsSettled
<1>10. ASSUME NEW i \in InRound(log, run.round), log[i].by = r, ~log[i].ok
       PROVE  FALSE
  <2>1. Vote(log[i]) \in run.votes
    BY <1>3, <1>4, <1>5, <1>10 DEF ApprovalInv, RunSound, VotesAreHeard
  <2>2. Vote(log[i]).by = r
    BY <1>10 DEF Vote
  <2> QED BY <1>4, <2>1, <2>2 DEF Names
<1>11. /\ run'.round = run.round /\ run'.plan = run.plan /\ run'.demand = run.demand
       /\ run'.prior = run.prior /\ run'.short = run.short /\ run'.settled = run.settled
       /\ run'.chosen = run.chosen /\ run'.appr = run.appr /\ run'.votes = run.votes \cup {v}
  BY <1>2, <1>5 DEF RunFields
<1>12. r \in Reviewers
  BY <1>3, <1>4 DEF ApprovalInv, RunSound, VotesAreHeard, Judging
<1>13. Sound(log') /\ Grown(log, log', e) /\ RunIsCurrent'
  BY <1>3, <1>5, <1>6, <1>7, <1>8, <1>9, <1>10, <1>11, <1>12, RecordOfRound
<1>14. /\ \E S : log \in Seq(S)
       /\ \A n : InRound(log', n) =
            InRound(log, n) \cup (IF e.kind = "review" /\ e.round = n THEN {Len(log) + 1} ELSE {})
       /\ \A n : Settled(log', n) <=> Settled(log, n) \/ (e.kind = "settled" /\ e.round = n)
       /\ Overlooked(log') = Overlooked(log)
       /\ log'[Len(log) + 1] = e /\ \A i \in Here(log) : log'[i] = log[i]
  <2>1. e.kind # "prelaunch"
    BY <1>6
  <2>2. \E S : log \in Seq(S)
    BY DEF ApprovalInv, PanelInv, GoodLog
  <2> QED BY <1>13, <2>1, <2>2, GrownKinds, GrownOverlooked DEF Grown
<1>15. \A w \in run.votes : w.by # r
  BY <1>4 DEF Names
<1>16. Key' = Key /\ KeyOf(v) = Key
  BY <1>4, <1>11 DEF Key, KeyOf
<1>17. /\ \A w \in run.votes : Heard(log', w, run.round)
       /\ Heard(log', v, run.round)
       /\ \A q \in run.appr \ run.chosen : \A k : Approves(log, q, k) => Approves(log', q, k)
  <2>1. \A w \in run.votes : Heard(log, w, run.round)
    BY <1>3 DEF ApprovalInv, RunSound, VotesAreHeard
  <2>2. \A w \in run.votes : ~(e.kind = "review" /\ e.by = w.by)
    BY <1>8, <1>15
  <2>3. \A q \in run.appr \ run.chosen : ~(e.kind = "review" /\ e.by = q)
    BY <1>4, <1>8
  <2>4. e.kind = "review" /\ e.by = v.by /\ e.round = run.round /\ v = Vote(e)
    BY <1>6, <1>8
  <2>5. \E S : log \in Seq(S)
    BY <1>14
  <2> QED BY <1>13, <2>1, <2>2, <2>3, <2>4, <2>5, GrownWords
<1>18. VotesAreHeard'
  <2>1. \A i \in InRound(log', run.round) : i \in InRound(log, run.round) \/ log'[i] = e
    BY <1>14
  <2>2. \A i \in InRound(log, run.round) : log'[i] = log[i]
    BY <1>14 DEF InRound, OfKind
  <2>3. \A i \in InRound(log', run.round) : ~log'[i].ok =>
          IF log'[i].by \in run.chosen THEN Vote(log'[i]) \in run.votes \cup {v}
          ELSE i \in Overlooked(log')
    <3> SUFFICES ASSUME NEW i \in InRound(log', run.round), ~log'[i].ok
                 PROVE  IF log'[i].by \in run.chosen THEN Vote(log'[i]) \in run.votes \cup {v}
                        ELSE i \in Overlooked(log')
      OBVIOUS
    <3>1. CASE log'[i] = e
      BY <1>4, <1>8, <3>1
    <3>2. CASE i \in InRound(log, run.round)
      <4>1. log'[i] = log[i]
        BY <2>2, <3>2
      <4>2. IF log[i].by \in run.chosen THEN Vote(log[i]) \in run.votes ELSE i \in Overlooked(log)
        BY <1>3, <1>5, <3>2, <4>1 DEF ApprovalInv, RunSound, VotesAreHeard
      <4> QED BY <1>14, <4>1, <4>2
    <3> QED BY <2>1, <3>1, <3>2
  <2>4. \A w \in run.votes : w.ok => KeyOf(w) = Key
    BY <1>3 DEF ApprovalInv, RunSound, VotesAreHeard
  <2>5. run.chosen \subseteq Reviewers /\ \A q \in run.appr \ run.chosen : Approves(log, q, Key)
    BY <1>3 DEF ApprovalInv, RunSound, VotesAreHeard, Judging
  <2> HIDE DEF Key
  <2> QED BY <1>11, <1>16, <1>17, <2>3, <2>4, <2>5 DEF VotesAreHeard, Judging
<1>19. RoundIsSettled'
  BY <1>3, <1>6, <1>9, <1>11, <1>14 DEF RoundIsSettled
<1>20. GateIsSound' /\ ShortIsSound' /\ HeldIsSane'
  BY <1>3, <1>5, <1>11 DEF GateIsSound, ShortIsSound, ApprovalInv, HeldIsSane
<1> QED BY <1>5, <1>13, <1>18, <1>19, <1>20 DEF ApprovalInv, RunSound

(* What is minted in a round is of that round; nothing is before it is      *)
(* settled.                                                                 *)
LEMMA MintedOfRound ==
  ASSUME NEW L, Sound(L), NEW n
  PROVE  /\ \A item \in MintedAt(L, n) : item.round = n
         /\ ~Settled(L, n) => MintedAt(L, n) = {}
<1>1. ASSUME NEW item \in MintedAt(L, n)
      PROVE  item.round = n /\ Settled(L, n)
  <2>1. PICK i \in Here(L) : L[i].round = n /\ item \in Minted(L[i])
    BY <1>1 DEF MintedAt, MintedIn
  <2>2. item \in L[i].new /\ (L[i].kind = "settled" \/ L[i].final)
    BY <2>1 DEF Minted
  <2>3. item.round = n
    BY <2>1, <2>2 DEF Sound, Judged, Sane
  <2>4. L[i].kind = "settled" \/ L[i].kind = "review"
    BY <2>2 DEF Sound, Ordered
  <2>5. Settled(L, n)
    BY <2>1, <2>2, <2>4 DEF Sound, Closed, Settled, OfKind
  <2> QED BY <2>3, <2>5
<1> QED BY <1>1

(* A vote stands for a review of the round.                                 *)
LEMMA VotesAreReviews ==
  ASSUME ApprovalInv, pc \in {"launch", "publish", "outcome"}, NEW v \in run.votes
  PROVE  \E i \in InRound(log, run.round) :
           /\ i \in Here(log) /\ v = Vote(v) /\ v.round = run.round /\ Sane(v)
           /\ v.by = log[i].by /\ v.ok = log[i].ok /\ v.ack = log[i].ack
           /\ v.kept = log[i].kept /\ v.new = log[i].new /\ KeyOf(v) = KeyOf(log[i])
           /\ i \in Reviewed(log, v.by) /\ \A j \in Reviewed(log, v.by) : j <= i
<1>1. PICK i \in InRound(log, run.round) :
        v = Vote(log[i]) /\ \A j \in Reviewed(log, v.by) : j <= i
  BY DEF ApprovalInv, RunSound, VotesAreHeard, Heard
<1>2. i \in Here(log) /\ log[i].kind = "review" /\ log[i].round = run.round
  BY DEF InRound, OfKind
<1>3. /\ v.by = log[i].by /\ v.ok = log[i].ok /\ v.ack = log[i].ack /\ v.round = log[i].round
      /\ v.kept = log[i].kept /\ v.new = log[i].new /\ KeyOf(v) = KeyOf(log[i])
  BY <1>1 DEF Vote, KeyOf
<1>4. Sane(log[i])
  BY <1>2 DEF ApprovalInv, Sound, Judged
<1>5. Sane(v)
  BY <1>3, <1>4 DEF Sane
<1>6. i \in Reviewed(log, v.by)
  BY <1>2, <1>3 DEF Reviewed, ReviewsBy, OfKind
<1>7. v = Vote(v)
  BY <1>1 DEF Vote
<1> QED BY <1>1, <1>2, <1>3, <1>5, <1>6, <1>7

(* The settlement mints what the reviews of the round found.                *)
LEMMA SettleRoundKeepsApproval ==
  ASSUME ApprovalInv, SettleRound
  PROVE  ApprovalInv'
<1> DEFINE new == IF run.settled THEN run.new ELSE UNION {v.new : v \in Votes(run.chosen)}
           e == [Record("settled", run.round, run.plan, "unkeyed")
                   EXCEPT !.prior = run.prior, !.new = new]
<1>1. /\ pc = "publish" /\ pc' = "outcome" /\ held' = {} /\ Pending = {}
      /\ run' = [run EXCEPT !.new = new]
      /\ log' = IF run.settled THEN log ELSE Append(log, e)
      /\ UNCHANGED <<ended, executed>>
  BY DEF SettleRound
<1>2. run.settled => new = run.new
  OBVIOUS
<1>3. ~run.settled => new = UNION {v.new : v \in Votes(run.chosen)}
  OBVIOUS
<1> HIDE DEF new
<1>4. /\ e.kind = "settled" /\ e.round = run.round /\ e.plan = run.plan /\ e.prior = run.prior
      /\ e.ok = FALSE /\ e.kept = {} /\ e.new = new
  BY DEF Record
<1> HIDE DEF e
<1>5. /\ Working /\ ~run.short /\ PanelInv' /\ DOMAIN run = RunFields
      /\ ApprovedPlanIsSound' /\ CrossChecksAgree'
  BY <1>1, SettleRoundKeeps, RunningKeepsEnds
  DEF Working, ApprovalInv, RunSound, ShortIsSound, PanelInv, RunInScope
<1>6. /\ run'.round = run.round /\ run'.plan = run.plan /\ run'.demand = run.demand
      /\ run'.prior = run.prior /\ run'.short = run.short
      /\ run'.chosen = run.chosen /\ run'.appr = run.appr /\ run'.votes = run.votes
  BY <1>1, <1>5 DEF RunFields
<1>7. run'.new = new
  BY <1>1, <1>5 DEF RunFields
<1>8. Sound(log) /\ (\E S : log \in Seq(S))
  BY DEF ApprovalInv, PanelInv, GoodLog
<1>9. run.chosen \subseteq Names(run.votes)
  BY <1>1 DEF Pending
<1>10. /\ Sound(log') /\ RunIsCurrent' /\ Settled(log', run.round)
       /\ \A i \in InRound(log', run.round) :
            i \in InRound(log, run.round) /\ log'[i] = log[i]
       /\ Overlooked(log') = Overlooked(log) /\ MintedAt(log', run.round) = new
       /\ \A v \in run.votes : Heard(log', v, run.round)
       /\ \A r \in run.appr \ run.chosen : \A k : Approves(log, r, k) => Approves(log', r, k)
       /\ \A item \in new : item.round = run.round
  <2>1. \A v \in run.votes : Heard(log, v, run.round)
    BY <1>1 DEF ApprovalInv, RunSound, VotesAreHeard
  <2>2. CASE run.settled
    <3>1. log' = log
      BY <1>1, <2>2
    <3>2. Settled(log, run.round) /\ new = MintedAt(log, run.round)
      BY <1>1, <1>2, <2>2 DEF ApprovalInv, RunSound, RoundIsSettled
    <3>3. \A item \in new : item.round = run.round
      BY <1>8, <3>2, MintedOfRound
    <3>4. RunIsCurrent'
      BY <1>1, <1>5, <1>6, <3>1 DEF ApprovalInv, RunSound, RunIsCurrent, Working
    <3> QED BY <1>8, <2>1, <3>1, <3>2, <3>3, <3>4
  <2>3. CASE ~run.settled
    <3>1. log' = Append(log, e) /\ ~Settled(log, run.round)
      BY <1>1, <2>3 DEF ApprovalInv, RunSound, RoundIsSettled
    <3>2. MintedAt(log, run.round) = {}
      BY <1>8, <3>1, MintedOfRound
    <3>3. \A v \in Votes(run.chosen) : v \in run.votes
      BY DEF Votes
    <3>4. \A item \in new : \E v \in run.votes : item \in v.new
      BY <1>3, <2>3, <3>3
    <3>5. \A item \in new : item.round = run.round
      <4> TAKE item \in new
      <4>1. PICK v \in run.votes : item \in v.new
        BY <3>4
      <4>2. Sane(v) /\ v.round = run.round
        BY <1>1, VotesAreReviews
      <4> QED BY <4>1, <4>2 DEF Sane
    <3>6. Sane(e)
      BY <1>4, <3>5 DEF Sane
    <3>7. ASSUME NEW i \in InRound(log, run.round) \ Overlooked(log)
          PROVE  log[i].new \subseteq new
      <4>1. i \in Here(log)
        BY DEF InRound, OfKind
      <4>2. CASE log[i].ok
        BY <1>8, <4>1, <4>2 DEF Sound, Judged, Sane
      <4>3. CASE ~log[i].ok
        <5>1. log[i].by \in run.chosen /\ Vote(log[i]) \in run.votes
          BY <1>1, <1>5, <4>3 DEF ApprovalInv, RunSound, VotesAreHeard
        <5>2. Vote(log[i]).new = log[i].new /\ Vote(log[i]).by = log[i].by
          BY DEF Vote
        <5>3. Vote(log[i]) \in Votes(run.chosen)
          BY <5>1, <5>2 DEF Votes
        <5> QED BY <1>3, <2>3, <5>2, <5>3
      <4> QED BY <4>2, <4>3
    <3>8. Sound(log') /\ Grown(log, log', e) /\ RunIsCurrent'
      <4>1. Gathers(log, run.round, e)
        BY <1>4, <3>7 DEF Gathers
      <4>2. /\ pc' \in {"launch", "publish", "outcome", "gate"} /\ UNCHANGED <<ended, executed>>
            /\ e.kind = "settled" /\ e.round = run.round /\ e.plan = run.plan
            /\ e.prior = run.prior /\ run'.round = run.round /\ run'.plan = run.plan
            /\ run'.prior = run.prior /\ ~run'.short /\ log' = Append(log, e)
        BY <1>1, <1>4, <1>5, <1>6, <3>1
      <4>3. /\ e.kind \in {"prelaunch", "review", "settled"}
            /\ ~(e.kind = "prelaunch") /\ ~(e.kind = "review")
        BY <4>2
      <4> QED BY <1>5, <3>6, <4>1, <4>2, <4>3, RecordOfRound
    <3>9. /\ Settled(log', run.round)
          /\ InRound(log', run.round) = InRound(log, run.round) \cup {}
      <4>1. /\ \A n : Settled(log', n) <=> Settled(log, n) \/ (e.kind = "settled" /\ e.round = n)
            /\ \A n : InRound(log', n) =
                 InRound(log, n) \cup (IF e.kind = "review" /\ e.round = n THEN {Len(log) + 1} ELSE {})
        BY <3>8, GrownKinds
      <4>2. e.kind = "settled" /\ e.round = run.round
        BY <1>4
      <4> QED BY <4>1, <4>2
    <3>10. \A i \in InRound(log', run.round) :
             i \in InRound(log, run.round) /\ log'[i] = log[i]
      BY <3>8, <3>9 DEF Grown, InRound, OfKind
    <3>11. Overlooked(log') = Overlooked(log)
      BY <1>4, <3>8, GrownOverlooked
    <3>12. MintedAt(log', run.round) = new
      <4>1. Minted(e) = new
        BY <1>4 DEF Minted
      <4> QED BY <1>4, <3>2, <3>8, <4>1, GrownMinted
    <3>13. /\ \A v \in run.votes : Heard(log', v, run.round)
           /\ \A r \in run.appr \ run.chosen : \A k : Approves(log, r, k) => Approves(log', r, k)
      BY <1>4, <1>8, <2>1, <3>8, GrownWords
    <3> QED BY <3>5, <3>8, <3>9, <3>10, <3>11, <3>12, <3>13
  <2> QED BY <2>2, <2>3
<1>11. VotesAreHeard'
  <2>1. Key' = Key
    BY <1>6 DEF Key
  <2>2. /\ \A v \in run.votes : v.ok => KeyOf(v) = Key
        /\ run.chosen \subseteq Reviewers
        /\ \A r \in run.appr \ run.chosen : Approves(log, r, Key)
        /\ \A i \in InRound(log, run.round) :
             ~log[i].ok => IF log[i].by \in run.chosen THEN Vote(log[i]) \in run.votes
                           ELSE i \in Overlooked(log)
    BY <1>1, <1>5 DEF ApprovalInv, RunSound, VotesAreHeard, Judging
  <2>3. \A i \in InRound(log', run.round) :
             ~log'[i].ok => IF log'[i].by \in run.chosen THEN Vote(log'[i]) \in run.votes
                            ELSE i \in Overlooked(log')
    BY <1>10, <2>2
  <2> HIDE DEF Key
  <2> QED BY <1>6, <1>10, <2>1, <2>2, <2>3 DEF VotesAreHeard, Judging
<1>12. RoundIsSettled'
  BY <1>1, <1>6, <1>7, <1>9, <1>10 DEF RoundIsSettled
<1>13. GateIsSound' /\ ShortIsSound' /\ HeldIsSane'
  BY <1>1, <1>5, <1>6 DEF GateIsSound, ShortIsSound, HeldIsSane
<1> QED BY <1>5, <1>10, <1>11, <1>12, <1>13 DEF ApprovalInv, RunSound

(* What the dispositions leave open: nothing but what was kept, all of it.  *)
LEMMA AppliedVotes ==
  ASSUME NEW prior, NEW votes
  PROVE  /\ \A v \in votes : v.kept \subseteq Apply(prior, votes)
         /\ votes = {} => Apply(prior, votes) = prior
         /\ \A item \in Apply(prior, votes) : item \in prior \/ \E v \in votes : item \in v.kept
BY DEF Apply

(* The outcome of a round: what is open, who blocks it, and who has to      *)
(* acknowledge the signed requirements.                                     *)
LEMMA ReadOutcomeKeepsApproval ==
  ASSUME ApprovalInv, ReadOutcome
  PROVE  ApprovalInv'
<1> DEFINE mine == Votes(run.chosen)
           paused == {v \in Votes(run.appr \ run.chosen) : v.ok}
           ledger == Apply(run.prior, mine \cup paused) \cup run.new
           blocked == {v.by : v \in {w \in mine : ~w.ok}}
           asks == ledger = {} /\ blocked = {} /\ run.demand # NoDemand /\ mine # {}
           unaware == log[run.plan].under # run.demand
           todo == IF asks THEN {v.by : v \in {w \in mine : ~w.ack}} ELSE {}
           missing == IF asks /\ unaware THEN {Orchestrator} ELSE {}
<1>1. run' = [run EXCEPT !.ledger = ledger, !.blocked = blocked,
                         !.todo = todo, !.missing = missing]
  BY Zenon DEF ReadOutcome
<1>2. pc = "outcome" /\ pc' = "gate" /\ UNCHANGED <<log, held, ended, executed>>
  BY DEF ReadOutcome
<1>3. /\ \A v \in mine : v \in run.votes /\ v.by \in run.chosen
      /\ \A v \in run.votes : v.by \in run.chosen => v \in mine
      /\ \A v \in paused : v \in run.votes /\ v.by \notin run.chosen
  BY DEF Votes
<1>4. \A v \in mine : ~v.ok => v.by \in blocked
  OBVIOUS
<1>5. \A r \in blocked : \E v \in mine : r = v.by /\ ~v.ok
  OBVIOUS
<1>6. /\ asks => \A v \in mine : ~v.ack => v.by \in todo
      /\ \A r \in todo : asks /\ \E v \in mine : v.by = r /\ ~v.ack
  OBVIOUS
<1>7. missing # {} => asks /\ unaware
  OBVIOUS
<1>8. /\ \A v \in mine : v.kept \subseteq ledger
      /\ run.new \subseteq ledger
      /\ mine \cup paused = {} => run.prior \subseteq ledger
      /\ \A item \in ledger : item \in run.prior \/ item \in run.new
                              \/ \E v \in run.votes : item \in v.kept
  <2> HIDE DEF mine, paused
  <2> QED BY <1>3, AppliedVotes
<1>9. mine \cup paused = run.votes => ledger = Apply(run.prior, run.votes) \cup run.new
  OBVIOUS
<1>10. asks <=> ledger = {} /\ blocked = {} /\ run.demand # NoDemand /\ mine # {}
  OBVIOUS
<1>11. unaware <=> log[run.plan].under # run.demand
  OBVIOUS
<1> HIDE DEF mine, paused, ledger, blocked, asks, unaware, todo, missing
<1>12. /\ PanelInv' /\ DOMAIN run = RunFields /\ Working
       /\ ApprovedPlanIsSound' /\ CrossChecksAgree'
  BY <1>2, ReadOutcomeKeeps, RunningKeepsEnds DEF Working, ApprovalInv, PanelInv, RunInScope
<1>13. /\ run'.ledger = ledger /\ run'.blocked = blocked /\ run'.todo = todo
       /\ run'.missing = missing
  BY <1>1, <1>12 DEF RunFields
<1>14. /\ run'.round = run.round /\ run'.plan = run.plan /\ run'.demand = run.demand
       /\ run'.prior = run.prior /\ run'.short = run.short /\ run'.new = run.new
       /\ run'.chosen = run.chosen /\ run'.appr = run.appr /\ run'.votes = run.votes
  BY <1>1, <1>12 DEF RunFields
<1>15. RunIsCurrent'
  BY <1>2, <1>14 DEF ApprovalInv, RunSound, RunIsCurrent, Working
<1>16. VotesAreHeard' /\ RoundIsSettled'
  BY <1>2, <1>14 DEF ApprovalInv, RunSound, VotesAreHeard, RoundIsSettled, Judging, Key
<1>17. /\ Key' = Key
       /\ Clean' => ledger = {} /\ blocked = {}
       /\ ledger = {} /\ missing = {} /\ blocked = {} => Clean'
       /\ \A v \in Votes(run.todo)' : v \in Votes(todo)
  <2>1. Key' = Key
    BY <1>14 DEF Key
  <2>2. /\ Clean' => ledger = {} /\ blocked = {}
        /\ ledger = {} /\ missing = {} /\ blocked = {} => Clean'
    BY <1>13, <1>14 DEF Clean, Ledger
  <2>3. Votes(run.todo)' = {v \in run'.votes : v.by \in run'.todo}
    BY DEF Votes
  <2>4. \A v \in Votes(run.todo)' : v \in Votes(todo)
    BY <1>13, <1>14, <2>3 DEF Votes
  <2> QED BY <2>1, <2>2, <2>4
<1>18. ASSUME NEW r \in run.chosen \ blocked
       PROVE  /\ Reviewed(log, r) # {}
              /\ LET e == log[Newest(Reviewed(log, r))]
                 IN  /\ e.ok /\ KeyOf(e) = Key
                     /\ e.ack \/ r \in todo \/ run.demand = NoDemand \/ ~Clean'
  <2>1. PICK v \in run.votes : v.by = r
    BY <1>2 DEF ApprovalInv, RunSound, RoundIsSettled, Names
  <2>2. v \in mine /\ v.ok
    BY <1>3, <1>4, <2>1
  <2>3. PICK i \in Reviewed(log, r) :
          /\ \A j \in Reviewed(log, r) : j <= i
          /\ v.ok = log[i].ok /\ v.ack = log[i].ack /\ KeyOf(v) = KeyOf(log[i])
    BY <1>2, <2>1, VotesAreReviews
  <2>4. Newest(Reviewed(log, r)) = i
    <3>1. Reviewed(log, r) \subseteq DOMAIN log
      BY DEF Reviewed, ReviewsBy, OfKind, Here
    <3>2. DOMAIN log \subseteq Nat
      <4>1. \E S : log \in Seq(S)
        BY DEF ApprovalInv, PanelInv, GoodLog
      <4> QED BY <4>1, AppendsOne DEF OneMore
    <3>3. Reviewed(log, r) \in SUBSET Nat
      BY <3>1, <3>2
    <3> QED BY <2>3, <3>3, TheNewest
  <2>5. KeyOf(v) = Key
    BY <1>2, <2>1, <2>2 DEF ApprovalInv, RunSound, VotesAreHeard
  <2>6. v.ack \/ r \in todo \/ run.demand = NoDemand \/ ~Clean'
    BY <1>6, <1>10, <1>17, <2>1, <2>2
  <2> QED BY <2>2, <2>3, <2>4, <2>5, <2>6
<1>19. todo \cap blocked = {}
  BY <1>6, <1>10
<1>20. ASSUME NEW v \in Votes(todo)
       PROVE  Sane(v) /\ v = Vote(v) /\ v.ok /\ KeyOf(v) = Key /\ v.round = run.round
  <2>1. v \in run.votes /\ v.by \in todo
    BY DEF Votes
  <2>2. v \in mine /\ blocked = {}
    BY <1>3, <1>6, <1>10, <2>1
  <2>3. v.ok
    BY <1>4, <2>2
  <2>4. KeyOf(v) = Key
    BY <1>2, <2>1, <2>3 DEF ApprovalInv, RunSound, VotesAreHeard
  <2> QED BY <1>2, <2>1, <2>3, <2>4, VotesAreReviews
<1>21. ASSUME ~run.short
       PROVE  /\ MintedAt(log, run.round) \subseteq ledger
              /\ \A i \in InRound(log, run.round) : i \in Overlooked(log) \/ log[i].kept \subseteq ledger
              /\ run.prior \subseteq ledger \/ InRound(log, run.round) # {}
              /\ \A item \in ledger : item.round \in Nat /\ item.round <= run.round
  <2>1. Sound(log) /\ run.round \in Nat
        /\ \A item \in run.prior : item.round \in Nat /\ item.round < run.round
    BY <1>12, <1>21, RoundOfRun
  <2>2. MintedAt(log, run.round) \subseteq run.new /\ \A item \in run.new : item.round = run.round
    BY <1>2 DEF ApprovalInv, RunSound, RoundIsSettled
  <2>3. ASSUME NEW i \in InRound(log, run.round), i \notin Overlooked(log)
        PROVE  log[i].kept \subseteq ledger
    <3>1. i \in Here(log)
      BY DEF InRound, OfKind
    <3>2. CASE log[i].ok
      BY <2>1, <3>1, <3>2 DEF Sound, Judged, Sane
    <3>3. CASE ~log[i].ok
      <4>1. log[i].by \in run.chosen /\ Vote(log[i]) \in run.votes
        BY <1>2, <1>21, <2>3, <3>3 DEF ApprovalInv, RunSound, VotesAreHeard
      <4>2. Vote(log[i]).kept = log[i].kept /\ Vote(log[i]).by = log[i].by
        BY DEF Vote
      <4> QED BY <1>3, <1>8, <4>1, <4>2
    <3> QED BY <3>2, <3>3
  <2>4. run.prior \subseteq ledger \/ InRound(log, run.round) # {}
    <3>1. CASE mine \cup paused = {}
      BY <1>8, <3>1
    <3>2. CASE mine \cup paused # {}
      <4>1. PICK v \in run.votes : TRUE
        BY <1>3, <3>2
      <4> QED BY <1>2, <4>1, VotesAreReviews
    <3> QED BY <3>1, <3>2
  <2>5. ASSUME NEW item \in ledger
        PROVE  item.round \in Nat /\ item.round <= run.round
    <3>1. CASE item \in run.prior
      BY <2>1, <3>1
    <3>2. CASE item \in run.new
      BY <2>1, <2>2, <3>2
    <3>3. ASSUME NEW v \in run.votes, item \in v.kept
          PROVE  item.round \in Nat /\ item.round <= run.round
      <4>1. Sane(v) /\ v.round = run.round
        BY <1>2, VotesAreReviews
      <4>2. item.round \in Nat /\ item.round < run.round
        BY <3>3, <4>1 DEF Sane
      <4> QED BY <2>1, <4>2
    <3> QED BY <1>8, <3>1, <3>2, <3>3
  <2> QED BY <1>8, <2>2, <2>3, <2>4, <2>5
<1>22. GateIsSound'
  <2>1. \A v \in Votes(run.todo)' :
          Sane(v) /\ v = Vote(v) /\ v.ok /\ KeyOf(v) = Key /\ v.round = run.round
    BY <1>17, <1>20
  <2> HIDE DEF Key
  <2> QED BY <1>2, <1>8, <1>13, <1>14, <1>17, <1>18, <1>19, <1>21, <2>1 DEF GateIsSound
<1>23. ASSUME run.short
       PROVE  Clean' /\ todo = {} /\ missing = {}
  <2>1. /\ run.chosen = Names(run.votes)
        /\ \A v \in run.votes : Binds(v, Key)
        /\ Apply(run.prior, run.votes) = {} /\ run.new = {}
        /\ run.demand # NoDemand => log[run.plan].under = run.demand
    BY <1>23 DEF ApprovalInv, RunSound, ShortIsSound
  <2>2. \A v \in run.votes : v.ok /\ (run.demand # NoDemand => v.ack)
    BY <2>1 DEF Binds, Key
  <2>3. \A v \in run.votes : v.by \in run.chosen
    BY <2>1 DEF Names
  <2>4. mine \cup paused = run.votes
    BY <1>3, <2>3
  <2>5. ledger = {}
    BY <1>9, <2>1, <2>4
  <2>6. blocked = {}
    BY <1>3, <1>5, <2>2
  <2>7. todo = {}
    BY <1>3, <1>6, <1>10, <2>2
  <2>8. missing = {}
    BY <1>7, <1>10, <1>11, <2>1
  <2> QED BY <1>17, <2>5, <2>6, <2>7, <2>8
<1>24. ShortIsSound'
  <2> HIDE DEF Key
  <2> QED BY <1>2, <1>13, <1>14, <1>17, <1>23 DEF ApprovalInv, RunSound, ShortIsSound
<1>25. Sound(log)' /\ HeldIsSane'
  BY <1>2 DEF ApprovalInv, HeldIsSane
<1> QED BY <1>12, <1>15, <1>16, <1>22, <1>24, <1>25 DEF ApprovalInv, RunSound

(* A review changes the last word of its reviewer, and of nobody else.      *)
LEMMA GrownByReview ==
  ASSUME NEW L, NEW M, NEW e, Grown(L, M, e), \E S : L \in Seq(S), e.kind = "review",
         NEW r, e.by = r
  PROVE  /\ \A q : q # r => /\ Reviewed(M, q) = Reviewed(L, q)
                            /\ Reviewed(L, q) # {} =>
                                 M[Newest(Reviewed(M, q))] = L[Newest(Reviewed(L, q))]
                            /\ \A k : Approves(L, q, k) => Approves(M, q, k)
         /\ Reviewed(M, r) # {} /\ M[Newest(Reviewed(M, r))] = e
<1>1. Reviewed(M, r) # {} /\ M[Newest(Reviewed(M, r))] = e
  BY GrownWords
<1>2. ASSUME NEW q, q # r
      PROVE  /\ Reviewed(M, q) = Reviewed(L, q)
             /\ Reviewed(L, q) # {} =>
                  M[Newest(Reviewed(M, q))] = L[Newest(Reviewed(L, q))]
  BY <1>2, GrownWords
<1>3. ASSUME NEW q, q # r
      PROVE  \A k : Approves(L, q, k) => Approves(M, q, k)
  BY <1>3, GrownWords
<1> QED BY <1>1, <1>2, <1>3

(* So it is with a review that is posted.                                   *)
LEMMA ReviewPosted ==
  ASSUME NEW e, NEW r, Grown(log, log', e), \E S : log \in Seq(S), e.kind = "review", e.by = r
  PROVE  /\ \A q : q # r => /\ Reviewed(log', q) = Reviewed(log, q)
                            /\ Reviewed(log, q) # {} =>
                                 log'[Newest(Reviewed(log', q))] = log[Newest(Reviewed(log, q))]
                            /\ \A k : Approves(log, q, k) => Approves(log', q, k)
         /\ Reviewed(log', r) # {} /\ log'[Newest(Reviewed(log', r))] = e
BY GrownByReview

(* The record of a repair.                                                  *)
Repaired(v, how) ==
  CASE how = "recovered" -> [v EXCEPT !.ack = TRUE]
    [] how = "blocking" -> [v EXCEPT !.ok = FALSE, !.new = {[by |-> v.by, round |-> run.round]}]
    [] how = "missing" -> v

(* A repaired approval acknowledges the requirements or blocks.             *)
LEMMA RepairedFields ==
  ASSUME NEW v, v = Vote(v), Sane(v), v.ok, NEW how \in {"recovered", "blocking"}
  PROVE  LET w == Repaired(v, how)
         IN  /\ w.by = v.by /\ w.kept = {}
             /\ how = "recovered" => w.ok /\ w.ack /\ w.new = {}
             /\ how = "blocking" => ~w.ok /\ w.new = {[by |-> v.by, round |-> run.round]}
<1>1. v.kept = {} /\ v.new = {}
  BY DEF Sane
<1>2. DOMAIN v = {"by", "round", "plan", "under", "ok", "ack", "kept", "new"}
  BY DEF Vote
<1>3. CASE how = "recovered"
  <2>1. Repaired(v, how) = [v EXCEPT !.ack = TRUE]
    BY <1>3 DEF Repaired
  <2> HIDE DEF Repaired
  <2> QED BY <1>1, <1>2, <1>3, <2>1
<1>4. CASE how = "blocking"
  <2>1. Repaired(v, how) =
          [v EXCEPT !.ok = FALSE, !.new = {[by |-> v.by, round |-> run.round]}]
    BY <1>4 DEF Repaired
  <2> HIDE DEF Repaired
  <2> QED BY <1>1, <1>2, <1>4, <2>1
<1> QED BY <1>3, <1>4

(* A reviewer asked to acknowledge has approved in this round all along.    *)
LEMMA AskedHaveApproved ==
  ASSUME ApprovalInv, pc = "gate", ~run.short, NEW r \in run.chosen \ run.blocked
  PROVE  \A i \in InRound(log, run.round) : log[i].by = r => log[i].ok
<1> TAKE i \in InRound(log, run.round)
<1>1. HAVE log[i].by = r
<1>2. i \in Reviewed(log, r) /\ log[i].round = run.round
  BY <1>1 DEF InRound, Reviewed, ReviewsBy, OfKind
<1>3. \A j \in Reviewed(log, r) : log[j].round <= log[i].round
  <2>1. \A j \in Reviewed(log, r) : j \in Here(log)
    BY DEF Reviewed, ReviewsBy, OfKind
  <2> QED BY <1>2, <2>1, RoundOfRun DEF Working
<1>4. log[Newest(Reviewed(log, r))].ok
  BY DEF ApprovalInv, RunSound, GateIsSound
<1>5. GoodLog(log) /\ Ordered(log) /\ Judged(log)
  BY DEF ApprovalInv, Sound
<1> QED BY <1>2, <1>3, <1>4, <1>5, ApprovedToTheEnd

(* A reviewer that will not acknowledge keeps the plan from being approved. *)
LEMMA NothingAcknowledged ==
  ASSUME ApprovalInv, pc = "gate", ~run.short, PanelInv', NEW r \in run.todo,
         UNCHANGED <<log, held, pc, ended, executed>>,
         run'.round = run.round, run'.plan = run.plan, run'.demand = run.demand,
         run'.prior = run.prior, run'.short = run.short, run'.new = run.new,
         run'.chosen = run.chosen, run'.appr = run.appr, run'.votes = run.votes,
         run'.todo = run.todo \ {r}, run'.ledger = run.ledger, run'.blocked = run.blocked,
         run'.missing = run.missing \cup {r}
  PROVE  ApprovalInv'
<1>1. ApprovedPlanIsSound' /\ CrossChecksAgree'
  BY RunningKeepsEnds
<1>2. RunIsCurrent'
  BY DEF ApprovalInv, RunSound, RunIsCurrent, Working
<1>3. VotesAreHeard' /\ RoundIsSettled'
  BY DEF ApprovalInv, RunSound, VotesAreHeard, RoundIsSettled, Judging, Key
<1>4. ~Clean' /\ Key' = Key
  <2>1. Ledger' # {}
    BY DEF Ledger
  <2> QED BY <2>1 DEF Clean, Key
<1>5. \A v \in Votes(run.todo)' : v \in Votes(run.todo)
  BY DEF Votes
<1>6. GateIsSound'
  <2>1. GateIsSound
    BY DEF ApprovalInv, RunSound
  <2> HIDE DEF Key
  <2> QED BY <1>4, <1>5, <2>1 DEF GateIsSound
<1>7. ShortIsSound' /\ Sound(log)' /\ HeldIsSane'
  BY DEF ShortIsSound, ApprovalInv, HeldIsSane
<1> QED BY <1>1, <1>2, <1>3, <1>6, <1>7 DEF ApprovalInv, RunSound

(* The record e repairs the approval of r.                                  *)
RepairsWith(e, r) ==
  /\ UNCHANGED <<held, pc, ended, executed>>
  /\ log' = Append(log, e) /\ e.kind = "review" /\ e.by = r /\ e.final /\ e.kept = {}
  /\ e.round = run.round /\ e.plan = run.plan /\ e.under = run.demand /\ e.prior = run.prior
  /\ IF e.ok THEN e.ack /\ e.new = {}
     ELSE e.new = {[by |-> r, round |-> run.round]}
  /\ run'.round = run.round /\ run'.plan = run.plan /\ run'.demand = run.demand
  /\ run'.prior = run.prior /\ run'.short = run.short /\ run'.new = run.new
  /\ run'.chosen = run.chosen /\ run'.appr = run.appr /\ run'.votes = run.votes
  /\ run'.todo = run.todo \ {r} /\ run'.ledger = run.ledger \cup e.new
  /\ run'.blocked = IF e.ok THEN run.blocked ELSE run.blocked \cup {r}
  /\ run'.missing = run.missing

(* A repaired review supersedes the one it repairs.                         *)
LEMMA RepairKeepsApproval ==
  ASSUME ApprovalInv, pc = "gate", ~run.short, PanelInv', NEW r \in run.todo \cap run.chosen,
         NEW e, RepairsWith(e, r)
  PROVE  ApprovalInv'
<1>1. UNCHANGED <<held, pc, ended, executed>> /\ log' = Append(log, e)
  BY DEF RepairsWith
<1>2. /\ e.kind = "review" /\ e.by = r /\ e.final /\ e.kept = {}
      /\ e.round = run.round /\ e.plan = run.plan /\ e.under = run.demand /\ e.prior = run.prior
      /\ IF e.ok THEN e.ack /\ e.new = {}
         ELSE e.new = {[by |-> r, round |-> run.round]}
  BY DEF RepairsWith
<1>3. /\ run'.round = run.round /\ run'.plan = run.plan /\ run'.demand = run.demand
      /\ run'.prior = run.prior /\ run'.short = run.short /\ run'.new = run.new
      /\ run'.chosen = run.chosen /\ run'.appr = run.appr /\ run'.votes = run.votes
  BY DEF RepairsWith
<1>4. /\ run'.todo = run.todo \ {r} /\ run'.ledger = run.ledger \cup e.new
      /\ run'.blocked = IF e.ok THEN run.blocked ELSE run.blocked \cup {r}
      /\ run'.missing = run.missing
  BY DEF RepairsWith
<1>5. /\ Working /\ ApprovedPlanIsSound' /\ CrossChecksAgree'
      /\ r \in run.chosen \ run.blocked /\ r \in Reviewers /\ GateIsSound
  BY <1>1, RunningKeepsEnds DEF Working, Judging, ApprovalInv, RunSound, GateIsSound, VotesAreHeard
<1>6. Sane(e)
  BY <1>2 DEF Sane
<1>7. Sound(log') /\ Grown(log, log', e) /\ RunIsCurrent'
  <2>1. \A i \in InRound(log, run.round) : log[i].by = r => log[i].ok
    BY <1>5, AskedHaveApproved
  <2>2. Settled(log, run.round)
    BY DEF ApprovalInv, RunSound, RoundIsSettled
  <2>3. /\ e.kind \in {"prelaunch", "review", "settled"}
        /\ ~(e.kind = "prelaunch") /\ ~(e.kind = "settled")
        /\ pc' \in {"launch", "publish", "outcome", "gate"} /\ ~run'.short
    BY <1>1, <1>2, <1>3
  <2> QED BY <1>5, <1>6, <1>1, <1>2, <1>3, <2>1, <2>2, <2>3, RecordOfRound
<1>8. /\ \A n : InRound(log', n) =
            InRound(log, n) \cup (IF e.kind = "review" /\ e.round = n THEN {Len(log) + 1} ELSE {})
      /\ \A n : Settled(log', n) <=> Settled(log, n) \/ (e.kind = "settled" /\ e.round = n)
      /\ Overlooked(log') = Overlooked(log)
      /\ log'[Len(log) + 1] = e /\ \A i \in Here(log) : log'[i] = log[i]
  <2>1. /\ \A n : InRound(log', n) =
             InRound(log, n) \cup (IF e.kind = "review" /\ e.round = n THEN {Len(log) + 1} ELSE {})
        /\ \A n : Settled(log', n) <=> Settled(log, n) \/ (e.kind = "settled" /\ e.round = n)
    BY <1>7, GrownKinds
  <2>2. Overlooked(log') = Overlooked(log)
    <3>1. e.kind # "prelaunch"
      BY <1>2
    <3> QED BY <1>7, <3>1, GrownOverlooked
  <2>3. log'[Len(log) + 1] = e /\ \A i \in Here(log) : log'[i] = log[i]
    BY <1>7 DEF Grown
  <2> QED BY <2>1, <2>2, <2>3
<1>9. /\ \A q : q # r => /\ Reviewed(log', q) = Reviewed(log, q)
                         /\ Reviewed(log, q) # {} =>
                              log'[Newest(Reviewed(log', q))] = log[Newest(Reviewed(log, q))]
                         /\ \A k : Approves(log, q, k) => Approves(log', q, k)
      /\ Reviewed(log', r) # {} /\ log'[Newest(Reviewed(log', r))] = e
  <2>1. \E S : log \in Seq(S)
    BY DEF ApprovalInv, Sound, GoodLog
  <2>2. Grown(log, log', e) /\ e.kind = "review" /\ e.by = r
    BY <1>7, <1>2
  <2> QED BY <2>1, <2>2, ReviewPosted
<1>10. MintedAt(log', run.round) \subseteq MintedAt(log, run.round) \cup e.new
  BY <1>7, <1>2, GrownMinted, MintedIsNew
<1>11. Key' = Key /\ KeyOf(e) = Key
  BY <1>2, <1>3 DEF Key, KeyOf
<1>12. /\ ~Clean => ~Clean'
       /\ ~e.ok => ~Clean'
       /\ \A v \in Votes(run.todo)' : v \in Votes(run.todo)
  <2>1. run.ledger \subseteq run'.ledger /\ run.blocked \subseteq run'.blocked
    BY <1>4
  <2>2. ~Clean => ~Clean'
    BY <1>3, <1>4, <2>1 DEF Clean, Ledger
  <2>3. ~e.ok => ~Clean'
    BY <1>4 DEF Clean
  <2>4. \A v \in Votes(run.todo)' : v \in Votes(run.todo)
    BY <1>3, <1>4 DEF Votes
  <2> QED BY <2>2, <2>3, <2>4
<1>13. VotesAreHeard'
  <2>1. run.chosen \subseteq Reviewers /\ \A q \in run.appr \ run.chosen : Approves(log, q, Key)
    BY DEF ApprovalInv, RunSound, VotesAreHeard, Judging
  <2> HIDE DEF Key
  <2> QED BY <1>9, <1>11, <1>1, <1>3, <2>1 DEF VotesAreHeard, Judging
<1>14. RoundIsSettled'
  BY <1>8, <1>1, <1>3 DEF ApprovalInv, RunSound, RoundIsSettled
<1>15. ASSUME NEW q \in run'.chosen \ run'.blocked
       PROVE  /\ Reviewed(log', q) # {}
              /\ LET f == log'[Newest(Reviewed(log', q))]
                 IN  /\ f.ok /\ KeyOf(f) = Key
                     /\ f.ack \/ q \in run'.todo \/ run.demand = NoDemand \/ ~Clean'
  <2>1. CASE q = r
    <3>1. e.ok
      BY <1>15, <1>4, <2>1
    <3> QED BY <1>9, <1>11, <1>2, <2>1, <3>1
  <2>2. CASE q # r
    <3> DEFINE f == log[Newest(Reviewed(log, q))]
    <3>1. q \in run.chosen \ run.blocked
      BY <1>15, <1>3, <1>4
    <3> HIDE DEF Key
    <3>2. /\ Reviewed(log, q) # {} /\ f.ok /\ KeyOf(f) = Key
          /\ f.ack \/ q \in run.todo \/ run.demand = NoDemand \/ ~Clean
      BY <1>5, <3>1 DEF GateIsSound
    <3>3. Reviewed(log', q) # {} /\ log'[Newest(Reviewed(log', q))] = f
      BY <1>9, <2>2, <3>2
    <3>4. (q \in run.todo => q \in run'.todo) /\ (~Clean => ~Clean')
      BY <1>4, <1>12, <2>2
    <3> HIDE DEF f
    <3> QED BY <3>2, <3>3, <3>4
  <2> QED BY <2>1, <2>2
<1>16. /\ MintedAt(log, run.round) \subseteq run.ledger
       /\ \A i \in InRound(log, run.round) : i \in Overlooked(log) \/ log[i].kept \subseteq run.ledger
       /\ run.prior \subseteq run.ledger \/ InRound(log, run.round) # {}
       /\ \A item \in run.ledger : item.round \in Nat /\ item.round <= run.round
       /\ run.new \subseteq run.ledger
  BY <1>5 DEF GateIsSound
<1>17. /\ MintedAt(log', run.round) \subseteq run'.ledger
       /\ \A i \in InRound(log', run.round) : i \in Overlooked(log') \/ log'[i].kept \subseteq run'.ledger
       /\ InRound(log', run.round) # {}
       /\ \A item \in run'.ledger : item.round \in Nat /\ item.round <= run.round
       /\ run.new \subseteq run'.ledger
  <2>1. \A i \in InRound(log, run.round) : log'[i] = log[i]
    BY <1>8 DEF InRound, OfKind
  <2>2. InRound(log', run.round) = InRound(log, run.round) \cup {Len(log) + 1}
    BY <1>8, <1>2
  <2>3. \A i \in InRound(log', run.round) : i \in Overlooked(log') \/ log'[i].kept \subseteq run'.ledger
    BY <1>8, <1>16, <1>2, <1>4, <2>1, <2>2
  <2>4. run.round \in Nat
    BY <1>5, RoundOfRun
  <2>5. \A item \in e.new : item.round = run.round
    BY <1>2
  <2>6. \A item \in run'.ledger : item.round \in Nat /\ item.round <= run.round
    BY <1>16, <1>4, <2>4, <2>5
  <2> QED BY <1>10, <1>16, <1>4, <2>2, <2>3, <2>6
<1>18. GateIsSound'
  <2>1. run'.todo \cap run'.blocked = {}
    BY <1>5, <1>4 DEF GateIsSound
  <2>2. \A v \in Votes(run.todo)' :
          Sane(v) /\ v = Vote(v) /\ v.ok /\ KeyOf(v) = Key /\ v.round = run.round
    <3> SUFFICES ASSUME NEW v \in Votes(run.todo)'
                 PROVE  Sane(v) /\ v = Vote(v) /\ v.ok /\ KeyOf(v) = Key /\ v.round = run.round
      OBVIOUS
    <3>1. v \in Votes(run.todo)
      BY <1>12
    <3> HIDE DEF Key
    <3> QED BY <1>5, <3>1 DEF GateIsSound
  <2> HIDE DEF Key
  <2> QED BY <1>11, <1>15, <1>17, <1>1, <1>3, <2>1, <2>2 DEF GateIsSound
<1>19. ShortIsSound' /\ HeldIsSane'
  BY <1>1, <1>3 DEF ShortIsSound, ApprovalInv, HeldIsSane
<1> QED BY <1>5, <1>7, <1>13, <1>14, <1>18, <1>19 DEF ApprovalInv, RunSound

(* A repair answers for a reviewer that approved without acknowledging.     *)
LEMMA RepairApprovalKeepsApproval ==
  ASSUME ApprovalInv, RepairApproval
  PROVE  ApprovalInv'
<1>1. PICK v \in Votes(run.todo), how \in {"recovered", "blocking", "missing"} :
        LET item == [by |-> v.by, round |-> run.round]
            w == CASE how = "recovered" -> [v EXCEPT !.ack = TRUE]
                   [] how = "blocking" -> [v EXCEPT !.ok = FALSE, !.new = {item}]
                   [] how = "missing" -> v
        IN  /\ log' = IF how = "missing" THEN log ELSE Append(log, Review(w, TRUE))
            /\ run' = [run EXCEPT
                 !.todo = @ \ {v.by},
                 !.ledger = IF how = "blocking" THEN @ \cup {item} ELSE @,
                 !.blocked = IF how = "blocking" THEN @ \cup {v.by} ELSE @,
                 !.missing = IF how = "missing" THEN @ \cup {v.by} ELSE @]
  BY Zenon DEF RepairApproval
<1> DEFINE item == [by |-> v.by, round |-> run.round]
           ledger == IF how = "blocking" THEN run.ledger \cup {item} ELSE run.ledger
           blocked == IF how = "blocking" THEN run.blocked \cup {v.by} ELSE run.blocked
           missing == IF how = "missing" THEN run.missing \cup {v.by} ELSE run.missing
           todo == run.todo \ {v.by}
           e == Review(Repaired(v, how), TRUE)
<1>2. log' = IF how = "missing" THEN log ELSE Append(log, e)
  BY <1>1, Zenon DEF Repaired
<1>3. run' = [run EXCEPT !.todo = todo, !.ledger = ledger, !.blocked = blocked,
                         !.missing = missing]
  BY <1>1
<1>4. pc = "gate" /\ UNCHANGED <<pc, held, ended, executed>>
  BY DEF RepairApproval
<1>5. /\ PanelInv' /\ DOMAIN run = RunFields /\ v \in run.votes
      /\ v.by \in run.todo /\ run.todo \subseteq run.chosen
  BY <1>1, <1>4, RepairApprovalKeeps DEF ApprovalInv, PanelInv, RunInScope, Votes
<1>6. ~run.short
  BY <1>4, <1>5 DEF ApprovalInv, RunSound, ShortIsSound
<1>7. Sane(v) /\ v = Vote(v) /\ v.ok
  BY <1>1, <1>4 DEF ApprovalInv, RunSound, GateIsSound
<1> HIDE DEF ledger, blocked, missing, todo, e
<1>8. /\ run'.todo = todo /\ run'.ledger = ledger /\ run'.blocked = blocked
      /\ run'.missing = missing
  BY <1>3, <1>5 DEF RunFields
<1>9. /\ run'.round = run.round /\ run'.plan = run.plan /\ run'.demand = run.demand
      /\ run'.prior = run.prior /\ run'.short = run.short /\ run'.new = run.new
      /\ run'.chosen = run.chosen /\ run'.appr = run.appr /\ run'.votes = run.votes
  BY <1>3, <1>5 DEF RunFields
<1>10. CASE how = "missing"
  <2>1. /\ todo = run.todo \ {v.by} /\ ledger = run.ledger /\ blocked = run.blocked
        /\ missing = run.missing \cup {v.by} /\ log' = log
    BY <1>2, <1>10 DEF todo, ledger, blocked, missing
  <2>2. /\ run'.todo = run.todo \ {v.by} /\ run'.ledger = run.ledger
        /\ run'.blocked = run.blocked /\ run'.missing = run.missing \cup {v.by}
        /\ UNCHANGED <<log, held, pc, ended, executed>>
    BY <1>4, <1>8, <2>1
  <2> QED BY <1>4, <1>5, <1>6, <1>9, <2>2, NothingAcknowledged
<1>11. CASE how \in {"recovered", "blocking"}
  <2>1. /\ e.kind = "review" /\ e.round = run.round /\ e.plan = run.plan
        /\ e.under = run.demand /\ e.prior = run.prior /\ e.final
        /\ e.by = Repaired(v, how).by /\ e.ok = Repaired(v, how).ok
        /\ e.ack = Repaired(v, how).ack /\ e.kept = Repaired(v, how).kept
        /\ e.new = Repaired(v, how).new
    <3> DEFINE w == Repaired(v, how)
    <3>1. e = Review(w, TRUE)
      BY DEF e
    <3> HIDE DEF w
    <3>2. /\ e.kind = "review" /\ e.round = run.round /\ e.plan = run.plan
          /\ e.under = run.demand /\ e.prior = run.prior /\ e.final = TRUE
          /\ e.by = w.by /\ e.ok = w.ok /\ e.ack = w.ack /\ e.kept = w.kept /\ e.new = w.new
      BY <3>1 DEF Review, Record
    <3> QED BY <3>2 DEF w
  <2>2. /\ e.by = v.by /\ e.kept = {}
        /\ how = "recovered" => e.ok /\ e.ack /\ e.new = {}
        /\ how = "blocking" => ~e.ok /\ e.new = {[by |-> v.by, round |-> run.round]}
    BY <1>7, <1>11, <2>1, RepairedFields
  <2>3. /\ todo = run.todo \ {v.by} /\ missing = run.missing
        /\ ledger = run.ledger \cup e.new
        /\ blocked = IF e.ok THEN run.blocked ELSE run.blocked \cup {v.by}
    <3>1. CASE how = "recovered"
      BY <2>2, <3>1 DEF todo, ledger, blocked, missing
    <3>2. CASE how = "blocking"
      BY <2>2, <3>2 DEF todo, ledger, blocked, missing
    <3> QED BY <1>11, <3>1, <3>2
  <2>4. log' = Append(log, e)
    BY <1>2, <1>11
  <2>5. IF e.ok THEN e.ack /\ e.new = {} ELSE e.new = {[by |-> v.by, round |-> run.round]}
    BY <1>11, <2>2
  <2>6. RepairsWith(e, v.by)
    BY <1>4, <1>8, <1>9, <2>1, <2>2, <2>3, <2>4, <2>5 DEF RepairsWith
  <2> QED BY <1>4, <1>5, <1>6, <2>6, RepairKeepsApproval
<1> QED BY <1>10, <1>11

-----------------------------------------------------------------------------
(* The gate *)

(* What a reviewer found whose last word is an approval became an item.     *)
LEMMA FoundIsMinted ==
  ASSUME NEW L, Sound(L), NEW key, \A r \in Reviewers : Approves(L, r, key)
  PROVE  \A i \in OfKind(L, Here(L), "review") \ Overlooked(L) :
           L[i].new \subseteq MintedIn(L, Here(L))
<1> SUFFICES ASSUME NEW i \in OfKind(L, Here(L), "review") \ Overlooked(L)
             PROVE  L[i].new \subseteq MintedIn(L, Here(L))
  OBVIOUS
<1>1. i \in Here(L) /\ L[i].kind = "review" /\ L[i].by \in Reviewers
  BY DEF OfKind, Sound, Judged
<1>2. CASE L[i].ok
  BY <1>1, <1>2 DEF Sound, Judged, Sane
<1>3. CASE L[i].final
  BY <1>1, <1>3 DEF MintedIn, Minted
<1>4. CASE ~L[i].ok /\ ~L[i].final
  <2> DEFINE S == Reviewed(L, L[i].by)
             m == Newest(S)
  <2>1. i \in S /\ S \in SUBSET DOMAIN L /\ DOMAIN L \subseteq Nat
    <3>1. DOMAIN L \subseteq Nat
      BY AppendsOne DEF Sound, GoodLog, OneMore
    <3> QED BY <1>1, <3>1, ScopeOfLog DEF Sound, Reviewed, ReviewsBy, OfKind
  <2>2. m \in S /\ i <= m
    BY <2>1, NewestPlace DEF Sound, GoodLog
  <2>3. L[m].ok
    BY <1>1 DEF Approves, Binds
  <2> HIDE DEF m
  <2>4. m \in OfKind(L, Here(L), "review") /\ m \in Here(L) /\ L[m].by = L[i].by
    BY <2>2 DEF Reviewed, ReviewsBy, OfKind
  <2>5. i < m
    BY <1>4, <2>1, <2>2, <2>3
  <2>6. L[i].round <= L[m].round /\ L[i].round # L[m].round
    BY <1>1, <1>4, <2>4, <2>5 DEF Sound, Ordered, Judged, OfKind
  <2>7. L[i].round \in Nat /\ L[m].round \in Nat
    BY <1>1, <2>4, ScopeOfLog DEF Sound
  <2>8. Settled(L, L[i].round)
    BY <1>1, <2>4, <2>6, <2>7 DEF Sound, Closed
  <2>9. PICK s \in OfKind(L, Here(L), "settled") : L[s].round = L[i].round
    BY <2>8 DEF Settled
  <2>10. i \in InRound(L, L[s].round) \ Overlooked(L)
    BY <2>9 DEF InRound
  <2>11. L[i].new \subseteq L[s].new
    BY <1>4, <2>10 DEF Sound, Closed
  <2>12. s \in Here(L) /\ Minted(L[s]) = L[s].new
    BY DEF OfKind, Minted
  <2> QED BY <2>11, <2>12 DEF MintedIn
<1> QED BY <1>2, <1>3, <1>4

(* What the round started from was answered in it, when all approve.        *)
LEMMA PriorIsAnswered ==
  ASSUME NEW L, Sound(L), NEW key, \A r \in Reviewers : Approves(L, r, key),
         NEW k \in Here(L), \A i \in Here(L) : L[i].round <= L[k].round,
         InRound(L, L[k].round) # {}, NEW item \in L[k].prior
  PROVE  Answered(History(L), item)
<1>1. ASSUME NEW i \in InRound(L, L[k].round)
      PROVE  item \notin L[i].kept
  <2>1. i \in OfKind(L, Here(L), "review") /\ i \in Here(L) /\ L[i].round = L[k].round
        /\ i \in Reviewed(L, L[i].by) /\ L[i].by \in Reviewers
    BY DEF InRound, OfKind, Reviewed, ReviewsBy, Sound, Judged
  <2>2. \A j \in Reviewed(L, L[i].by) : L[j].round <= L[i].round
    BY <2>1 DEF Reviewed, ReviewsBy, OfKind
  <2>3. L[Newest(Reviewed(L, L[i].by))].ok
    BY <2>1 DEF Approves, Binds
  <2>4. L[i].ok
    BY <2>1, <2>2, <2>3, ApprovedToTheEnd DEF Sound
  <2> QED BY <2>1, <2>4 DEF Sound, Judged, Sane
<1>2. \A i \in Here(L) : item \in L[i].prior \cup Minted(L[i]) => L[i].round <= L[k].round
  OBVIOUS
<1> QED BY <1>1, <1>2, AnsweredInRound DEF Sound

(* Whoever counts at a clean gate approves this candidate.                  *)
LEMMA GateApproves ==
  ASSUME ApprovalInv, pc = "gate", run.todo = {}, Clean, Approving = Reviewers
  PROVE  \A r \in Reviewers : Approves(log, r, Key)
<1> SUFFICES ASSUME NEW r \in Reviewers PROVE Approves(log, r, Key)
  OBVIOUS
<1>1. run.blocked = {} /\ (r \in run.appr \/ r \in run.chosen)
  BY DEF Clean, Approving, Votes
<1>2. CASE r \in run.appr \ run.chosen
  BY <1>2 DEF ApprovalInv, RunSound, VotesAreHeard, Judging
<1>3. CASE r \in run.chosen
  <2> DEFINE e == log[Newest(Reviewed(log, r))]
  <2>1. /\ Reviewed(log, r) # {} /\ e.ok /\ KeyOf(e) = Key
        /\ e.ack \/ run.demand = NoDemand
    <3> HIDE DEF Key
    <3> QED BY <1>1, <1>3 DEF ApprovalInv, RunSound, GateIsSound
  <2>2. Key[2] = run.demand
    BY DEF Key
  <2> HIDE DEF Key, e
  <2>3. Binds(e, Key)
    BY <2>1, <2>2 DEF Binds
  <2> QED BY <2>1, <2>3 DEF Approves, e
<1> QED BY <1>1, <1>2, <1>3

(* The startup and the gate take the same plan for completely approved.     *)
LEMMA ShortAgrees ==
  ASSUME ApprovalInv, pc = "gate", run.short
  PROVE  Clean /\ Approving = Reviewers
<1>1. /\ Clean /\ run.appr = Reviewers /\ run.chosen \subseteq Reviewers
  BY DEF ApprovalInv, RunSound, ShortIsSound, VotesAreHeard, Judging
<1>2. {v.by : v \in Votes(run.chosen)} \subseteq run.chosen
  BY DEF Votes
<1>3. run.blocked = {}
  BY <1>1 DEF Clean
<1> QED BY <1>1, <1>2, <1>3 DEF Approving

(* At a clean gate every item is answered that the round did not start      *)
(* from, unless a review was overlooked.                                    *)
LEMMA NothingLost ==
  ASSUME ApprovalInv, pc = "gate", Clean, Overlooked(log) = {}
  PROVE  Lost(History(log), run.prior \cup Ledger \cup run.new) = {}
<1>1. Ledger = {} /\ run.ledger = {}
  BY DEF Clean, Ledger
<1>2. CASE run.short
  <2>1. Lost(History(log), run.prior \cup run.new) = {}
    BY <1>2 DEF ApprovalInv, RunSound, ShortIsSound
  <2>2. run.prior \cup Ledger \cup run.new = run.prior \cup run.new
    BY <1>1
  <2> QED BY <2>1, <2>2
<1>3. CASE ~run.short
  <2>1. PICK k \in Here(log) : log[k].round = run.round /\ log[k].prior = run.prior
    BY <1>3, RoundOfRun DEF Working
  <2>2. \A i \in Here(log) : log[i].round <= log[k].round
    BY <1>3, <2>1, RoundOfRun DEF Working
  <2>3. /\ MintedAt(log, log[k].round) \subseteq {}
        /\ \A i \in InRound(log, log[k].round) : log[i].kept \subseteq {}
        /\ log[k].prior \subseteq {} \/ InRound(log, log[k].round) # {}
    BY <1>1, <1>3, <2>1 DEF ApprovalInv, RunSound, GateIsSound
  <2>4. GoodLog(log) /\ Ordered(log) /\ Judged(log) /\ Accounted(log)
    BY DEF ApprovalInv, Sound
  <2>5. ASSUME NEW i \in Here(log), NEW item \in Minted(log[i])
        PROVE  Answered(History(log), item)
    <3>1. item \notin {}
      OBVIOUS
    <3>2. \A P : P = {} => Answered(History(log), item)
      BY <2>2, <2>3, <2>4, LeftOutIsAnswered
    <3> QED BY <3>2
  <2>6. History(log).log = log /\ History(log).here = Here(log)
    BY WhatCounts
  <2> HIDE DEF Ledger
  <2>7. \A item \in MintedIn(log, Here(log)) : Answered(History(log), item)
    BY <2>5 DEF MintedIn
  <2> QED BY <2>6, <2>7 DEF Lost
<1> QED BY <1>2, <1>3

(* A plan the gate hands to implementation is soundly approved.             *)
LEMMA ExecutedIsSound ==
  ASSUME ApprovalInv, pc = "gate", run.todo = {}, Clean, Approving = Reviewers,
         Lost(History(log), run.prior \cup Ledger \cup run.new) = {},
         demand = run.demand, UNCHANGED <<log, demand>>
  PROVE  ApprovedPlanIsSound'
<1> DEFINE h == History(log)
           plan == Newest(OfKind(log, h.here, "plan"))
           reviews == OfKind(log, h.here, "review")
<1>1. Sound(log) /\ h.log = log /\ h.here = Here(log)
  BY WhatCounts DEF ApprovalInv
<1>2. \A r \in Reviewers : Approves(log, r, Key)
  BY GateApproves
<1>3. plan = run.plan
  <2>1. /\ run.plan \in OfKind(log, Here(log), "plan")
        /\ \A p \in OfKind(log, Here(log), "plan") : p <= run.plan
    BY DEF ApprovalInv, RunSound, RunIsCurrent, Working
  <2>2. OfKind(log, Here(log), "plan") \in SUBSET Nat
    <3>1. DOMAIN log \subseteq Nat
      BY <1>1, AppendsOne DEF Sound, GoodLog, OneMore
    <3> QED BY <1>1, <3>1, ScopeOfLog DEF Sound, OfKind
  <2>3. \A S : S = OfKind(log, Here(log), "plan") => Newest(S) = run.plan
    BY <2>1, <2>2, TheNewest
  <2> QED BY <1>1, <2>3
<1>4. ASSUME NEW r \in Reviewers
      PROVE  /\ ReviewsBy(log, reviews, r) # {}
             /\ Binds(log[Newest(ReviewsBy(log, reviews, r))], <<plan, demand>>)
  <2>1. ReviewsBy(log, reviews, r) = Reviewed(log, r)
    BY <1>1 DEF ReviewsBy, Reviewed, OfKind
  <2>2. <<plan, demand>> = Key
    BY <1>3 DEF Key
  <2>3. Reviewed(log, r) # {} /\ Binds(log[Newest(Reviewed(log, r))], Key)
    <3> HIDE DEF Key
    <3> QED BY <1>2 DEF Approves
  <2> HIDE DEF reviews, plan, Key
  <2> QED BY <2>1, <2>2, <2>3
<1>5. Ledger = {}
  BY DEF Clean
<1>6. ASSUME NEW item \in MintedIn(log, h.here)
      PROVE  Answered(h, item)
  <2>1. CASE item \in run.prior \cup Ledger \cup run.new
    <3>1. CASE run.short
      <4>1. run.new = {} /\ \A x \in run.prior : Answered(h, x)
        BY <3>1 DEF ApprovalInv, RunSound, ShortIsSound
      <4> QED BY <1>5, <2>1, <4>1
    <3>2. CASE ~run.short
      <4>1. PICK k \in Here(log) : log[k].round = run.round /\ log[k].prior = run.prior
        BY <3>2, RoundOfRun DEF Working
      <4>2. \A i \in Here(log) : log[i].round <= log[k].round
        BY <3>2, <4>1, RoundOfRun DEF Working
      <4>3. run.ledger = {}
        BY <1>5 DEF Ledger
      <4>4. run.new \subseteq {} /\ (run.prior \subseteq {} \/ InRound(log, log[k].round) # {})
        BY <3>2, <4>1, <4>3 DEF ApprovalInv, RunSound, GateIsSound
      <4>5. item \in log[k].prior /\ InRound(log, log[k].round) # {}
        BY <1>5, <2>1, <4>1, <4>4
      <4>6. \A key : key = Key => Answered(h, item)
        BY <1>1, <1>2, <4>2, <4>5, PriorIsAnswered
      <4> QED BY <4>6
    <3> QED BY <3>1, <3>2
  <2>2. CASE item \notin run.prior \cup Ledger \cup run.new
    BY <1>1, <2>2 DEF Lost
  <2> QED BY <2>1, <2>2
<1>7. \A i \in reviews \ Overlooked(log) : log[i].new \subseteq MintedIn(log, h.here)
  <2>1. \A key : key = Key =>
          \A i \in OfKind(log, Here(log), "review") \ Overlooked(log) :
            log[i].new \subseteq MintedIn(log, Here(log))
    BY <1>1, <1>2, FoundIsMinted
  <2> QED BY <1>1, <2>1
<1>8. \E g \in {History(log)} :
        LET p == Newest(OfKind(log, g.here, "plan"))
            rs == OfKind(log, g.here, "review")
        IN  /\ \A r \in Reviewers :
                 /\ ReviewsBy(log, rs, r) # {}
                 /\ Binds(log[Newest(ReviewsBy(log, rs, r))], <<p, demand>>)
            /\ \A item \in MintedIn(log, g.here) : Answered(g, item)
            /\ \A i \in rs \ Overlooked(log) : log[i].new \subseteq MintedIn(log, g.here)
  BY <1>4, <1>6, <1>7, Zenon
<1> QED BY <1>8, Zenon DEF ApprovedPlanIsSound

(* A run that is over keeps nothing but the log.                            *)
LEMMA OverKeepsRest ==
  ASSUME ApprovalInv, pc' = "off", run' = NoRun, UNCHANGED <<log, held>>
  PROVE  Sound(log)' /\ HeldIsSane' /\ RunSound'
<1>1. ~run'.short
  BY DEF NoRun
<1>2. RunSound'
  BY <1>1 DEF RunSound, RunIsCurrent, VotesAreHeard, RoundIsSettled, GateIsSound,
              ShortIsSound, Working, Judging
<1> QED BY <1>2 DEF ApprovalInv, HeldIsSane

(* The first record of the next round starts from what the gate left open.  *)
LEMMA GateGoesOn ==
  ASSUME ApprovalInv, pc = "gate", ~run.short, PanelInv',
         NEW e, log' = Append(log, e), e.round = run.round + 1, e.new = {}, e.kept = {},
         \/ e.kind = "plan" /\ e.plan = Len(log) + 1
         \/ e.kind = "advance" /\ e.plan = run.plan,
         e.prior = Ledger, run' = NextRound(e.plan, Ledger),
         pc' = "round", UNCHANGED <<held, ended, executed>>
  PROVE  ApprovalInv'
<1>1. Working /\ run.round \in Nat
  BY RoundOfRun DEF Working
<1>2. Settled(log, run.round)
  BY DEF ApprovalInv, RunSound, RoundIsSettled
<1>3. /\ MintedAt(log, run.round) \subseteq run.ledger
      /\ \A i \in InRound(log, run.round) : i \in Overlooked(log) \/ log[i].kept \subseteq run.ledger
      /\ run.prior \subseteq run.ledger \/ InRound(log, run.round) # {}
      /\ \A item \in run.ledger : item.round \in Nat /\ item.round <= run.round
  BY DEF ApprovalInv, RunSound, GateIsSound
<1>4. /\ run.ledger \subseteq Ledger
      /\ \A item \in Ledger : item \in run.ledger \/ item.round = run.round
  BY DEF Ledger
<1> HIDE DEF Ledger
<1>5. /\ MintedAt(log, run.round) \subseteq e.prior
      /\ \A i \in InRound(log, run.round) : i \in Overlooked(log) \/ log[i].kept \subseteq e.prior
      /\ run.prior \subseteq e.prior \/ InRound(log, run.round) # {}
  BY <1>3, <1>4
<1>6. \A item \in e.prior : item.round \in Nat /\ item.round <= run.round
  BY <1>1, <1>3, <1>4
<1>7. /\ run'.round = run.round + 1 /\ run'.plan = e.plan /\ run'.prior = e.prior
      /\ run'.votes = {} /\ run'.chosen = {} /\ ~run'.short
  BY DEF NextRound, NoRun
<1>8. HeldIsSane'
  BY DEF ApprovalInv, HeldIsSane
<1> QED BY <1>1, <1>2, <1>5, <1>6, <1>7, <1>8, NextRoundKeepsApproval

(* The gate approves soundly, stops, or goes on in the next round.          *)
LEMMA PassGateKeepsApproval ==
  ASSUME ApprovalInv, PassGate
  PROVE  ApprovalInv'
<1>1. pc = "gate" /\ run.todo = {} /\ UNCHANGED <<demand, held>> /\ PanelInv'
  BY PassGateKeeps DEF PassGate, ApprovalInv
<1>2. ended = "none" /\ ~executed
  BY <1>1 DEF ApprovalInv, RunSound, RunIsCurrent
<1>3. CASE log' = log /\ Stop("none") /\ UNCHANGED executed
  <2>1. HeldIsSane' /\ pc # "off"
    BY <1>1 DEF ApprovalInv, HeldIsSane
  <2> QED BY <1>1, <1>3, <2>1, StopKeepsApproval
<1>4. CASE /\ Clean /\ Approving = Reviewers /\ log' = log
           /\ Lost(History(log), run.prior \cup Ledger \cup run.new) # {}
           /\ Stop("lost") /\ UNCHANGED executed
  <2>1. Sound(log)' /\ HeldIsSane' /\ RunSound'
    BY <1>1, <1>4, OverKeepsRest DEF Stop
  <2>2. Overlooked(log) # {}
    BY <1>1, <1>4, NothingLost
  <2>3. ApprovedPlanIsSound' /\ CrossChecksAgree'
    BY <1>2, <1>4, <2>2 DEF ApprovedPlanIsSound, CrossChecksAgree, Stop
  <2> QED BY <1>1, <2>1, <2>3 DEF ApprovalInv
<1>5. CASE /\ Clean /\ Approving = Reviewers /\ log' = log
           /\ Lost(History(log), run.prior \cup Ledger \cup run.new) = {}
           /\ demand = run.demand /\ Stop("none")
  <2>1. Sound(log)' /\ HeldIsSane' /\ RunSound'
    BY <1>1, <1>5, OverKeepsRest DEF Stop
  <2>2. ApprovedPlanIsSound'
    BY <1>1, <1>5, ExecutedIsSound
  <2>3. CrossChecksAgree'
    BY <1>5 DEF CrossChecksAgree, Stop
  <2> QED BY <1>1, <2>1, <2>2, <2>3 DEF ApprovalInv
<1>6. CASE ~(Clean /\ Approving = Reviewers) /\ run.short
  BY <1>1, <1>6, ShortAgrees
<1>7. CASE /\ Clean /\ ~run.short
           /\ log' = Append(log, Record("advance", run.round + 1, run.plan, run.demand))
           /\ run' = NextRound(run.plan, {}) /\ pc' = "round" /\ UNCHANGED <<ended, executed>>
  <2> DEFINE e == Record("advance", run.round + 1, run.plan, run.demand)
  <2>1. /\ e.kind = "advance" /\ e.round = run.round + 1 /\ e.plan = run.plan
        /\ e.prior = {} /\ e.new = {} /\ e.kept = {}
    BY DEF Record
  <2>2. log' = Append(log, e)
    BY <1>7
  <2> HIDE DEF e
  <2>3. Ledger = {}
    BY <1>7 DEF Clean
  <2>4. e.prior = Ledger /\ run' = NextRound(e.plan, Ledger)
    BY <1>7, <2>1, <2>3
  <2> QED BY <1>1, <1>7, <2>1, <2>2, <2>4, GateGoesOn
<1>8. ASSUME NEW narrow \in BOOLEAN, ~run.short,
             log' = Append(log, [Record("plan", run.round + 1, Len(log) + 1, run.demand) EXCEPT
                      !.prior = Ledger, !.text = run.text, !.base = run.plan, !.narrow = narrow]),
             run' = NextRound(Len(log) + 1, Ledger), pc' = "round", UNCHANGED <<ended, executed>>
      PROVE  ApprovalInv'
  <2> DEFINE e == [Record("plan", run.round + 1, Len(log) + 1, run.demand) EXCEPT
                     !.prior = Ledger, !.text = run.text, !.base = run.plan, !.narrow = narrow]
  <2> HIDE DEF Ledger
  <2>1. /\ e.kind = "plan" /\ e.round = run.round + 1 /\ e.plan = Len(log) + 1
        /\ e.prior = Ledger /\ e.new = {} /\ e.kept = {}
    BY DEF Record
  <2>2. log' = Append(log, e)
    BY <1>8
  <2> HIDE DEF e
  <2>3. run' = NextRound(e.plan, Ledger)
    BY <1>8, <2>1
  <2> QED BY <1>1, <1>8, <2>1, <2>2, <2>3, GateGoesOn
<1>9. \/ log' = log /\ Stop("none") /\ UNCHANGED executed
      \/ /\ Clean /\ Approving = Reviewers /\ log' = log
         /\ Lost(History(log), run.prior \cup Ledger \cup run.new) # {}
         /\ Stop("lost") /\ UNCHANGED executed
      \/ /\ Clean /\ Approving = Reviewers /\ log' = log
         /\ Lost(History(log), run.prior \cup Ledger \cup run.new) = {}
         /\ demand = run.demand /\ Stop("none")
      \/ ~(Clean /\ Approving = Reviewers) /\ run.short
      \/ /\ Clean /\ ~run.short
         /\ log' = Append(log, Record("advance", run.round + 1, run.plan, run.demand))
         /\ run' = NextRound(run.plan, {}) /\ pc' = "round" /\ UNCHANGED <<ended, executed>>
      \/ /\ ~run.short
         /\ \E narrow \in BOOLEAN :
              log' = Append(log, [Record("plan", run.round + 1, Len(log) + 1, run.demand) EXCEPT
                       !.prior = Ledger, !.text = run.text, !.base = run.plan, !.narrow = narrow])
         /\ run' = NextRound(Len(log) + 1, Ledger)
         /\ pc' = "round" /\ UNCHANGED <<ended, executed>>
  BY Zenon DEF PassGate
<1> QED BY <1>3, <1>4, <1>5, <1>6, <1>7, <1>8, <1>9, Zenon

-----------------------------------------------------------------------------
(* The theorems of the approval *)

(* Every step keeps what an approval rests on.                              *)
LEMMA ApprovalStep ==
  ASSUME Primary \in Reviewers, ApprovalInv, [Next]_vars
  PROVE  ApprovalInv'
<1>1. CASE UNCHANGED vars
  <2>1. UNCHANGED <<demand, log, held, pc, run, ended, executed>>
    BY <1>1 DEF vars
  <2>2. PanelInv' /\ Sound(log)' /\ HeldIsSane'
    BY <1>1, <2>1, PanelStep DEF ApprovalInv, HeldIsSane
  <2>3. RunIsCurrent' /\ RoundIsSettled'
    BY <2>1 DEF ApprovalInv, RunSound, RunIsCurrent, RoundIsSettled, Working, Pending
  <2>4. VotesAreHeard'
    BY <2>1 DEF ApprovalInv, RunSound, VotesAreHeard, Judging, Key
  <2>5. GateIsSound'
    BY <2>1 DEF ApprovalInv, RunSound, GateIsSound, Key, Votes, Clean, Ledger
  <2>6. ShortIsSound'
    BY <2>1 DEF ApprovalInv, RunSound, ShortIsSound, Key, Clean, Ledger
  <2>7. ApprovedPlanIsSound' /\ CrossChecksAgree'
    BY <2>1 DEF ApprovalInv, ApprovedPlanIsSound, CrossChecksAgree
  <2> QED BY <2>2, <2>3, <2>4, <2>5, <2>6, <2>7 DEF ApprovalInv, RunSound
<1>2. CASE Next
  BY <1>2, OutsideKeepsApproval, StartKeepsApproval, PostFreshPlanKeepsApproval,
     PrepareRoundKeepsApproval, LaunchReviewersKeepsApproval, PublishReviewKeepsApproval,
     SettleRoundKeepsApproval, ReadOutcomeKeepsApproval, RepairApprovalKeepsApproval,
     PassGateKeepsApproval DEF Next
<1> QED BY <1>1, <1>2

(* The plan handed to implementation is approved by every reviewer's last   *)
(* word, under the requirements signed now, with every item answered, for   *)
(* any board its primary belongs to and any number of rounds, runs,         *)
(* restarts, edits and changes (the final gate of plan_first_loop.py).      *)
THEOREM PlanApprovalSound == Primary \in Reviewers => (Spec => []ApprovedPlanIsSound)
<1> SUFFICES ASSUME Primary \in Reviewers PROVE Spec => []ApprovedPlanIsSound
  OBVIOUS
<1>1. Init => ApprovalInv
  BY InitApprovalInv
<1>2. ApprovalInv /\ [Next]_vars => ApprovalInv'
  BY ApprovalStep
<1>3. ApprovalInv => ApprovedPlanIsSound
  BY DEF ApprovalInv
<1> QED BY <1>1, <1>2, <1>3, PTL DEF Spec

(* Neither cross-check of the approval ever fires on its own: the startup   *)
(* and the gate agree, and an item is lost only where a review was          *)
(* overlooked.                                                              *)
THEOREM PlanCrossChecks == Primary \in Reviewers => (Spec => []CrossChecksAgree)
<1> SUFFICES ASSUME Primary \in Reviewers PROVE Spec => []CrossChecksAgree
  OBVIOUS
<1>1. Init => ApprovalInv
  BY InitApprovalInv
<1>2. ApprovalInv /\ [Next]_vars => ApprovalInv'
  BY ApprovalStep
<1>3. ApprovalInv => CrossChecksAgree
  BY DEF ApprovalInv
<1> QED BY <1>1, <1>2, <1>3, PTL DEF Spec

=============================================================================
