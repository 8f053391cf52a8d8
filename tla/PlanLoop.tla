------------------------------ MODULE PlanLoop ------------------------------
(***************************************************************************)
(* The planning loop of an issue under primary-then-panel                  *)
(* (plan_first_loop.py, plan_review_scheduling.py, panel_evidence.py,      *)
(* plan_round_closure.py, plan_issue_scope.py, approved_plan_resume.py).   *)
(*                                                                         *)
(* Everything a restarted run knows is in the comments of the issue: the   *)
(* log, a sequence of records, and the private spool of the round's        *)
(* answers (held).  Humans change the signed requirements of the issue     *)
(* (demand) and its text while runs come and go.                           *)
(*                                                                         *)
(* A plan is the position of its record in the log.  The key of a          *)
(* candidate is the plan and the demand it is judged under; the findings   *)
(* of one reviewer in one round count as one item.  Publication models     *)
(* how the comments of one round get posted.                               *)
(***************************************************************************)
EXTENDS Integers, Sequences, FiniteSets

CONSTANTS
  Reviewers,   \* the plan board
  Primary,     \* its primary reviewer
  Demands,     \* sets of signed requirements, NoDemand among them
  MaxRounds,   \* --max-rounds
  MaxRuns,     \* bound on the runs started
  MaxChanges,  \* bound on the changes of the requirements
  MaxEdits     \* bound on the edits of the issue text

NoDemand == "none"
Orchestrator == "Orchestrator"
Secondaries == Reviewers \ {Primary}

VARIABLES
  demand,    \* the signed requirements now
  changes,   \* how often they changed
  text,      \* the version of the issue text
  log,       \* plan records of the issue, in comment order
  held,      \* answers in the spool, one per reviewer
  runs,      \* runs started
  pc,        \* where the current run is, "off" when there is none
  run,       \* its locals
  ended,     \* how the last run stopped, when one of its cross-checks did it
  executed   \* the plan was approved and handed to implementation

vars == <<demand, changes, text, log, held, runs, pc, run, ended, executed>>

NoKey == <<0, NoDemand>>

(* One record.  kept and new are what a review leaves open of the prior     *)
(* items and what it finds; a final review is one posted after a repair.    *)
Record(kind, n, plan, d) ==
  [kind |-> kind, round |-> n, plan |-> plan, under |-> d, by |-> Orchestrator,
   ok |-> FALSE, ack |-> FALSE, final |-> FALSE, kept |-> {}, new |-> {}, prior |-> {},
   chosen |-> {}, appr |-> {}, phase |-> "none", force |-> FALSE, prev |-> NoKey,
   text |-> 0, base |-> 0, narrow |-> FALSE]

KeyOf(e) == <<e.plan, e.under>>
Newest(S) == CHOOSE i \in S : \A j \in S : j <= i
Earlier(S, i) == {j \in S : j < i}
Later(S, i) == {j \in S : j > i}
OfKind(L, S, kind) == {i \in S : L[i].kind = kind}
SameRound(L, S, i) == {j \in S : L[j].plan = L[i].plan /\ L[j].round = L[i].round}
ReviewsBy(L, S, r) == {i \in OfKind(L, S, "review") : L[i].by = r}

-----------------------------------------------------------------------------
(* The planning scope and the projected history *)

(* resolve_plan_scope, plan_history_records: an edited issue starts over at *)
(* the round of its boundary, records of earlier rounds are archived.       *)
Boundaries(L) == OfKind(L, DOMAIN L, "scope")
ScopeStart(L) == IF Boundaries(L) = {} THEN 1 ELSE L[Newest(Boundaries(L))].round
Here(L) == {i \in DOMAIN L \ Boundaries(L) : L[i].round >= ScopeStart(L)}
RoundLimit(L) == ScopeStart(L) + MaxRounds - 1

(* project_plan_history: a checkpoint posted after its round was settled    *)
(* counts for nothing until a review of the round follows it.               *)
Idle(L, here) ==
  {i \in OfKind(L, here, "prelaunch") :
     /\ OfKind(L, Earlier(SameRound(L, here, i), i), "settled") # {}
     /\ OfKind(L, Later(SameRound(L, here, i), i), "review") = {}}

(* _derive_plan_panel_evidence *)
Openings(L, live) ==
  {i \in OfKind(L, live, "prelaunch") :
     /\ L[i].phase = "secondary-audit" /\ Primary \in L[i].appr
     /\ \E j \in Earlier(ReviewsBy(L, live, Primary), i) :
          L[j].ok /\ KeyOf(L[j]) = KeyOf(L[i])}

(* What a run reads off the records: those of the scope, those that count,  *)
(* and the checkpoints that opened the panel.                               *)
History(L) ==
  LET live == Here(L) \ Idle(L, Here(L))
  IN  [log |-> L, here |-> Here(L), live |-> live, idle |-> Idle(L, Here(L)),
       openings |-> Openings(L, live)]

Opened(h) == h.openings # {}
PastOpening(h, i) == Earlier(h.openings, i) # {}
PanelLatched(h) ==
  \E i \in OfKind(h.log, h.live, "prelaunch") : h.log[i].force /\ PastOpening(h, i)

Contradicts(prev, key) == prev # NoKey /\ prev[1] = key[1] /\ prev # key

(* A later checkpoint that re-selects the reviewer from scratch.            *)
Retracted(h, i) ==
  \E k \in Later(OfKind(h.log, h.live, "prelaunch"), i) :
    /\ h.log[i].by \in h.log[k].chosen /\ h.log[i].round < h.log[k].round
    /\ h.log[k].force \/ Contradicts(h.log[k].prev, KeyOf(h.log[k]))

Binds(e, key) == e.ok /\ KeyOf(e) = key /\ (key[2] # NoDemand => e.ack)

(* The reviews of a reviewer that count: a secondary's only after the       *)
(* opening of the panel.                                                    *)
Counted(h, r) ==
  {i \in ReviewsBy(h.log, h.live, r) : r = Primary \/ PastOpening(h, i)}

(* Mutant of Carried: an approval of the plan is carried whatever it was    *)
(* judged under.                                                            *)
CarriedByPlan(h, key) ==
  {r \in Reviewers : \E i \in Counted(h, r) :
     /\ Later(Counted(h, r), i) = {}
     /\ h.log[i].ok /\ h.log[i].plan = key[1] /\ ~Retracted(h, i)}

(* _carried_plan_approvals: the latest review of a reviewer approves this   *)
(* very key.                                                                *)
Carried(h, key) ==
  {r \in Reviewers : \E i \in Counted(h, r) :
     Later(Counted(h, r), i) = {} /\ Binds(h.log[i], key) /\ ~Retracted(h, i)}

(* _classify_staged_plan_history: the key of the latest checkpoint, or of   *)
(* an idle one after it that names this plan under another demand.          *)
PreviousKey(h, key) ==
  LET marks == OfKind(h.log, h.live, "prelaunch")
      last == IF marks = {} THEN 0 ELSE Newest(marks)
      idle == {i \in Later(h.idle, last) : Contradicts(KeyOf(h.log[i]), key)}
  IN  CASE idle # {} -> KeyOf(h.log[Newest(idle)])
        [] idle = {} /\ marks # {} -> KeyOf(h.log[last])
        [] idle = {} /\ marks = {} -> NoKey
Degraded(h, key) == Contradicts(PreviousKey(h, key), key)

-----------------------------------------------------------------------------
(* Resuming a round, and what history says of an item *)

(* A finding becomes an item when its round is settled, or by a repair.     *)
Minted(e) == IF e.kind = "settled" \/ e.final THEN e.new ELSE {}
MintedIn(L, S) == UNION {Minted(L[i]) : i \in S}

(* _apply_unresolved_item_dispositions: what some review keeps stays.       *)
Apply(prior, votes) == IF votes = {} THEN prior ELSE UNION {v.kept : v \in votes}

(* _canonically_resolved_history_item_ids: the round that mentions the item *)
(* last answers it.                                                         *)
Answered(h, item) ==
  LET mentions == {i \in h.here : item \in h.log[i].prior \cup Minted(h.log[i])}
      round == SameRound(h.log, h.here, Newest(mentions))
      judges == {i \in OfKind(h.log, round, "review") : item \in h.log[i].prior}
  IN  /\ item \notin MintedIn(h.log, round)
      /\ judges # {} /\ \A i \in judges : item \notin h.log[i].kept

(* Mutant of Lost: nobody asks whether the item was answered.               *)
LostIfGone(h, ledger) == MintedIn(h.log, h.here) \ ledger

(* plan_ledger_unreconstructible_items *)
Lost(h, ledger) == {item \in MintedIn(h.log, h.here) \ ledger : ~Answered(h, item)}

(* _resume_plan_round: the round of the newest record of the newest plan,   *)
(* its settlement owning the ledger, with the latest review of each.        *)
RoundAt(h, plan, anchor) ==
  LET now == {i \in SameRound(h.log, h.live, anchor) :
                \/ h.log[i].prior = h.log[anchor].prior
                \/ h.log[i].kind = "review" /\ i > anchor}
  IN  [plan |-> plan, round |-> h.log[anchor].round, prior |-> h.log[anchor].prior,
       settled |-> OfKind(h.log, now, "settled") # {}, minted |-> MintedIn(h.log, now),
       reviews |-> {h.log[i] : i \in {j \in OfKind(h.log, now, "review") :
                      Later(ReviewsBy(h.log, now, h.log[j].by), j) = {}}}]
Resumed(h) ==
  LET plan == Newest(OfKind(h.log, h.live, "plan"))
      own == {i \in h.live : h.log[i].plan = plan}
      closing == OfKind(h.log, SameRound(h.log, own, Newest(own)), "settled")
  IN  RoundAt(h, plan, IF closing = {} THEN Newest(own) ELSE Newest(closing))

Planned(h) == OfKind(h.log, h.live, "plan") # {}

(* _require_complete_canonical_plan_approval *)
Complete(h, R, key) ==
  /\ Apply(R.prior, R.reviews) \cup (R.minted \ R.prior) = {}
  /\ ~Degraded(h, key)
  /\ Carried(h, key) = Reviewers

(* approved_plan_resume_view: an unused advance does not hide the round     *)
(* before it, when that one was completely approved.                        *)
Unused(h, i, d) ==
  /\ h.log[i].kind = "advance" /\ h.log[i].under \in {d, "unkeyed"} /\ h.log[i].prior = {}
  /\ \E j \in h.live :
       /\ Later(h.live, j) = {i} /\ h.log[j].kind = "settled"
       /\ h.log[j].plan = h.log[i].plan /\ h.log[i].round = h.log[j].round + 1
Views(h, d) ==
  LET last == Newest(h.live)
      before == {P \in {Resumed(History(SubSeq(h.log, 1, last - 1)))} :
                   P.settled /\ Complete(h, P, <<P.plan, d>>)}
  IN  IF Unused(h, last, d) /\ before # {} THEN before ELSE {Resumed(h)}

(* classify_plan_approval: what a completely approved plan is resumed with. *)
Approvals(h, d) ==
  {R \in IF Planned(h) THEN Views(h, d) ELSE {} :
     /\ Complete(h, R, <<R.plan, d>>)
     /\ Lost(h, R.prior \cup R.minted) = {}
     /\ d # NoDemand => h.log[R.plan].under = d}

(* plan_scope_decision: the text the plan, or the scope, was written for.   *)
Edited(h, version) ==
  IF Planned(h) THEN h.log[Newest(OfKind(h.log, h.live, "plan"))].text # version
  ELSE \E i \in Boundaries(h.log) :
         Later(Boundaries(h.log), i) = {} /\ h.log[i].text # version

-----------------------------------------------------------------------------
(* select_plan_reviewers *)

Decision(phase, chosen, latch) == [phase |-> phase, chosen |-> chosen, latch |-> latch]
FullBoard == Decision("full-board", Reviewers, TRUE)
Owners(items) == {item.by : item \in items} \cap Reviewers

(* classify_plan_transition: an unchanged key is rechecked, an authentic    *)
(* patch of the plan judged before is narrow.                               *)
Broad(h, key) ==
  LET prev == PreviousKey(h, key)
  IN  ~(prev = key \/ (prev # NoKey /\ h.log[key[1]].narrow /\ h.log[key[1]].base = prev[1]))

PrePanel(h, key, appr) ==
  IF Primary \in appr /\ ~Degraded(h, key)
  THEN Decision("secondary-audit", Secondaries, FALSE)
  ELSE Decision("primary", {Primary}, FALSE)

PostPanel(h, key, prior, appr, latch) ==
  LET full == latch \/ Degraded(h, key) \/ Broad(h, key)
  IN  CASE full -> FullBoard
        [] ~full /\ prior # {}
             -> Decision("remediation", (Owners(prior) \cup {Primary}) \ appr, FALSE)
        [] ~full /\ prior = {} /\ Primary \notin appr
             -> Decision("remediation", {Primary}, FALSE)
        [] ~full /\ prior = {} /\ Primary \in appr
             -> Decision("final-secondary-sweep", Reviewers \ appr, FALSE)

(* Mutant of SelectPlanReviewers: nobody asks whether the panel was opened. *)
SelectAsIfOpened(h, key, prior, appr, latch) == PostPanel(h, key, prior, appr, latch)

SelectPlanReviewers(h, key, prior, appr, latch) ==
  IF Opened(h) THEN PostPanel(h, key, prior, appr, latch) ELSE PrePanel(h, key, appr)

(* visible_peer_names: whose review of this round a reviewer could read,    *)
(* the approval of the primary that lets the panel in excepted.             *)
Visible(h, plan, n) ==
  LET round == {i \in h.here : h.log[i].plan = plan /\ h.log[i].round = n}
      mark == Newest(OfKind(h.log, round, "prelaunch"))
      gate == {i \in ReviewsBy(h.log, round, Primary) :
                 /\ h.log[i].ok /\ i < mark /\ Opened(h)
                 /\ h.log[mark].phase \in {"secondary-audit", "final-secondary-sweep"}
                 /\ Primary \notin h.log[mark].chosen}
  IN  {h.log[i].by : i \in {j \in OfKind(h.log, round, "review") \ gate : ~h.log[j].final}}

-----------------------------------------------------------------------------
(* One run *)

(* A vote is what the loop keeps of a review: also the answer in the spool. *)
Vote(e) == [by |-> e.by, round |-> e.round, plan |-> e.plan, under |-> e.under,
            ok |-> e.ok, ack |-> e.ack, kept |-> e.kept, new |-> e.new]

NoRun == [round |-> 0, plan |-> 0, demand |-> NoDemand, text |-> 0, prior |-> {},
          new |-> {}, settled |-> FALSE, votes |-> {}, chosen |-> {}, appr |-> {},
          latch |-> FALSE, resumed |-> FALSE, short |-> FALSE, ledger |-> {},
          blocked |-> {}, todo |-> {}, missing |-> {}]

Votes(S) == {v \in run.votes : v.by \in S}
Names(votes) == {v.by : v \in votes}
Key == <<run.plan, run.demand>>

Init ==
  /\ demand \in Demands /\ changes = 0 /\ text = 0 /\ log = <<>> /\ held = {}
  /\ runs = 0 /\ pc = "off" /\ run = NoRun /\ ended = "none" /\ executed = FALSE

(* People post and withdraw signed requirements, and edit the issue.        *)
ChangeDemand ==
  /\ ~executed /\ changes < MaxChanges
  /\ demand' \in Demands \ {demand}
  /\ changes' = changes + 1
  /\ UNCHANGED <<text, log, held, runs, pc, run, ended, executed>>

EditText ==
  /\ ~executed /\ text < MaxEdits
  /\ text' = text + 1
  /\ UNCHANGED <<demand, changes, log, held, runs, pc, run, ended, executed>>

(* The run fails or is killed; its records and its spool stay.              *)
Stop(how) == pc' = "off" /\ run' = NoRun /\ ended' = how
Crash ==
  /\ pc # "off" /\ Stop("none")
  /\ UNCHANGED <<demand, changes, text, log, held, runs, executed>>

Begin(R) == [NoRun EXCEPT !.round = R.round, !.plan = R.plan, !.demand = demand,
                          !.text = text, !.prior = R.prior, !.resumed = TRUE]

(* The startup of _run_plan_first_loop: an edited issue opens a new scope,  *)
(* a completely approved plan goes straight to its outcome, any other is    *)
(* resumed in its round.                                                    *)
Start ==
  /\ pc = "off" /\ ~executed /\ runs < MaxRuns
  /\ runs' = runs + 1 /\ ended' = "none"
  /\ \E h \in {History(log)} : \E done \in {Approvals(h, demand)} :
       LET fresh(n) == [NoRun EXCEPT !.round = n, !.demand = demand, !.text = text]
           next == Newest({log[i].round : i \in DOMAIN log \ Boundaries(log)}
                            \cup {ScopeStart(log) - 1, 1}) + 1
       IN  \/ /\ done = {} /\ Edited(h, text)
              /\ log' = Append(log, [Record("scope", next, 0, NoDemand) EXCEPT !.text = text])
              /\ run' = fresh(next) /\ pc' = "plan"
           \/ /\ done = {} /\ ~Edited(h, text) /\ ~Planned(h)
              /\ run' = fresh(ScopeStart(log)) /\ pc' = "plan" /\ UNCHANGED log
           \/ /\ done = {} /\ ~Edited(h, text) /\ Planned(h)
              /\ run' = Begin(Resumed(h)) /\ pc' = "round" /\ UNCHANGED log
           \/ \E R \in done :
                /\ LET votes == {Vote(e) : e \in R.reviews}
                   IN  run' = [Begin(R) EXCEPT
                                 !.votes = votes, !.chosen = Names(votes), !.short = TRUE,
                                 !.new = R.minted, !.settled = R.settled,
                                 !.appr = Carried(h, <<R.plan, demand>>)]
                /\ pc' = "outcome" /\ UNCHANGED log
  /\ UNCHANGED <<demand, changes, text, held, executed>>

(* The planner writes the first plan of the scope.                          *)
PostFreshPlan ==
  /\ pc = "plan"
  /\ log' = Append(log, [Record("plan", run.round, Len(log) + 1, run.demand)
                           EXCEPT !.text = run.text])
  /\ run' = [run EXCEPT !.plan = Len(log) + 1]
  /\ pc' = "round"
  /\ UNCHANGED <<demand, changes, text, held, runs, ended, executed>>

(* The scheduling of one round.  A settled round is never reviewed again:   *)
(* when the scheduler still wants a review of it, its ledger rolls over to  *)
(* a reviewer-only round; else the checkpoint is posted.  A resumed         *)
(* approval under another key does not count.                               *)
PrepareRound ==
  /\ pc = "round"
  /\ \E h \in {History(log)} :
     \E appr \in {IF Degraded(h, Key) THEN {} ELSE Carried(h, Key)},
        latch \in {run.latch \/ (Opened(h) /\ PanelLatched(h))},
        R \in {IF run.resumed THEN Resumed(h)
               ELSE [settled |-> FALSE, reviews |-> {}, minted |-> {}, prior |-> run.prior]} :
     \E D \in {SelectPlanReviewers(h, Key, run.prior, appr, latch)} :
       LET stale(e) == e.ok /\ (Degraded(h, Key) \/ KeyOf(e) # Key)
           votes == {Vote(e) : e \in {f \in R.reviews : ~stale(f)}}
           over == R.settled /\ ~(D.chosen \subseteq Names(votes))
           rest == Apply(R.prior, R.reviews) \cup R.minted
       IN  \/ /\ over /\ run.round >= RoundLimit(log)
              /\ Stop("none") /\ UNCHANGED log
           \/ /\ over /\ run.round < RoundLimit(log)
              /\ log' = Append(log, [Record("advance", run.round + 1, run.plan, "unkeyed")
                                       EXCEPT !.prior = rest])
              /\ run' = [run EXCEPT !.round = @ + 1, !.prior = rest, !.resumed = FALSE]
              /\ UNCHANGED <<pc, ended>>
           \/ /\ ~over
              /\ log' = Append(log, [Record("prelaunch", run.round, run.plan, run.demand)
                   EXCEPT !.prior = run.prior, !.chosen = D.chosen, !.appr = appr,
                          !.phase = D.phase, !.force = latch \/ D.latch,
                          !.prev = PreviousKey(h, Key)])
              /\ run' = [run EXCEPT !.votes = votes, !.settled = R.settled, !.appr = appr,
                   !.new = IF R.settled THEN R.minted ELSE {}, !.chosen = D.chosen,
                   !.latch = latch \/ D.latch]
              /\ pc' = "launch" /\ UNCHANGED ended
  /\ UNCHANGED <<demand, changes, text, held, runs, executed>>

Pending == run.chosen \ Names(run.votes)
InContext(v) == v.round = run.round /\ v.plan = run.plan /\ v.under = run.demand
Held(r) == {v \in held : v.by = r /\ InContext(v)}

(* The answers a reviewer may give: an approval keeps nothing open, a       *)
(* blocking review finds something or keeps the items it was shown.         *)
Answers(r) ==
  {v \in [by : {r}, round : {run.round}, plan : {run.plan}, under : {run.demand},
          ok : BOOLEAN, ack : BOOLEAN, kept : {{}, run.prior},
          new : {{}, {[by |-> r, round |-> run.round]}}] :
     /\ v.ok <=> v.kept = {} /\ v.new = {}
     /\ v.ack => v.ok /\ run.demand # NoDemand}

(* _launch_reviewer_turns: answers of the spool are replayed, the others    *)
(* asked for at once, unless a peer's review of the round is public.  If a  *)
(* reviewer fails, nothing is published and the run ends.                   *)
LaunchReviewers ==
  LET asked == {r \in Pending : Held(r) = {}}
  IN  /\ pc = "launch"
      /\ \E seen \in {Visible(History(log), run.plan, run.round)} :
         \/ /\ \E r \in asked : seen \ {r} # {}
            /\ Stop("none") /\ UNCHANGED held
         \/ /\ \A r \in asked : seen \ {r} = {}
            /\ \E failed \in SUBSET asked :
               \E given \in [asked \ failed -> UNION {Answers(r) : r \in asked}] :
                 /\ \A r \in asked \ failed : given[r] \in Answers(r)
                 /\ held' = {v \in held : v.by \notin asked \ failed}
                              \cup {given[r] : r \in asked \ failed}
                 /\ IF failed = {} THEN pc' = "publish" /\ UNCHANGED <<run, ended>>
                    ELSE Stop("none")
      /\ UNCHANGED <<demand, changes, text, log, runs, executed>>

Review(v, final) ==
  [Record("review", run.round, run.plan, run.demand) EXCEPT
     !.by = v.by, !.ok = v.ok, !.ack = v.ack, !.kept = v.kept, !.new = v.new,
     !.prior = run.prior, !.final = final]

(* Reviews are posted one by one, before any of their findings is an item.  *)
PublishReview ==
  /\ pc = "publish"
  /\ \E r \in Pending : \E v \in Held(r) :
       /\ log' = Append(log, Review(v, FALSE))
       /\ run' = [run EXCEPT !.votes = @ \cup {v}]
  /\ UNCHANGED <<demand, changes, text, held, runs, pc, ended, executed>>

(* All reviews are public: the reconciliation record settles the round,     *)
(* once, and its items are minted.                                          *)
SettleRound ==
  /\ pc = "publish" /\ Pending = {}
  /\ LET new == IF run.settled THEN run.new ELSE UNION {v.new : v \in Votes(run.chosen)}
     IN  /\ run' = [run EXCEPT !.new = new]
         /\ log' = IF run.settled THEN log
                   ELSE Append(log, [Record("settled", run.round, run.plan, "unkeyed")
                                       EXCEPT !.prior = run.prior, !.new = new])
  /\ held' = {} /\ pc' = "outcome"
  /\ UNCHANGED <<demand, changes, text, runs, ended, executed>>

(* The reviews are in: their dispositions settle the prior items, those of  *)
(* the reviewers that pause on an approval given in this round included.    *)
(* A unanimous approval then needs the signed requirements acknowledged.    *)
ReadOutcome ==
  LET mine == Votes(run.chosen)
      paused == {v \in Votes(run.appr \ run.chosen) : v.ok}
      ledger == Apply(run.prior, mine \cup paused) \cup run.new
      blocked == {v.by : v \in {w \in mine : ~w.ok}}
      asks == ledger = {} /\ blocked = {} /\ run.demand # NoDemand /\ mine # {}
      unaware == log[run.plan].under # run.demand
  IN  /\ pc = "outcome"
      /\ run' = [run EXCEPT
           !.ledger = ledger, !.blocked = blocked,
           !.todo = IF asks THEN {v.by : v \in {w \in mine : ~w.ack}} ELSE {},
           !.missing = IF asks /\ unaware THEN {Orchestrator} ELSE {}]
      /\ pc' = "gate"
      /\ UNCHANGED <<demand, changes, text, log, held, runs, ended, executed>>

(* One acknowledgement repair: the reviewer acknowledges, turns to          *)
(* blocking, or neither.  The first two supersede its record.               *)
RepairApproval ==
  /\ pc = "gate"
  /\ \E v \in Votes(run.todo), how \in {"recovered", "blocking", "missing"} :
       LET item == [by |-> v.by, round |-> run.round]
           w == CASE how = "recovered" -> [v EXCEPT !.ack = TRUE]
                  [] how = "blocking" -> [v EXCEPT !.ok = FALSE, !.new = {item}]
                  [] how = "missing" -> v
       IN  /\ log' = IF how = "missing" THEN log ELSE Append(log, Review(w, TRUE))
           /\ run' = [run EXCEPT
                !.todo = @ \ {v.by},
                !.ledger = IF how = "blocking" THEN @ \cup {item} ELSE @,
                !.blocked = IF how = "blocking" THEN @ \cup {v.by} ELSE @,
                !.missing = IF how = "missing" THEN @ \cup {v.by} ELSE @]
  /\ UNCHANGED <<demand, changes, text, held, runs, pc, ended, executed>>

(* A missing acknowledgement blocks the plan in the name of the             *)
(* orchestrator.                                                            *)
Ledger == run.ledger \cup (IF run.missing = {} THEN {}
                           ELSE {[by |-> Orchestrator, round |-> run.round]})
Clean == Ledger = {} /\ run.blocked = {}
Approving == (run.appr \cup {v.by : v \in Votes(run.chosen)}) \ run.blocked

NextRound(plan, prior) ==
  [NoRun EXCEPT !.round = run.round + 1, !.plan = plan, !.demand = run.demand,
                !.text = run.text, !.prior = prior, !.latch = run.latch]

(* The gate: a clean round with every approval executes, unless an          *)
(* obligation of history is lost or the requirements changed meanwhile; a   *)
(* clean round without them advances to a reviewer-only round; any other    *)
(* goes back to the planner.                                                *)
PassGate ==
  /\ pc = "gate" /\ run.todo = {}
  /\ \/ /\ Clean /\ Approving = Reviewers
        /\ \E lost \in {Lost(History(log), run.prior \cup Ledger \cup run.new)} :
             \/ lost # {} /\ Stop("lost") /\ UNCHANGED executed
             \/ lost = {} /\ demand # run.demand /\ Stop("none") /\ UNCHANGED executed
             \/ lost = {} /\ demand = run.demand /\ Stop("none") /\ executed' = TRUE
        /\ UNCHANGED log
     \/ /\ ~(Clean /\ Approving = Reviewers) /\ run.short
        /\ Stop("disagreement") /\ UNCHANGED <<log, executed>>
     \/ /\ ~(Clean /\ Approving = Reviewers) /\ ~run.short /\ run.round >= RoundLimit(log)
        /\ Stop("none") /\ UNCHANGED <<log, executed>>
     \/ /\ ~run.short /\ run.round < RoundLimit(log) /\ Clean /\ Approving # Reviewers
        /\ log' = Append(log, Record("advance", run.round + 1, run.plan, run.demand))
        /\ run' = NextRound(run.plan, {})
        /\ pc' = "round" /\ UNCHANGED <<ended, executed>>
     \/ /\ ~run.short /\ run.round < RoundLimit(log) /\ ~Clean
        /\ \E narrow \in BOOLEAN :
             log' = Append(log, [Record("plan", run.round + 1, Len(log) + 1, run.demand) EXCEPT
                      !.prior = Ledger, !.text = run.text, !.base = run.plan, !.narrow = narrow])
        /\ run' = NextRound(Len(log) + 1, Ledger)
        /\ pc' = "round" /\ UNCHANGED <<ended, executed>>
  /\ UNCHANGED <<demand, changes, text, held, runs>>

Next ==
  \/ ChangeDemand \/ EditText \/ Crash \/ Start \/ PostFreshPlan \/ PrepareRound
  \/ LaunchReviewers \/ PublishReview \/ SettleRound \/ ReadOutcome \/ RepairApproval
  \/ PassGate

Spec == Init /\ [][Next]_vars

-----------------------------------------------------------------------------
(* Properties *)

TypeOK ==
  /\ demand \in Demands /\ changes \in 0 .. MaxChanges /\ text \in 0 .. MaxEdits
  /\ runs \in 0 .. MaxRuns /\ ended \in {"none", "lost", "disagreement"}
  /\ pc \in {"off", "plan", "round", "launch", "publish", "outcome", "gate"}
  /\ executed \in BOOLEAN

(* A blocking review whose round was scheduled again without its reviewer:  *)
(* nothing of it is read when the round is settled.                         *)
Overlooked(L) ==
  {i \in OfKind(L, Here(L), "review") :
     /\ ~L[i].ok
     /\ \E m \in Later(OfKind(L, SameRound(L, Here(L), i), "prelaunch"), i) :
          L[i].by \notin L[m].chosen}

(* What is handed to implementation is the newest plan of the scope, every  *)
(* reviewer's last word on it is an approval of exactly this plan under the *)
(* requirements signed now and acknowledges them, every item has been       *)
(* answered, and no finding of a review that was read failed to become one  *)
(* (the final gate of plan_first_loop.py and _execute_approved_plan).       *)
ApprovedPlanIsSound ==
  executed => \E h \in {History(log)} :
    LET plan == Newest(OfKind(log, h.here, "plan"))
        reviews == OfKind(log, h.here, "review")
    IN  /\ \A r \in Reviewers :
             /\ ReviewsBy(log, reviews, r) # {}
             /\ Binds(log[Newest(ReviewsBy(log, reviews, r))], <<plan, demand>>)
        /\ \A item \in MintedIn(log, h.here) : Answered(h, item)
        /\ \A i \in reviews \ Overlooked(log) : log[i].new \subseteq MintedIn(log, h.here)

(* No finding that a review published is approved over: "an obligation      *)
(* history published but neither carried nor provably cleared fails closed  *)
(* instead of being approved over" (plan_execution.py:664).  A round that   *)
(* opens the panel while it still carries an item of the primary is         *)
(* rescheduled by a restart as a remediation of that item, without the      *)
(* secondaries whose reviews of it are public (plan_first_loop.py:2462).    *)
PublishedFindingsAreAnswered ==
  executed => \E h \in {History(log)} :
    \A i \in OfKind(log, h.here, "review") : \A item \in log[i].new :
      item \in MintedIn(log, h.here) /\ Answered(h, item)

(* It also answers the requirements signed now: "every surfaced requirement *)
(* needs a coder disposition before approval" (plan_verification.py:1353).  *)
(* The gate asks for the dispositions in the name of the reviewers whose    *)
(* approval it has just read (plan_first_loop.py:3585), and a restarted     *)
(* round in which all have approved already reads none.                     *)
ApprovedPlanAnswersDemand ==
  executed /\ demand # NoDemand =>
    log[Newest(OfKind(log, Here(log), "plan"))].under = demand

(* No secondary reviews a plan before the panel was opened in its scope: by *)
(* a checkpoint that counts the primary's approval, after a review in which *)
(* the primary did approve that very plan under those requirements          *)
(* (select_plan_reviewers, _derive_plan_panel_evidence).                    *)
PanelWaits ==
  \A i \in OfKind(log, Here(log), "review") : log[i].by # Primary =>
    \E j \in Earlier(OfKind(log, Here(log), "prelaunch"), i) :
      /\ log[j].phase = "secondary-audit" /\ Primary \in log[j].appr
      /\ \E k \in Earlier(ReviewsBy(log, Here(log), Primary), j) :
           log[k].ok /\ KeyOf(log[k]) = KeyOf(log[j])

(* The cross-checks that refuse an approval never have to: a plan that      *)
(* startup takes for completely approved passes the gate, and no obligation *)
(* of history is lost on the way unless a review was overlooked             *)
(* (approval_shortcut_disagreement, plan_ledger_unreconstructible_items).   *)
CrossChecksAgree ==
  /\ ended # "disagreement"
  /\ ended = "lost" => Overlooked(log) # {}
=============================================================================
