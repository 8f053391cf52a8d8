--------------------------- MODULE HeadBoundMerge ---------------------------
(***************************************************************************)
(* What the pull-request loop promises, without its rounds, records and    *)
(* restarts: approvals and checks belong to one commit, and only the live  *)
(* head is merged, at most once, when every required reviewer approves it  *)
(* and its checks have passed.  ("Approvals and CI are head-bound",        *)
(* ARCHITECTURE.md.)                                                       *)
(***************************************************************************)
CONSTANTS Reviewers, Heads

VARIABLES
  head,      \* the live head
  approved,  \* who approves which commit
  green,     \* the commits whose checks have passed
  merged     \* the merged commit, once there is one

vars == <<head, approved, green, merged>>

Init ==
  /\ head \in Heads
  /\ approved = [h \in Heads |-> {}]
  /\ green = {}
  /\ merged = {}

Push ==
  /\ merged = {}
  /\ head' \in Heads
  /\ UNCHANGED <<approved, green, merged>>

(* One reviewer approves a commit, or takes an approval back.              *)
Review ==
  /\ merged = {}
  /\ \E r \in Reviewers, h \in Heads :
       \/ approved' = [approved EXCEPT ![h] = @ \cup {r}]
       \/ approved' = [approved EXCEPT ![h] = @ \ {r}]
  /\ UNCHANGED <<head, green, merged>>

ChecksPass ==
  /\ \E h \in Heads : green' = green \cup {h}
  /\ UNCHANGED <<head, approved, merged>>

Merge ==
  /\ merged = {}
  /\ approved[head] = Reviewers
  /\ head \in green
  /\ merged' = {head}
  /\ UNCHANGED <<head, approved, green>>

Next == Push \/ Review \/ ChecksPass \/ Merge

Spec == Init /\ [][Next]_vars
=============================================================================
