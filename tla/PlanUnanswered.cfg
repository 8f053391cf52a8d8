CONSTANTS
  Reviewers = {lead, other}
  Primary = lead
  Demands = {"none", "signed"}
  MaxRounds = 1
  MaxRuns = 4
  MaxChanges = 1
  MaxEdits = 0
SPECIFICATION Spec
INVARIANT ApprovedPlanAnswersDemand
CHECK_DEADLOCK FALSE
