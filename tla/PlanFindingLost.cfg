CONSTANTS
  Reviewers = {lead, other}
  Primary = lead
  Demands = {"none"}
  MaxRounds = 3
  MaxRuns = 3
  MaxChanges = 0
  MaxEdits = 0
SPECIFICATION Spec
INVARIANT PublishedFindingsAreAnswered
CHECK_DEADLOCK FALSE
