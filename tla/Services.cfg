CONSTANTS
  k1 = k1
  k2 = k2
  lead = lead
  other = other
  Heads = {k1, k2}
  NoHead = NoHead
  Scopes = {TRUE, FALSE}
  MaxIntents = 2
  MaxRuns = 2
  MaxAttempts = 2
  MaxPolls = 2
  MaxRestarts = 2
SPECIFICATION MCSpec
INVARIANTS
  MergeIsQualified
  LedgerIsSound
  ApprovedPlanIsSound
  PanelWaits
  CrossChecksAgree
PROPERTIES
  AttachmentIsDurable
  RerunIsJudgedAlone
CHECK_DEADLOCK FALSE
