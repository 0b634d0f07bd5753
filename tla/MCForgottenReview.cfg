\* One row whose review begins again without a submission.
SPECIFICATION FairReview
CONSTANTS
  Children = {r1}
  TwoStage = FALSE
  MaxReminders = 1
  ChipTargets = {}
  MaxRequests = 3
  MaxSweepDeaths = 0
PROPERTIES EveryStallIsNoticed
