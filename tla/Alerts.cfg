SPECIFICATION FairSpec
CONSTANTS
  Topic <- RepeatedTopic
  Recipients <- OneRecipient
  Endpoints <- OneEndpoint
  InitPrefs <- DefaultOrCritical
  Produced <- OneExport
  MaxRetries <- MCRetries
  Cooldown = 1
  ProcessedTtl = 2
  Budgets <- MCBudgets
CHECK_DEADLOCK FALSE
INVARIANTS TypeOK NothingLost DuplicatesNeedFault AlertsSpaced
PROPERTIES QueuesDrain
