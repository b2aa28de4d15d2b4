SPECIFICATION Spec
CONSTANTS
  Registered <- MCRegistered
  Risk <- MCRisk
  Observes <- MCObserves
  MaxRisk = 2
  Proposals <- MCProposals
  Configs <- MCConfigs
  MaxIterations = 3
  MaxReplans = 1
CHECK_DEADLOCK FALSE
INVARIANTS SuccessHasEvidence RepeatsWithinLimits
PROPERTY RejectionIsNotRepaired
