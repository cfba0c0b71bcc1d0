CONSTANTS
  Undefined = 4
  MaxOptions = 3
  Options <- MCOptions
  DomainQueries <- MCDomainQueries
  Steps = {0, 2}
SPECIFICATION ToolchainSpec
INVARIANTS ToolchainTypeOK NothingFailedIsUsed SolverConfigured SolvedAsTranslated StepsInOrder
PROPERTY AutomatedEnds
CHECK_DEADLOCK FALSE
