CONSTANTS
  Token <- MCToken
  Programs <- MCFewPrograms
  Body <- MCBody
  Files <- MCOnlyIncludes
  Word <- MCWord
  Period <- MCPeriod
SPECIFICATION Spec
INVARIANT ReadAsWritten
