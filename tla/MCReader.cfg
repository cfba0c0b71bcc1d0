CONSTANTS
  Token <- MCToken
  Programs <- MCPrograms
  Body <- MCBody
  Files <- MCFiles
  Word <- MCWord
  Period <- MCPeriod
SPECIFICATION FairSpec
INVARIANTS ReadAsWritten ErrorsReported CommentsKept
PROPERTY ReaderEnds
