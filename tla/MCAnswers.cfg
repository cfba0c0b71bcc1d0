CONSTANTS
  Piece <- MCPiece
  Programs = {"as2transition", "bridge"}
  Runs <- MCRuns
  Texts <- MCTexts
  Timeless <- MCTimeless
  ShowMask = {"positive"}
  SeparateActions = TRUE
  MaxPacket = 9
  MarkersWhole = TRUE
SPECIFICATION Spec
INVARIANTS AnswersShown ListedInOrder ExitCodeTells
