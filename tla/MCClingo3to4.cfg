CONSTANTS
  Statement <- MCStatement
  Texts <- MCTexts
  Sources = {"file", "stdin"}
SPECIFICATION Spec
INVARIANTS SameProgram ScriptsKept
CHECK_DEADLOCK FALSE
