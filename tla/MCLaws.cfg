CONSTANTS
  Symbols <- MCSymbols
  Type <- MCType
  BooleanSorts <- MCBooleans
  Restricted <- MCBooleans
  MaxStatements = 2
  MaxStep = 2
  Input <- MCInput
SPECIFICATION Spec
CHECK_DEADLOCK FALSE
INVARIANTS LawsTypeOK ModesAgree PartsFit LawsHold OneValuePerStep ActionsExclude
