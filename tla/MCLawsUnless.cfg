CONSTANTS
  Symbols <- MCSymbols
  Type <- MCType
  BooleanSorts <- MCBooleans
  Restricted <- MCBooleans
  MaxStatements = 1
  MaxStep = 2
  Input <- MCMixedHeads
SPECIFICATION Spec
INVARIANT ExceptionsBlock
