CONSTANTS
  boolean = boolean
  s1 = s1
  s1_plus = s1_plus
  true = true
  None = none
  Unknown = unknown
  Sorts <- MCSortNames
  Objects <- MCObjects
  Kind <- MCKind
  Boolean = boolean
  Truths <- MCTruths
  PlusName <- MCCarrot
  MaxRestarts = 1
  MaxConstants = 1
SPECIFICATION Spec
INVARIANTS TypeOK MembersClimb LinksAgree DomainTypeFits ConstantsCovered LoadedIsSaved
