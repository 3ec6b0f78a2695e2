SPECIFICATION Spec
CONSTANTS
  Token <- MCToken
  Nil = Nil
  None = None
  TypeName = {"A", "B"}
  Invalid = "invalid"
  NoText = "no text"
  NoLabel = "no label"
  Tree <- MCTree
  Query <- MCQuery
  Context <- MCContext
  MaxNodes = 4
  MaxFrames = 2
INVARIANTS
  PatternsDenote
  WizardFinds
  KnowsItsPlace
\* what is looked for may not be there
CHECK_DEADLOCK FALSE
