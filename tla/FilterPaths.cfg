CONSTANTS
  Pool <- MCPool
  Query <- MCQuery
  MaxRules = 2
  Domain = {"d1"}
  Sources = {"s1"}
  Slots = 2
  MaxItems = 1
  Letter = {"p"}
  MaxText = 1
  None = None
SPECIFICATION Spec
INVARIANT PathsAgree
CHECK_DEADLOCK FALSE
