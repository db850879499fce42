SPECIFICATION TreeSpec
CONSTANTS
  Elem <- Elements
  Key <- Keys
  Null = Null
INVARIANTS
  Linked
PROPERTIES
  InsertionBalances
  ImplementsQueue
