SPECIFICATION Spec
CONSTANT Element = {a, b, c, d, e}
INVARIANTS
  HalvesAgree
PROPERTY ImplementsLRUOrder
