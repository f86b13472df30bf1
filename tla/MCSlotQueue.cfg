SPECIFICATION Spec
CONSTANTS
  N = 2
  POS_MOD = 3
  Producers = {p1, p2}
  Consumers = {c1, c2}
  Messages = {a, b}
  Nothing = Nothing
INVARIANT SlotExclusive
PROPERTY ImplementsFifo
SYMMETRY Symmetry
