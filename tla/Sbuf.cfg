CONSTANTS
  Producers = {p1, p2}
  Consumers = {c1, c2}
  Items = {i1, i2}
  NoItem = none
  N = 2
  IntMax = 7
  MaxInserts = 4
SPECIFICATION Spec
INVARIANTS TypeOK Exclusion Accounting
PROPERTIES ImplementsFifo Drains
CHECK_DEADLOCK FALSE
