SPECIFICATION Spec
CONSTANTS
  a = a
  b = b
  Elem = {a, b}
  Sz = 3
  MaxFetch = 3
INVARIANTS NoSlotRace RingInv
PROPERTY RefinesFifo
