SPECIFICATION Spec
CONSTANTS
  alice = alice
  bob = bob
  first = first
  second = second
  third = third
  Users <- MCUsers
  Sessions <- MCSessions
  UserOf <- MCUserOf
  Slots = {0}
  MaxPcs = 2
  MaxOpens = 1
SYMMETRY MCSymmetry
INVARIANTS
  CharactersAccounted
  OneBody
  OwnPlaces
CHECK_DEADLOCK FALSE
