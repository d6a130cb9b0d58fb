CONSTANTS
  Id = {i1, i2, i3, i4}
  Routine = {r1, r2}
  Root = root
SPECIFICATION Spec
INVARIANTS WellLinked
PROPERTIES RingOfTurns
