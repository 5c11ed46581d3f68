SPECIFICATION Spec
CONSTANTS
  Keys = {k1, k2, k3, k4}
  Values = {v1, v2}
  NoValue = NoValue
  Nodes = {n1, n2, n3, n4}
  Nil = Nil
SYMMETRY Symmetry
INVARIANTS WellLinked TableMatches
PROPERTY Implements
