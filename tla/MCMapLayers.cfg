SPECIFICATION Spec
CONSTANTS
  b1 = b1
  b2 = b2
  s1 = s1
  p1 = p1
  m1 = m1
  Undefined = Undefined
  Null = Null
  BoundElements = {b1, b2}
  StaticElements = {s1}
  PathElements = {p1}
  MarkerElements = {m1}
  PropertyValues <- MCProperties
  CustomLayers = {FALSE}
  MaxChanges = 1
SYMMETRY BoundSymmetry
INVARIANTS TypeOK IndexFinds LayersInPlace ShownAsBound
