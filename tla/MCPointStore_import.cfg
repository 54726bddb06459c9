CONSTANTS
  Blank = Blank
  a = a
  b = b
  text = text
  Typed <- MCTyped
  Scans <- MCScans
  Jobs = {j1}
  MaxPoints = 2
  MaxObjects = 1
SPECIFICATION Spec
PROPERTY ImportAsReported
