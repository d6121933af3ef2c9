SPECIFICATION Spec
CONSTANTS
  FBs = {fbA, fbB}
  None = None
  Coords <- MCCoords
  Hots = {0, 1}
  Width = 8
  CursorSize = 2
SYMMETRY Symmetry
INVARIANTS
  TypeOK
  CursorHidden
  CursorPlaced
  PrimaryHeld
