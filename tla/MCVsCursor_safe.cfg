SPECIFICATION Spec
CONSTANTS
  fbA = fbA
  fbB = fbB
  fbC = fbC
  FBs = {fbA, fbB, fbC}
  Pitch <- MCPitch
  None = None
  Sizes = {32, 48, 64}
  MaxSize = 64
  Coords <- MCCoords
  Screen = 128
INVARIANTS
  ShownRight
  DetachedOff
