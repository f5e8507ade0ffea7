SPECIFICATION Spec
INVARIANTS Balanced DepthCounts
CONSTANTS
  Coroutines = {c1, c2, c3, c4}
  Engine = engine
  MaxDepth = 3
  MaxLevels = 2
  MaxFrames = 7

