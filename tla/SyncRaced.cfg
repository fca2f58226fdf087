SPECIFICATION Spec
CONSTANTS
  build = build
  pins = pins
  classpath = classpath
  Order <- MCOrder
  Edits = {e1}
  MaxCrashes = 0
INVARIANT ConcurrentWorkPreserved
