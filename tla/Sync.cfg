SPECIFICATION FairSpec
CONSTANTS
  build = build
  pins = pins
  classpath = classpath
  Order <- MCOrder
  Edits = {e1, e2}
  MaxCrashes = 2
INVARIANTS SyncTypeOK EditsKept
PROPERTY EventuallySynced
