SPECIFICATION ManifestSpec
CONSTANT Written <- MCInline
INVARIANTS  EnforcedOnce
CHECK_DEADLOCK FALSE
