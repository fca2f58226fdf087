SPECIFICATION Spec
CONSTANTS
  Threads = {t1, t2}
  Refs = {r1, r2, r3}
  Vals <- MCVals
  Fns <- MCFns
  MaxDepth = 2
SYMMETRY Symmetry
CONSTRAINT NestOne
INVARIANTS TypeOK GuardsPin
PROPERTY ImplementsAtomicCell
