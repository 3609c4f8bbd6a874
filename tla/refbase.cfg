CONSTANTS
  Refs = {r1, r2, r3, r4}
  INITIAL = 10
  Android = TRUE
  FirstRefBeforeShare = TRUE
SYMMETRY RefSymmetry
SPECIFICATION Spec
INVARIANTS
  StrongIsLive
  RefsOutliveUse
  DeletedOnce
  NothingLeaks
  IInv
PROPERTY
  ImplementsObject
