SPECIFICATION Spec
CONSTANTS
  n1 = n1  n2 = n2  n3 = n3  n4 = n4  n5 = n5
  NCs = {n1, n2, n3, n4, n5}
  Kind <- MixedKind
  NCFILELISTLENGTH = 7
  NULL = NULL
INVARIANTS TypeOK CountExact NoDangling OpenIsFindable SubstrateOwned
PROPERTY OpenClosesNoOther
SYMMETRY Symmetry
CHECK_DEADLOCK FALSE
