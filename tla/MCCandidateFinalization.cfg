SPECIFICATION Spec
CONSTANTS
  MaxSeq = 3
  v1 = v1
  v2 = v2
  Validators <- MCValidators
SYMMETRY ValidatorSymmetry
INVARIANTS
  ReceiptProves
  AnnouncedQualifies
PROPERTY
  ContradictionBlocks
CHECK_DEADLOCK FALSE
