CHECK_DEADLOCK FALSE
SPECIFICATION Spec
CONSTANTS
  Turn = Turn
  Cancel = {k1, k2}
  Inode = {f1, f2, f3, f4, f5}
  NoFile = NoFile
SYMMETRY Symmetry
INVARIANTS
  TypeOK
  WholeFile
  Settled
PROPERTIES
  NeverBackToWorking
