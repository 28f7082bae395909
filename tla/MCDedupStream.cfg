CONSTANTS
  SeqMod = 12
  Window = 4
  Reach = 5
  Index <- MCIndex
SPECIFICATION Spec
INVARIANTS
  TypeOK
  WindowFaithful
PROPERTY ImplementsIdeal
