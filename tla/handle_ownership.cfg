SPECIFICATION Spec
CONSTANTS
  Addr = {a1, a2, a3}
  Null = null
SYMMETRY AddrSymmetry
INVARIANTS
  IInv
  OneOwner
  TagsFaithful
  CallsInOrder
  NothingLeftBehind
