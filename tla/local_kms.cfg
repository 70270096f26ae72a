SPECIFICATION Spec
CONSTANTS
  Host = {h1, h2}
  Keyset = {k1, k2}
  None = None
  Sizes = {1, 2}
  MaxSeals = 2
SYMMETRY HostAndKeysetSymmetry
INVARIANTS TypeOK FileNeverMixed KeptMasterReloads BlobOpensForOwner
CHECK_DEADLOCK FALSE
