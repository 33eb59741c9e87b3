CONSTANTS
  Threads = {c1, c2, g1}
  Gpus = {g1}
  Reserve = 2
  Size = 7
  RandomStart = TRUE
SYMMETRY ThreadSymmetry
SPECIFICATION NonceSpec
INVARIANT WholeRange
