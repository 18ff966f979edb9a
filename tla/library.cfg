SPECIFICATION LibrarySpec
CONSTANTS
  Format = {"promoted", "full"}
  Top <- MCTop
  Modulus <- MCModulus
  Weight = {1, 2, 4, 8}
  MemorySize = 4
  MaxByte = 2
INVARIANTS
  TypeOK
  Balanced
  ExactWhenWide
  StaysInMemory
  Copies
  Compares
  ExactWhenOdd
