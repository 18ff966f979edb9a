SPECIFICATION Spec
CONSTANTS
  Format = {"promoted", "full"}
  Top <- MCTop
  Modulus <- MCModulus
  Weight = {1, 2, 4, 8}
INVARIANT
  Divides
