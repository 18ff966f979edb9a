----------------------------- MODULE MCDivision -----------------------------
(* A narrow type whose divisor is shifted in a wider one, as uint8 and     *)
(* uint16 are in int, and one as wide as the arithmetic, as uint32 is.     *)
EXTENDS Division

MCTop == [f \in Format |-> CASE f = "promoted" -> 4 [] f = "full" -> 8]
MCModulus == [f \in Format |-> CASE f = "promoted" -> 64 [] f = "full" -> 16]
=============================================================================
