---------------------------- MODULE MCPepHandle ----------------------------
(* PepHandle with finite constants; the addresses calloc returns are       *)
(* interchangeable.                                                        *)
EXTENDS PepHandle, TLC

AddressSymmetry == Permutations(Addresses)
=============================================================================
