--------------------------- MODULE MCPepAuthorize ---------------------------
(* PepAuthorize with finite constants.  Request objects are interchangeable,*)
(* and so are the addresses of option strings.                             *)
EXTENDS PepAuthorize, TLC

Symmetry == Permutations(Requests) \cup Permutations(Addresses)
=============================================================================
