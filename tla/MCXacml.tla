------------------------------ MODULE MCXacml ------------------------------
(***************************************************************************)
(* XacmlObjects and Unmarshalling with finite constants: a behaviour is    *)
(* one of an application that handles objects, or of an application that   *)
(* asks for responses.  Addresses are interchangeable.                     *)
(***************************************************************************)
EXTENDS Unmarshalling

CONSTANT MaxLive  \* bound: objects of an application at a time

VARIABLE asks  \* is it one that asks for responses?

ObjectSymmetry == Permutations(Objects)

XacmlInit == UInit /\ asks \in BOOLEAN

XacmlNext ==
  /\ UNCHANGED asks
  /\ \/ asks /\ UNext
     \/ ~asks /\ Next /\ Cardinality(Live') <= MaxLive /\ UNCHANGED <<call, stack>>

XacmlSpec == XacmlInit /\ [][XacmlNext]_<<asks, allVars>>
=============================================================================
