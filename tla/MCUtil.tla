------------------------------- MODULE MCUtil -------------------------------
(***************************************************************************)
(* The three parts of src/util with finite constants; a behaviour is one   *)
(* of base64 that encodes and decodes, of a buffer, or of a list.          *)
(*                                                                         *)
(* Base64 has bytes that set every bit of a block on both sides of its     *)
(* boundaries, line sizes that are and are not multiples of four, and a    *)
(* default that an input of three blocks exceeds.  Some of the indices     *)
(* asked for in a list are out of range.                                   *)
(***************************************************************************)
EXTENDS Base64, Buffer, LinkedList

VARIABLE part  \* the one that runs

SomeBytes == {86, 171}
SomeLineSizes == {NO_LINE_BREAK, 0, 4, 6, 8}
NotInTable == {PAD, CR, UNKNOWN}
SomeIndices == -1 .. 3

UtilInit ==
  /\ part \in {"base64", "buffer", "list"}
  /\ Init /\ BufferInit /\ ListInit
  /\ part # "base64" => input = <<>> /\ linesize = NO_LINE_BREAK

UtilNext ==
  /\ UNCHANGED part
  /\ \/ part = "base64" /\ Next /\ UNCHANGED <<bufferVars, listVars>>
     \/ part = "buffer" /\ BufferNext /\ UNCHANGED <<vars, listVars>>
     \/ part = "list" /\ ListNext /\ UNCHANGED <<vars, bufferVars>>

UtilSpec == UtilInit /\ [][UtilNext]_<<part, vars, bufferVars, listVars>>
=============================================================================
