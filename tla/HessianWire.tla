----------------------------- MODULE HessianWire -----------------------------
(***************************************************************************)
(* Hessian documents and the tags of their bytes (src/hessian).  A         *)
(* document is a tree of nodes; the parts of a map are its keys and values *)
(* in turn.  It is kept as the sequence of its nodes, in the order in      *)
(* which they are written, with numbers for parts.  Text is a sequence of  *)
(* UTF-8 bytes.                                                            *)
(***************************************************************************)
EXTENDS Integers, Sequences, SequencesExt, FiniteSets

CONSTANT ChunkSize   \* HESSIAN_CHUNK_SIZE, in characters

ASSUME ChunkAssumption == ChunkSize \in 1 .. 32767

Node(type, value, text, class, parts) ==
  [type |-> type, value |-> value, text |-> text, class |-> class, parts |-> parts]

Null          == Node("null", 0, <<>>, <<>>, <<>>)
Boolean(b)    == Node("boolean", b, <<>>, <<>>, <<>>)
Integer(i)    == Node("integer", i, <<>>, <<>>, <<>>)
Ref(i)        == Node("ref", i, <<>>, <<>>, <<>>)
Wide(type, bs) == Node(type, 0, bs, <<>>, <<>>)   \* long, double, date: 8 bytes
String(t)     == Node("string", 0, t, <<>>, <<>>)
Xml(t)        == Node("xml", 0, t, <<>>, <<>>)
Binary(bs)    == Node("binary", 0, bs, <<>>, <<>>)
Remote(c, u)  == Node("remote", 0, u, c, <<>>)
List(c, ps)   == Node("list", 0, <<>>, c, ps)     \* <<>>: without a type
Map(c, ps)    == Node("map", 0, <<>>, c, ps)

\* the tags: of each class, then of its chunks, or of its end
Tag(type) ==
  CASE type = "null" -> 78    [] type = "boolean" -> 84  [] type = "integer" -> 73
    [] type = "long" -> 76    [] type = "double" -> 68   [] type = "date" -> 100
    [] type = "string" -> 83  [] type = "xml" -> 88      [] type = "binary" -> 66
    [] type = "remote" -> 114 [] type = "list" -> 86     [] type = "map" -> 77
    [] type = "ref" -> 82
ChunkTag(type) ==
  CASE type = "boolean" -> 70 [] type = "string" -> 115  [] type = "xml" -> 120
    [] type = "binary" -> 98  [] type \in {"list", "map"} -> 122
TypeTag == 116    \* t
LengthTag == 108  \* l
=============================================================================
