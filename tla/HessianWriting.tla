--------------------------- MODULE HessianWriting ---------------------------
(***************************************************************************)
(* The bytes that a Hessian document is serialized to (src/hessian).       *)
(***************************************************************************)
EXTENDS HessianWire

-----------------------------------------------------------------------------
(* UTF-8.                                                                  *)

Continuation(b) == b \div 64 = 2   \* (b & 0xC0) == 0x80

\* utf8_strlen
Chars(t) == Cardinality({k \in DOMAIN t : ~Continuation(t[k])})

\* the bytes of the character that starts with b, in hessian_string_serialize
Width(b) ==
  CASE b \div 32 = 6  -> 2     \* (b & 0xE0) == 0xC0
    [] b \div 16 = 14 -> 3
    [] b \div 16 = 15 -> 4
    [] OTHER          -> 1

\* where the character after the first n characters of t starts
After(t, n) ==
  LET at[k \in 0 .. n] == IF k = 0 THEN 1 ELSE LET p == at[k - 1] IN p + Width(t[p])
  IN  at[n]

Length16(n) == <<n \div 256, n % 256>>

\* four bytes; a negative number is that of its two's complement
Length32(n) ==
  LET m == IF n < 0 THEN n + 2147483647 + 1 ELSE n
  IN  <<m \div 16777216 + (IF n < 0 THEN 128 ELSE 0),
        (m \div 65536) % 256, (m \div 256) % 256, m % 256>>

\* the chunks that are sent before the final one: while (n > HESSIAN_CHUNK_SIZE)
Chunks(n) == IF n = 0 THEN 0 ELSE (n - 1) \div ChunkSize

\* hessian_string_serialize
WrittenText(type, t) ==
  LET n == Chars(t)
      full == Chunks(n)
      chunk(k) == SubSeq(t, After(t, (k - 1) * ChunkSize), After(t, k * ChunkSize) - 1)
  IN  FlattenSeq([k \in 1 .. full |-> <<ChunkTag(type)>> \o Length16(ChunkSize) \o chunk(k)])
        \o <<Tag(type)>> \o Length16(n - full * ChunkSize)
        \o SubSeq(t, After(t, full * ChunkSize), Len(t))

\* hessian_binary_serialize
WrittenBytes(bs) ==
  LET full == Chunks(Len(bs))
  IN  FlattenSeq([k \in 1 .. full |->
          <<ChunkTag("binary")>> \o Length16(ChunkSize)
            \o SubSeq(bs, (k - 1) * ChunkSize + 1, k * ChunkSize)])
        \o <<Tag("binary")>> \o Length16(Len(bs) - full * ChunkSize)
        \o SubSeq(bs, full * ChunkSize + 1, Len(bs))

\* a text without chunks: the type of a list or map, and both texts of a remote
Counted(tag, t) == <<tag>> \o Length16(Chars(t)) \o t
TypeOf(c) == IF c = <<>> THEN <<>> ELSE Counted(TypeTag, c)

\* hessian_list_serialize and hessian_map_serialize, up to the first part
Opening(x) ==
  <<Tag(x.type)>> \o TypeOf(x.class)
    \o (IF x.type = "list" /\ x.parts # <<>> THEN <<LengthTag>> \o Length32(Len(x.parts)) ELSE <<>>)

\* hessian_*_serialize of the other classes
WrittenLeaf(x) ==
  CASE x.type = "null" -> <<Tag("null")>>
    [] x.type = "boolean" -> <<IF x.value = 1 THEN Tag("boolean") ELSE ChunkTag("boolean")>>
    [] x.type \in {"integer", "ref"} -> <<Tag(x.type)>> \o Length32(x.value)
    [] x.type \in {"long", "double", "date"} -> <<Tag(x.type)>> \o x.text
    [] x.type \in {"string", "xml"} -> WrittenText(x.type, x.text)
    [] x.type = "binary" -> WrittenBytes(x.text)
    [] x.type = "remote" -> <<Tag("remote")>> \o Counted(TypeTag, x.class) \o Counted(Tag("string"), x.text)

\* hessian_serialize of node o of document d, and of the parts it has
Written(d, o) ==
  LET written[x \in DOMAIN d] ==
        IF d[x].type \in {"list", "map"}
        THEN Opening(d[x])
               \o FlattenSeq([k \in DOMAIN d[x].parts |-> written[d[x].parts[k]]])
               \o <<ChunkTag(d[x].type)>>
        ELSE WrittenLeaf(d[x])
  IN  written[o]

Serialized(d) == Written(d, 1)

=============================================================================
