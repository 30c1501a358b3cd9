--------------------------- MODULE HessianDecoding ---------------------------
(***************************************************************************)
(* Reading of a Hessian message (src/hessian): hessian_deserialize and the *)
(* functions below it, one frame for each object that is being read.       *)
(*                                                                         *)
(* A list or a map first reads its parts into a temporary list, refs, and  *)
(* then moves them to where they belong, while it replaces the references  *)
(* by what they name.  Only the values of a map are looked at, and         *)
(* references count the parts of the list or map they are in.              *)
(*                                                                         *)
(* Any allocation may fail, except those of the destructors.  When a       *)
(* temporary buffer cannot grow nobody looks (string.c, binary.c): its     *)
(* memory is gone, and the reading goes on.                                *)
(***************************************************************************)
EXTENDS HessianWire

CONSTANTS
  NIL,        \* no document, no object, no text
  SmallRoom,  \* the size of the temporary buffer of a text in one chunk: 32
  Garbage     \* the texts that memory says in which nothing was written

ASSUME GarbageAssumption == <<>> \in Garbage /\ Garbage \subseteq Seq(0 .. 255)

VARIABLES
  mode,       \* where hessian_deserialize is
  message,    \* the document that was serialized by the sender
  cut,        \* did the input end before the message?
  input,      \* the bytes that came
  pos,        \* the next one that buffer_getc returns
  frames,     \* the objects that are being read
  heap,       \* the objects, in the order of their allocation
  result,     \* what hessian_deserialize returned
  abandoned,  \* the objects nobody points to any more
  misuse,     \* the misuse of memory that stopped the program, if any
  short,      \* history: an allocation has failed
  loose       \* history: a reference was not sound

dvars == <<mode, message, cut, input, pos, frames, heap, result, abandoned, misuse, short, loose>>
wire == <<message, cut, input>>

Modes == {"idle", "reading", "failing", "failed", "done", "deleted", "hung"}

DInit ==
  /\ mode = "idle"
  /\ message = NIL /\ cut = FALSE /\ input = <<>>
  /\ pos = 1
  /\ frames = <<>>
  /\ heap = <<>>
  /\ result = NIL
  /\ abandoned = {}
  /\ misuse = "none"
  /\ short = FALSE /\ loose = FALSE

-----------------------------------------------------------------------------
(* Bytes.                                                                  *)

EOF == -1   \* BUFFER_EOF; stored in a buffer it is the byte 0
ByteAt(p) == IF p <= Len(input) THEN input[p] ELSE EOF
Upto(p) == IF p <= Len(input) THEN p ELSE Len(input) + 1

\* (b16 << 8) + b8; with EOF for the last it is larger than what can be allocated
Huge == -1
LengthAt(p) == IF p + 1 <= Len(input) THEN input[p] * 256 + input[p + 1] ELSE Huge

\* Mutant of IntegerAt: a byte that is missing counts as 0.
IntegerAt_Zeros(p) ==
  LET b(k) == IF p + k <= Len(input) THEN input[p + k] ELSE 0
  IN  (b(0) % 128) * 16777216 + b(1) * 65536 + b(2) * 256 + b(3)
        + (IF b(0) >= 128 THEN -2147483647 - 1 ELSE 0)

\* four bytes, with EOF == INT_MIN, shifted out unless it is the last of them
IntegerAt(p) ==
  LET b(k) == IF p + k <= Len(input) THEN input[p + k] ELSE 0
      negative == (b(0) >= 128) # (p + 3 > Len(input))
  IN  (b(0) % 128) * 16777216 + b(1) * 65536 + b(2) * 256 + b(3)
        + (IF negative THEN -2147483647 - 1 ELSE 0)

\* Mutant of Following: a character of four bytes is taken for one of three.
Following_Three(b) ==
  CASE b \div 16 = 12      -> 1
    [] b \div 16 \in 14 .. 15 -> 2
    [] OTHER               -> 0

\* the bytes that utf8_bgets reads after b: the mask 0xF0 finds half of the
\* first bytes of two-byte characters
Following(b) ==
  CASE b \div 16 = 12 -> 1     \* (byte & 0xF0) == 0xC0
    [] b \div 16 = 14 -> 2
    [] b \div 16 = 15 -> 3
    [] OTHER          -> 0

\* where utf8_bgets ends that reads l characters from p on
EndOf(p, l) ==
  LET n == Min({l, Len(input)})   \* each character takes a byte
      at[k \in 0 .. n] ==
        IF k = 0 THEN p
        ELSE LET q == at[k - 1] IN IF q > Len(input) THEN q ELSE q + 1 + Following(input[q])
  IN  Upto(at[n])

\* the C string that is read: it ends before the first byte 0
TextAt(p, l) ==
  LET bytes == SubSeq(input, p, EndOf(p, l) - 1)
      zeros == {k \in DOMAIN bytes : bytes[k] = 0}
  IN  IF zeros = {} THEN bytes ELSE SubSeq(bytes, 1, Min(zeros) - 1)

\* The buffer of utf8_bgets has a byte for each of l characters, 16 for one:
\* it grows if one of them takes more.
Swells(p, l) == l >= 2 /\ \E q \in p .. EndOf(p, l) - 1 : Following(input[q]) > 0

\* what utf8_bgets returns after growth has failed, unless it stops the program
SpoiltAt(p, l) == IF Swells(p, l) THEN Garbage ELSE {}

-----------------------------------------------------------------------------
(* Objects.                                                                *)

Top == frames[Len(frames)]
Rest == SubSeq(frames, 1, Len(frames) - 1)
TypeOfTop == heap[Top.obj].type
Texts == {"string", "xml", "binary"}
Containers == {"list", "map"}

\* an object as it is allocated; its parts are objects
Object(type, value, text, class) ==
  [type |-> type, value |-> value, text |-> text, class |-> class, parts |-> <<>>, freed |-> FALSE]

Allocated(o) == Append(heap, o)
NewId == Len(heap) + 1

\* o and all that is in it; parts are allocated after what holds them
Below(h, o) ==
  LET below[x \in 1 .. Len(h)] ==
        {x} \cup UNION {below[y] : y \in {h[x].parts[k] : k \in DOMAIN h[x].parts}}
  IN  below[o]
AllBelow(h, S) == UNION {Below(h, o) : o \in S}

\* heap h after hessian_delete of the objects in S
Frees(h, S) ==
  IF \E o \in AllBelow(h, S) : h[o].freed
  THEN misuse' = "freed twice" /\ heap' = h
  ELSE /\ heap' = [o \in DOMAIN h |-> [h[o] EXCEPT !.freed = @ \/ o \in AllBelow(h, S)]]
       /\ UNCHANGED misuse

Parts(f) == {f.refs[k] : k \in DOMAIN f.refs}

\* o is returned to whoever asked for it; a list that cannot take it fails
Deliver(o, callers, wanting) ==
  \/ /\ callers = <<>>
     /\ mode' = "done" /\ result' = o /\ frames' = <<>>
     /\ short' = (short \/ wanting)
  \/ /\ callers # <<>>
     /\ frames' = [callers EXCEPT ![Len(callers)].refs = Append(@, o)]
     /\ UNCHANGED result
     /\ \/ short' = (short \/ wanting) /\ UNCHANGED mode
        \/ mode' = "failing" /\ short' = TRUE

Fails == mode' = "failing" /\ UNCHANGED <<frames, result>>
NoMemory == Fails /\ short' = TRUE
-----------------------------------------------------------------------------
(* hessian_deserialize_tag.                                                *)

Types == {"null", "boolean", "integer", "long", "double", "date", "string", "xml",
          "binary", "remote", "list", "map", "ref"}
Chunked == {"boolean", "string", "xml", "binary"}

\* _gettype
TypesOf(tag) == {t \in Types : tag = Tag(t) \/ (t \in Chunked /\ tag = ChunkTag(t))}

\* a list or map that has read a key also reads its value
InsideMap == frames # <<>> /\ TypeOfTop = "map"
AwaitsValue == InsideMap /\ Len(Top.refs) % 2 = 1

\* a tag is read as the start of an object
ReadsTag ==
  /\ mode = "reading"
  /\ frames # <<>> => TypeOfTop \in Containers /\ Top.step = "parts"

AtEnd == frames # <<>> /\ ~AwaitsValue /\ ByteAt(pos) \in {ChunkTag("list"), EOF}

Reads(type) == ReadsTag /\ ~AtEnd /\ type \in TypesOf(ByteAt(pos))

\* calloc() of the object fails, or there is no such tag
RefuseTag ==
  /\ ReadsTag /\ ~AtEnd
  /\ \/ TypesOf(ByteAt(pos)) = {} /\ Fails /\ UNCHANGED short
     \/ TypesOf(ByteAt(pos)) # {} /\ NoMemory
  /\ UNCHANGED <<wire, pos, heap, abandoned, misuse, loose>>

\* an object that is read at once
Leaf(object, next) ==
  /\ heap' = Allocated(object)
  /\ pos' = Upto(next)
  /\ Deliver(NewId, frames, FALSE)
  /\ UNCHANGED <<wire, abandoned, misuse, loose>>

ReadNull    == Reads("null") /\ Leaf(Object("null", 0, <<>>, <<>>), pos + 1)
ReadBoolean == Reads("boolean") /\ Leaf(Object("boolean",
                 IF ByteAt(pos) = Tag("boolean") THEN 1 ELSE 0, <<>>, <<>>), pos + 1)
ReadInteger == \E t \in {"integer", "ref"} :
                 Reads(t) /\ Leaf(Object(t, IntegerAt(pos + 1), <<>>, <<>>), pos + 5)
\* eight bytes; a value made of fewer is another value
ReadLong    == \E t \in {"long", "date"} :
                 Reads(t) /\ Leaf(Object(t, 0, SubSeq(input, pos + 1, Upto(pos + 9) - 1), <<>>), pos + 9)
ReadDouble  == Reads("double") /\ Leaf(Object("double", 0, SubSeq(input, pos + 1, Upto(pos + 9) - 1), <<>>), pos + 9)

\* a type that is wanted after this tag, or nothing to refuse
NameAt(p) == IF LengthAt(p) = Huge THEN <<>> ELSE TextAt(p + 2, LengthAt(p))
AfterName(p) == IF LengthAt(p) = Huge THEN Upto(p + 2) ELSE EndOf(p + 2, LengthAt(p))

\* what utf8_bgets makes of the text whose length is at p: without memory it
\* returns NIL, and may have read nothing, or another text
NamesAt(p) ==
  {[text |-> NameAt(p), next |-> AfterName(p), starved |-> FALSE]}
    \cup {[text |-> <<>>, next |-> q, starved |-> TRUE] : q \in {Upto(p + 2), AfterName(p)}}
    \cup {[text |-> t, next |-> AfterName(p), starved |-> TRUE] : t \in SpoiltAt(p + 2, LengthAt(p))}

\* hessian_remote_deserialize: two texts, and nobody looks whether they are
\* NIL; the object is lost with a wrong tag
ReadRemote ==
  /\ Reads("remote")
  /\ \E class \in NamesAt(pos + 2) : \E url \in NamesAt(class.next + 1) :
       LET tagged == ByteAt(pos + 1) = TypeTag /\ ByteAt(class.next) = Tag("string")
       IN  \/ /\ tagged
              /\ heap' = Allocated(Object("remote", 0, url.text, class.text))
              /\ pos' = url.next
              /\ Deliver(NewId, frames, class.starved \/ url.starved)
              /\ UNCHANGED abandoned
           \/ /\ ~tagged
              /\ heap' = Allocated(Object("remote", 0, <<>>, <<>>))
              /\ abandoned' = abandoned \cup {NewId}
              /\ Fails /\ short' = (short \/ class.starved)
              /\ UNCHANGED pos
  /\ UNCHANGED <<wire, misuse, loose>>

\* the frame of an object that is not complete yet
Opens(type, class, next) ==
  /\ heap' = Allocated(Object(type, 0, <<>>, class))
  /\ frames' = Append(frames, [obj |-> NewId, tag |-> ByteAt(pos), refs |-> <<>>,
                               step |-> IF type \in Texts THEN "chunks" ELSE "parts", done |-> 0])
  /\ pos' = next

\* hessian_list_deserialize and hessian_map_deserialize up to their first part.
\* The length of a list is read and not used.
OpensContainer(type, class, named) ==
  LET first == IF type = "list" /\ ByteAt(named) = LengthTag THEN Upto(named + 5) ELSE named
  IN  /\ Reads(type)
      /\ Opens(type, class, first)
      /\ UNCHANGED <<wire, result, abandoned, misuse, loose>>

IsTyped == ByteAt(pos + 1) = TypeTag

OpenContainer ==
  \E type \in Containers :
    /\ OpensContainer(type, IF IsTyped THEN NameAt(pos + 2) ELSE <<>>,
                            IF IsTyped THEN AfterName(pos + 2) ELSE Upto(pos + 1))
    /\ \/ ~(IsTyped /\ LengthAt(pos + 2) = Huge) /\ mode' = mode /\ UNCHANGED short
       \/ IsTyped /\ LengthAt(pos + 2) = Huge /\ mode' = "failing" /\ UNCHANGED short
       \/ mode' = "failing" /\ short' = TRUE   \* no temporary list, or no type

\* a list or map whose type is not what was sent
OpenSpoilt ==
  /\ IsTyped
  /\ \E type \in Containers : \E class \in SpoiltAt(pos + 4, LengthAt(pos + 2)) :
       OpensContainer(type, class, AfterName(pos + 2))
  /\ short' = TRUE /\ UNCHANGED mode

\* utf8_bgets reads its buffer, which is NIL
NameFaults ==
  /\ \E type \in Containers \cup {"remote"} : Reads(type)
  /\ IsTyped
  /\ \/ Swells(pos + 4, LengthAt(pos + 2))
     \/ /\ Reads("remote")
        /\ \E class \in NamesAt(pos + 2) :
             ByteAt(class.next) = Tag("string") /\ Swells(class.next + 3, LengthAt(class.next + 1))
  /\ misuse' = "null text" /\ short' = TRUE
  /\ UNCHANGED <<wire, mode, pos, frames, heap, result, abandoned, loose>>

-----------------------------------------------------------------------------
(* Texts: hessian_string_deserialize, utf8_bgets, hessian_binary_deserialize.*)

OpenText ==
  \E type \in Texts :
    /\ Reads(type)
    /\ Opens(type, <<>>, pos + 1)
    /\ \/ UNCHANGED <<mode, short>>
       \/ type # "binary" /\ mode' = "failing" /\ short' = TRUE   \* no temporary buffer
    /\ UNCHANGED <<wire, result, abandoned, misuse, loose>>

ReadsChunk == mode = "reading" /\ frames # <<>> /\ TypeOfTop \in Texts /\ Top.step = "chunks"

\* the bytes of a chunk of l; a binary has a byte 0 for each that is missing
ChunkAt(p, l) ==
  IF TypeOfTop = "binary"
  THEN [k \in 1 .. l |-> IF p + k - 1 <= Len(input) THEN input[p + k - 1] ELSE 0]
  ELSE TextAt(p, l)
AfterChunk(p, l) == IF TypeOfTop = "binary" THEN Upto(p + l) ELSE EndOf(p, l)

\* After a chunk comes the tag of the next one; any other tag is final.
PassChunk(text) ==
  LET next == AfterChunk(pos + 2, LengthAt(pos))
      isChunk == Top.tag = ChunkTag(TypeOfTop)
  IN  /\ heap' = [heap EXCEPT ![Top.obj].text = text]
      /\ frames' = [frames EXCEPT ![Len(frames)].tag = IF isChunk THEN ByteAt(next) ELSE @,
                                  ![Len(frames)].step = IF isChunk THEN "chunks" ELSE "end"]
      /\ pos' = IF isChunk THEN Upto(next + 1) ELSE next

ReadChunk ==
  /\ ReadsChunk /\ LengthAt(pos) # Huge
  /\ PassChunk(heap[Top.obj].text \o ChunkAt(pos + 2, LengthAt(pos)))
  /\ UNCHANGED <<wire, mode, result, abandoned, misuse, short, loose>>

\* the buffer for the whole text as it was created; what it has grown by since
\* is not known
Room == IF Top.tag = Tag(TypeOfTop) /\ heap[Top.obj].text = <<>> THEN SmallRoom ELSE ChunkSize

OutgrowsBuffer ==
  \/ TypeOfTop # "binary" /\ Swells(pos + 2, LengthAt(pos))
  \/ Len(heap[Top.obj].text \o ChunkAt(pos + 2, LengthAt(pos))) > Room

\* The buffer of the text or that of the chunk has no memory.  It is used all
\* the same, now or at the end of the text; or a later growth succeeds, in
\* memory that says something else; or nothing was written, and all is lost.
GrowthFails ==
  /\ ReadsChunk /\ LengthAt(pos) # Huge /\ OutgrowsBuffer
  /\ \/ misuse' = "null text" /\ UNCHANGED <<pos, frames, heap>>
     \/ /\ \E before \in {<<>>, heap[Top.obj].text} : \E t \in Garbage : PassChunk(before \o t)
        /\ UNCHANGED misuse
  /\ short' = TRUE
  /\ UNCHANGED <<wire, mode, result, abandoned, loose>>

\* utf8_bgets returns NIL, and its result is not checked
ChunkFails ==
  /\ ReadsChunk /\ TypeOfTop # "binary"
  /\ misuse' = "null text"
  /\ \/ LengthAt(pos) = Huge /\ UNCHANGED short
     \/ LengthAt(pos) # Huge /\ short' = TRUE
  /\ UNCHANGED <<wire, mode, pos, frames, heap, result, abandoned, loose>>

\* a binary of this length is read byte by byte from an input that has no more
ChunkHangs ==
  /\ ReadsChunk /\ TypeOfTop = "binary" /\ LengthAt(pos) = Huge
  /\ mode' = "hung"
  /\ UNCHANGED <<wire, pos, frames, heap, result, abandoned, misuse, short, loose>>

\* A binary without temporary buffer stays empty: nobody looks.
EndOfText ==
  /\ mode = "reading" /\ frames # <<>> /\ Top.step = "end"
  /\ \/ UNCHANGED heap /\ Deliver(Top.obj, Rest, FALSE)
     \/ /\ TypeOfTop = "binary"
        /\ heap' = [heap EXCEPT ![Top.obj].text = <<>>]
        /\ Deliver(Top.obj, Rest, TRUE)
  /\ UNCHANGED <<wire, pos, abandoned, misuse, loose>>

\* no memory for the text
TextFails ==
  /\ mode = "reading" /\ frames # <<>> /\ Top.step = "end"
  /\ NoMemory
  /\ UNCHANGED <<wire, pos, heap, abandoned, misuse, loose>>
-----------------------------------------------------------------------------
(* The ends of lists and maps: the parts move, references are replaced.    *)

\* Mutant of CloseContainer: the loop goes on where the input has ended.
CloseContainer_TagOnly ==
  /\ ReadsTag /\ AtEnd /\ ByteAt(pos) # EOF
  /\ pos' = pos + 1
  /\ \/ frames' = [frames EXCEPT ![Len(frames)].step = "moving"] /\ UNCHANGED <<mode, result, short>>
     \/ NoMemory
  /\ UNCHANGED <<wire, heap, abandoned, misuse, loose>>

\* the end tag, or the end of the input
CloseContainer ==
  /\ ReadsTag /\ AtEnd
  /\ pos' = Upto(pos + 1)
  /\ \/ frames' = [frames EXCEPT ![Len(frames)].step = "moving"] /\ UNCHANGED <<mode, result, short>>
     \/ NoMemory
  /\ UNCHANGED <<wire, heap, abandoned, misuse, loose>>

Moves(type) == mode = "reading" /\ frames # <<>> /\ Top.step = "moving" /\ TypeOfTop = type
MovesMore(type) == Moves(type) /\ Top.done < Len(Top.refs)

IsRef(o) == heap[o].type = "ref"
Released(o) == [heap EXCEPT ![o].freed = TRUE]
Moved(h, os) == [h EXCEPT ![Top.obj].parts = @ \o os]

\* part i of a list is a reference to part j, when there is one
Element == Top.refs[Top.done + 1]
ListTarget == heap[Element].value + 1
NamesElement == IsRef(Element) => ListTarget \in DOMAIN Top.refs

\* a reference is sound when it names a part that is no reference itself
MeetsReference(sound) == loose' = (loose \/ ~sound)
SoundElement ==
  IsRef(Element) => ListTarget \in DOMAIN Top.refs /\ ~IsRef(Top.refs[ListTarget])

\* Mutant of MoveElement: what is deleted is not the reference.
MoveElement_Target ==
  /\ MovesMore("list") /\ NamesElement
  /\ LET o == IF IsRef(Element) THEN Top.refs[ListTarget] ELSE Element
     IN  heap' = Moved(IF IsRef(Element) THEN Released(o) ELSE heap, <<o>>)
  /\ frames' = [frames EXCEPT ![Len(frames)].done = @ + 1]
  /\ MeetsReference(SoundElement)
  /\ UNCHANGED <<wire, mode, pos, result, abandoned, misuse, short>>

MoveElement ==
  /\ MovesMore("list")
  /\ \/ ~IsRef(Element) /\ heap' = Moved(heap, <<Element>>)
     \/ /\ IsRef(Element) /\ ListTarget \in DOMAIN Top.refs
        /\ heap' = Moved(Released(Element), <<Top.refs[ListTarget]>>)
  /\ frames' = [frames EXCEPT ![Len(frames)].done = @ + 1]
  /\ MeetsReference(SoundElement)
  /\ UNCHANGED <<wire, mode, pos, result, abandoned, misuse, short>>

\* The reference names nothing: it has been deleted, and is deleted with refs.
DanglingElement ==
  /\ MovesMore("list") /\ IsRef(Element) /\ ListTarget \notin DOMAIN Top.refs
  /\ Frees(Released(Element), Parts(Top))
  /\ Fails /\ MeetsReference(SoundElement)
  /\ UNCHANGED <<wire, pos, abandoned, short>>

\* The list cannot take the element: it is deleted, and deleted with refs.
ElementRefused ==
  /\ MovesMore("list") /\ NamesElement
  /\ LET o == IF IsRef(Element) THEN Top.refs[ListTarget] ELSE Element
         h == IF IsRef(Element) THEN Released(Element) ELSE heap
     IN  IF h[o].freed THEN misuse' = "freed twice" /\ heap' = h
         ELSE Frees([x \in DOMAIN h |-> [h[x] EXCEPT !.freed = @ \/ x \in Below(h, o)]], Parts(Top))
  /\ NoMemory /\ MeetsReference(SoundElement)
  /\ UNCHANGED <<wire, pos, abandoned>>

PairKey   == Top.refs[Top.done + 1]
PairValue == Top.refs[Top.done + 2]
\* the value of the pair that is named, which may have been replaced already
NamesPair == IsRef(PairValue) /\ heap[PairValue].value \in 0 .. Len(Top.refs) \div 2 - 1
MapTarget == 2 * (heap[PairValue].value + 1)

\* sound: what it names is no reference that has yet to be replaced
SoundPair == NamesPair => MapTarget <= Top.done \/ ~IsRef(Top.refs[MapTarget])

\* a reference that names nothing stays
MovePair ==
  /\ MovesMore("map")
  /\ LET v == IF NamesPair THEN Top.refs[MapTarget] ELSE PairValue
     IN  /\ heap' = Moved(IF NamesPair THEN Released(PairValue) ELSE heap, <<PairKey, v>>)
         /\ frames' = [frames EXCEPT ![Len(frames)].done = @ + 2,
                                     ![Len(frames)].refs[Top.done + 2] = v]
  /\ MeetsReference(SoundPair)
  /\ UNCHANGED <<wire, mode, pos, result, abandoned, misuse, short>>

\* The map cannot take the pair: only the lists are deleted.
PairRefused ==
  /\ MovesMore("map")
  /\ abandoned' = abandoned \cup Parts(Top)
  /\ frames' = [frames EXCEPT ![Len(frames)].refs = <<>>]
  /\ heap' = IF NamesPair THEN Released(PairValue) ELSE heap
  /\ mode' = "failing" /\ short' = TRUE /\ MeetsReference(SoundPair)
  /\ UNCHANGED <<wire, pos, result, misuse>>

EndOfContainer ==
  /\ \E type \in Containers : Moves(type) /\ ~MovesMore(type)
  /\ Deliver(Top.obj, Rest, FALSE)
  /\ UNCHANGED <<wire, pos, heap, abandoned, misuse, loose>>

-----------------------------------------------------------------------------
(* Failure: each function deletes what it has read, its object is lost.    *)

\* Mutant of Unwind: the parts are not deleted.
Unwind_KeepsParts ==
  /\ mode = "failing"
  /\ frames # <<>>
  /\ abandoned' = abandoned \cup {Top.obj}
  /\ frames' = Rest
  /\ UNCHANGED <<wire, mode, pos, heap, result, misuse, short, loose>>

Unwind ==
  /\ mode = "failing" /\ frames # <<>>
  /\ Frees(heap, Parts(Top))
  /\ abandoned' = abandoned \cup {Top.obj}
  /\ frames' = Rest
  /\ UNCHANGED <<wire, mode, pos, result, short, loose>>

ReturnNull ==
  /\ mode = "failing" /\ frames = <<>>
  /\ mode' = "failed"
  /\ UNCHANGED <<wire, pos, frames, heap, result, abandoned, misuse, short, loose>>

\* xacml_response_unmarshalling has read the object and deletes it
DeleteResult ==
  /\ mode = "done"
  /\ Frees(heap, {result})
  /\ mode' = "deleted"
  /\ UNCHANGED <<wire, pos, frames, result, abandoned, short, loose>>

DStep ==
  /\ misuse = "none"
  /\ \/ RefuseTag \/ ReadNull \/ ReadBoolean \/ ReadInteger \/ ReadLong \/ ReadDouble
     \/ ReadRemote \/ OpenContainer \/ OpenSpoilt \/ NameFaults \/ OpenText
     \/ ChunkFails \/ ChunkHangs \/ ReadChunk \/ GrowthFails \/ TextFails \/ EndOfText
     \/ CloseContainer \/ MoveElement \/ DanglingElement \/ ElementRefused
     \/ MovePair \/ PairRefused \/ EndOfContainer
     \/ Unwind \/ ReturnNull \/ DeleteResult

\* a message comes, or the first bytes of one
Arrives ==
  /\ mode = "idle"
  /\ mode' = "reading"
  /\ pos' = 1
  /\ frames' = <<>> /\ heap' = <<>> /\ result' = NIL /\ abandoned' = {}
  /\ short' = FALSE /\ loose' = FALSE
  /\ UNCHANGED misuse

\* the next call
Forget ==
  /\ mode \in {"failed", "deleted"} /\ misuse = "none"
  /\ mode' = "idle"
  /\ message' = NIL /\ cut' = FALSE /\ input' = <<>> /\ pos' = 1
  /\ frames' = <<>> /\ heap' = <<>> /\ result' = NIL /\ abandoned' = {}
  /\ short' = FALSE /\ loose' = FALSE
  /\ UNCHANGED misuse

\* reading alone, whatever the bytes are: Arrives leaves them open
DNext == Arrives \/ DStep \/ Forget
DSpec == DInit /\ [][DNext]_dvars

-----------------------------------------------------------------------------
(***************************************************************************)
(* When the object that was read is deleted, every object is.  When the    *)
(* reading fails, the objects that are lost are those that were being read *)
(* and the content of a map without memory: nothing else stays behind.     *)
(***************************************************************************)
OnlyAbandonedLost ==
  misuse = "none" =>
    /\ mode = "deleted" => \A o \in DOMAIN heap : heap[o].freed
    /\ mode = "failed" => {o \in DOMAIN heap : ~heap[o].freed} \subseteq AllBelow(heap, abandoned)

(***************************************************************************)
(* Whatever bytes come: an object is freed twice only after an allocation  *)
(* that failed, or a reference that names itself, another reference or     *)
(* nothing; a text without memory is used only where an allocation failed  *)
(* or the input ends inside the length of the text.                        *)
(***************************************************************************)
MisuseNeedsCause ==
  /\ misuse = "freed twice" => short \/ loose
  /\ misuse = "null text" => short \/ LengthAt(pos) = Huge

=============================================================================
