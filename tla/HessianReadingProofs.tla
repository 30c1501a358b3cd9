------------------------ MODULE HessianReadingProofs ------------------------
(***************************************************************************)
(* What was read says what was sent.  RInv holds of RSpec: each action of  *)
(* HessianDecoding reads what the document has at this place, for any      *)
(* documents, wherever the message is cut and whatever allocations fail.   *)
(* At its end, a message that is all there has been read as it was meant   *)
(* (DecodedIsSent), and one that is cut as a beginning of it               *)
(* (TruncationNeverPermits).                                               *)
(***************************************************************************)
EXTENDS HessianDocumentProofs

-----------------------------------------------------------------------------
(* Nodes that are read at once.                                            *)

LEMMA EmptyPart == \A s : SubSeq(s, 1, 0) = <<>>
<1> TAKE s
<1>1. SubSeq(s, 1, 0) = [k \in 1 .. 0 |-> s[k]]
  OBVIOUS
<1> QED
  BY <1>1

LEMMA NoneYet ==
  ASSUME NEW m, NEW h, NEW o, h[o].parts = <<>>, Len(m.doc[o].parts) \in Nat
  PROVE  PartsAre(m, h, o, 0)
BY EmptyPart DEF PartsAre

\* h2 is the heap with one more object, what the next node says or how it begins
ReadsNode(h2, p2) ==
  /\ Len(h2) = NewId /\ IsHeap(h2) /\ \A x \in 1 .. Len(heap) : h2[x] = heap[x]
  /\ h2[NewId].type = message[NewId].type /\ h2[NewId].parts = <<>> /\ message[NewId].parts = <<>>
  /\ p2 \in Nat /\ pos <= p2
  /\ \/ SaysSame(h2[NewId], message[NewId]) /\ p2 = pos + Len(Written(message, NewId))
     \/ Out(Came, p2) /\ (SaysSame(h2[NewId], message[NewId]) \/ Begun(h2[NewId], message[NewId]))

LEMMA NodeCompletes ==
  ASSUME Reading, NodeStarts, ~Out(Came, pos), NEW h2, NEW p2, ReadsNode(h2, p2)
  PROVE  Completed(Came, frames, h2, p2, NewId)
<1> DEFINE n == Len(heap)
           o == NewId
           d == message
<1>0. n = Len(heap) /\ o = NewId /\ d = message /\ o = n + 1 /\ Came.doc = d
  BY CameIs DEF NewId
<1>1. /\ d \in Answers /\ Len(input) \in Nat /\ pos \in Nat /\ n \in Nat /\ Len(frames) \in Nat
      /\ IsStack(frames, n) /\ IsHeap(heap)
  BY ReadingHas DEF Reading
<1> HIDE DEF n, o, d
<1>2. /\ Len(h2) = o /\ \A x \in 1 .. n : h2[x] = heap[x]
      /\ h2[o].type = d[o].type /\ h2[o].parts = <<>> /\ d[o].parts = <<>>
      /\ p2 \in Nat /\ pos <= p2
      /\ \/ SaysSame(h2[o], d[o]) /\ p2 = pos + Len(Written(d, o))
         \/ Out(Came, p2) /\ (SaysSame(h2[o], d[o]) \/ Begun(h2[o], d[o]))
  BY <1>0 DEF ReadsNode
<1>3. /\ o \in 1 .. Len(d) /\ Awaits(Came, frames, Len(frames), o)
      /\ Len(frames) > 0 =>
           \E q : StartsAt(Came, frames, q) /\ pos = q + Len(Ahead(d, Top.obj, Len(Top.refs)))
  BY <1>0 DEF NodeStarts
<1>4. IsStack(frames, o) /\ o \in Nat
  <2>1. o \in Nat /\ n <= o
    BY <1>0, <1>1
  <2> QED
    BY <1>1, <2>1, StackGrows
<1>5. \A k \in 1 .. Len(frames) : frames[k].obj \in 1 .. n
  BY <1>1 DEF IsStack, IsFrame
<1>6. StackRead(Came, frames, h2, p2)
  <2> DEFINE c == Len(frames)
  <2>1. c \in Nat /\ c <= Len(frames) /\ \A k \in 1 .. c : frames[k] = frames[k] /\ h2[frames[k].obj].parts = heap[frames[k].obj].parts
    BY <1>1, <1>2, <1>5
  <2>2. StackRead(Came, frames, heap, pos)
    BY ReadingHas
  <2> HIDE DEF c
  <2>3. \A k \in 1 .. c : FrameRead(Came, frames[k], h2, p2) /\ Awaits(Came, frames, k - 1, frames[k].obj)
    BY <1>1, <2>1, <2>2, StackStays
  <2> QED
    BY <2>3 DEF StackRead, c
<1>7. ASSUME NEW x \in 1 .. n PROVE NodeRead(Came, frames, h2, p2, x)
  <2>1. NodeRead(Came, frames, heap, pos, x)
    BY <1>0, ReadingHas
  <2>2. Alike(h2[x], heap[x])
    BY <1>2 DEF Alike
  <2> QED
    BY <2>1, <2>2, NodeStays
<1>8. NodeRead(Came, frames, h2, p2, o)
  <2>1. ~InChunks(frames, o)
    BY <1>0, <1>1, <1>5 DEF InChunks
  <2>2. NodeSays(Came, h2, p2, o)
    BY <1>0, <1>2 DEF NodeSays
  <2>3. HasParts(Came, h2, p2, o)
    <3>1. Len(Came.doc[o].parts) = 0 /\ 0 \in 0 .. Len(Came.doc[o].parts)
      BY <1>0, <1>2
    <3>2. PartsAre(Came, h2, o, 0)
      BY <1>2, <3>1, NoneYet
    <3> QED
      BY <3>1, <3>2 DEF HasParts
  <2> QED
    BY <1>0, <1>2, <2>1, <2>2, <2>3 DEF NodeRead
<1>9. ASSUME NEW x \in 1 .. Len(h2) PROVE NodeRead(Came, frames, h2, p2, x)
  <2>1. x \in 1 .. n \/ x = o
    BY <1>0, <1>1, <1>2
  <2> QED
    BY <1>7, <1>8, <2>1
<1>10. LastOf(d, o) = o
  BY <1>1, <1>2, <1>3, LastUnfolds
<1>11. ASSUME ~Out(Came, p2), Len(frames) > 0
       PROVE  \E q : /\ StartsAt(Came, frames, q)
                     /\ p2 = q + Len(Ahead(d, frames[Len(frames)].obj, Len(frames[Len(frames)].refs)))
                               + Len(Written(d, o))
  <2>1. p2 = pos + Len(Written(d, o))
    BY <1>2, <1>11
  <2> QED
    BY <1>3, <1>11, <2>1 DEF Top
<1>12. o \in 1 .. Len(h2) /\ Len(h2) <= Len(d) /\ Len(h2) \in Nat /\ IsStack(frames, Len(h2))
       /\ LastOf(d, o) >= Len(h2) /\ Len(h2) = LastOf(d, o)
  BY <1>2, <1>3, <1>4, <1>10
<1>13. Came.doc \in Answers /\ Len(Came.bytes) \in Nat /\ p2 \in Nat
  BY <1>0, <1>1, <1>2, CameIs
<1>14. Completed(Came, frames, h2, p2, o)
  BY <1>0, <1>3, <1>6, <1>9, <1>11, <1>12, <1>13 DEF Completed
<1> QED
  BY <1>0, <1>14

-----------------------------------------------------------------------------
LEMMA PartIsPrefix ==
  ASSUME NEW A, NEW s \in Seq(A), NEW c \in 0 .. Len(s)
  PROVE  IsPrefix(SubSeq(s, 1, c), s)
<1>1. Len(SubSeq(s, 1, c)) = c /\ c <= Len(s)
  BY SubSeqIs
<1> DEFINE t == SubSeq(s, 1, c)
<1>2. SubSeq(t, 1, c) = SubSeq(s, 1, c)
  OBVIOUS
<1> HIDE DEF t
<1> QED
  BY <1>1, <1>2 DEF IsPrefix, t

LEMMA SelfIsPrefix == \A s : Len(s) \in Nat => IsPrefix(s, s)
BY DEF IsPrefix

LEMMA LeafReads ==
  ASSUME DInv, RInv, misuse = "none", NEW type, Reads(type), NEW value, NEW text, NEW class, NEW wanting,
         heap' = Allocated(Object(type, value, text, class)), Deliver(NewId, frames, wanting),
         UNCHANGED wire, UNCHANGED <<misuse, loose>>,
         Reading /\ Fair' /\ NodeStarts /\ message[NewId].type = type /\ ~Out(Came, pos)
           /\ message[NewId].parts = <<>>
           /\ heap'[NewId].value = value /\ heap'[NewId].text = text /\ heap'[NewId].class = class
         => /\ pos' \in pos .. Len(input) + 1 /\ ~wanting
            /\ \/ SaysSame(heap'[NewId], message[NewId]) /\ pos' = pos + Len(Written(message, NewId))
               \/ Out(Came, pos') /\ (SaysSame(heap'[NewId], message[NewId]) \/ Begun(heap'[NewId], message[NewId])),
         type \notin {"list", "map"}
  PROVE  RInv'
<1>1. mode = "reading" /\ mode # "idle" /\ ReadsTag
  BY DEF Reads, ReadsTag
<1>2. short => short'
  BY DEF Deliver
<1> SUFFICES ASSUME Fair, Fair' PROVE SoFar'
  BY <1>1, <1>2, StepReads
<1>3. Reading
  BY <1>1, ReadingSo
<1>4. NodeStarts /\ message[NewId].type = type /\ ~Out(Came, pos)
  BY <1>3, NodeIsNext
<1>5. message \in Answers /\ NewId \in 1 .. Len(message) /\ IsHeap(heap) /\ Len(heap) \in Nat
  BY <1>3, <1>4 DEF Reading, NodeStarts
<1>6. message[NewId].parts = <<>>
  <2>1. IsNode(message[NewId], NewId + 1 .. Len(message))
    BY <1>5, DocumentIs
  <2> QED
    BY <1>4, <2>1, NodeIs
<1> DEFINE e == Object(type, value, text, class)
<1>7. /\ IsHeap(heap') /\ Len(heap') = NewId /\ \A x \in 1 .. Len(heap) : heap'[x] = heap[x]
  BY <1>5, AllocatedIs DEF Allocated, NewId
<1>8. heap'[NewId] = e
  <2>1. PICK D : heap \in Seq(D)
    BY <1>5 DEF IsHeap
  <2> HIDE DEF e
  <2>2. heap' = Append(heap, e) /\ heap \in Seq(D \cup {e})
    BY <2>1 DEF Allocated, e
  <2> QED
    BY <2>2, Pushed DEF NewId
<1>9. /\ heap'[NewId].type = type /\ heap'[NewId].value = value /\ heap'[NewId].text = text
      /\ heap'[NewId].class = class /\ heap'[NewId].parts = <<>>
  BY <1>8 DEF Object
<1>10. /\ pos' \in pos .. Len(input) + 1 /\ ~wanting
       /\ \/ SaysSame(heap'[NewId], message[NewId]) /\ pos' = pos + Len(Written(message, NewId))
          \/ Out(Came, pos') /\ (SaysSame(heap'[NewId], message[NewId]) \/ Begun(heap'[NewId], message[NewId]))
  BY <1>3, <1>4, <1>6, <1>9
<1>11. pos' \in Nat /\ pos <= pos' /\ pos' \in 1 .. Len(input) + 1
  <2>1. pos \in 1 .. Len(input) + 1 /\ Len(input) \in Nat
    BY <1>3 DEF Reading
  <2> QED
    BY <1>10, <2>1
<1>12. ReadsNode(heap', pos')
  BY <1>4, <1>6, <1>7, <1>9, <1>10, <1>11 DEF ReadsNode
<1>13. Completed(Came, frames, heap', pos', NewId)
  BY <1>3, <1>4, <1>12, NodeCompletes
<1>14. ~loose
  BY <1>1, NotLoose
<1> QED
  BY <1>1, <1>10, <1>11, <1>13, <1>14, DeliverReads

\* what a leaf that starts here is
LEMMA LeafIs ==
  ASSUME Reading, NodeStarts, message[NewId].type \notin {"list", "map"}
  PROVE  /\ Written(message, NewId) = WrittenLeaf(message[NewId])
         /\ Lies(Came, WrittenLeaf(message[NewId]), pos)
         /\ IsNode(message[NewId], NewId + 1 .. Len(message))
         /\ \A k \in DOMAIN message[NewId].text : message[NewId].text[k] \notin Missed
         /\ \A k \in DOMAIN message[NewId].class : message[NewId].class[k] \notin Missed
         /\ pos \in 1 .. Len(input) /\ input \in Seq(Byte) /\ Len(input) \in Nat /\ pos \in Nat
<1>1. message \in Answers /\ NewId \in 1 .. Len(message) /\ Lies(Came, Written(message, NewId), pos)
      /\ Readable(message) /\ pos \in 1 .. Len(input) + 1 /\ pos <= Len(input) /\ Len(input) \in Nat
      /\ input \in Seq(Byte)
  BY DEF Reading, NodeStarts, Fair
<1>2. Written(message, NewId) = WrittenLeaf(message[NewId])
  BY <1>1, WrittenUnfolds
<1>3. IsNode(message[NewId], NewId + 1 .. Len(message)) /\ DOMAIN message = 1 .. Len(message)
  BY <1>1, DocumentIs
<1>4. /\ \A k \in DOMAIN message[NewId].text : message[NewId].text[k] \notin Missed
      /\ \A k \in DOMAIN message[NewId].class : message[NewId].class[k] \notin Missed
  BY <1>1, <1>3 DEF Readable
<1>5. pos \in 1 .. Len(input) /\ pos \in Nat
  BY <1>1
<1> QED
  BY <1>1, <1>2, <1>3, <1>4, <1>5

LEMMA ShortReads ==
  ASSUME DInv, RInv, misuse = "none", ReadNull \/ ReadBoolean
  PROVE  RInv'
<1> DEFINE type == IF ReadNull THEN "null" ELSE "boolean"
           value == IF ReadNull THEN 0 ELSE IF ByteAt(pos) = Tag("boolean") THEN 1 ELSE 0
<1>1. /\ Reads(type) /\ heap' = Allocated(Object(type, value, <<>>, <<>>)) /\ pos' = Upto(pos + 1)
      /\ Deliver(NewId, frames, FALSE) /\ UNCHANGED wire /\ UNCHANGED <<misuse, loose>>
      /\ type \in {"null", "boolean"}
      /\ type = "null" => value = 0
      /\ type = "boolean" => value = IF ByteAt(pos) = Tag("boolean") THEN 1 ELSE 0
  BY DEF ReadNull, ReadBoolean, Leaf
<1> HIDE DEF type, value
<1>2. ASSUME Reading, NodeStarts, message[NewId].type = type,
             heap'[NewId].value = value, heap'[NewId].text = <<>>, heap'[NewId].class = <<>>
      PROVE  /\ pos' \in pos .. Len(input) + 1
             /\ SaysSame(heap'[NewId], message[NewId]) /\ pos' = pos + Len(Written(message, NewId))
  <2> DEFINE x == message[NewId]
             S == NewId + 1 .. Len(message)
  <2>1. /\ Written(message, NewId) = WrittenLeaf(x) /\ Lies(Came, WrittenLeaf(x), pos) /\ IsNode(x, S)
        /\ pos \in 1 .. Len(input) /\ Len(input) \in Nat /\ pos \in Nat
    BY <1>1, <1>2, LeafIs
  <2>2. x.type = type
    BY <1>2
  <2> HIDE DEF x, S
  <2>3. PICK b \in Byte : WrittenLeaf(x) = <<b>> /\ (x.type = "boolean" => x.value = (IF b = Tag("boolean") THEN 1 ELSE 0))
    BY <1>1, <2>1, <2>2, ShortIs
  <2>4. ByteAt(pos) = b
    <3> DEFINE w == <<b>>
    <3>1. Lies(Came, w, pos) /\ Len(w) \in Nat /\ 1 \in 1 .. Len(w) /\ w[1] = b
      BY <2>1, <2>3
    <3> HIDE DEF w
    <3>2. IF pos + 1 - 1 <= Len(input) THEN input[pos + 1 - 1] = w[1] ELSE cut
      BY <2>1, <3>1, ByteLies
    <3>3. pos + 1 - 1 = pos /\ pos <= Len(input)
      BY <2>1
    <3> QED
      BY <3>1, <3>2, <3>3 DEF ByteAt
  <2>5. x.value = value /\ x.text = <<>> /\ x.class = <<>>
    BY <1>1, <2>1, <2>2, <2>3, <2>4, NodeIs
  <2>6. pos' = pos + 1
    BY <1>1, <2>1, UptoIs
  <2>7. Len(WrittenLeaf(x)) = 1
    BY <2>3
  <2>8. SaysSame(heap'[NewId], x)
    BY <1>2, <2>5 DEF SaysSame
  <2> QED
    BY <2>1, <2>6, <2>7, <2>8 DEF x
<1> QED
  BY <1>1, <1>2, LeafReads

-----------------------------------------------------------------------------
LEMMA IntegerReads ==
  ASSUME DInv, RInv, misuse = "none", ReadInteger
  PROVE  RInv'
<1>1. PICK type \in {"integer", "ref"} :
        /\ Reads(type) /\ heap' = Allocated(Object(type, IntegerAt(pos + 1), <<>>, <<>>)) /\ pos' = Upto(pos + 5)
        /\ Deliver(NewId, frames, FALSE) /\ UNCHANGED wire /\ UNCHANGED <<misuse, loose>>
  BY DEF ReadInteger, Leaf
<1> DEFINE value == IntegerAt(pos + 1)
<1>2. ASSUME Reading, NodeStarts, message[NewId].type = type,
             heap'[NewId].value = value, heap'[NewId].text = <<>>, heap'[NewId].class = <<>>
      PROVE  /\ pos' \in pos .. Len(input) + 1
             /\ \/ SaysSame(heap'[NewId], message[NewId]) /\ pos' = pos + Len(Written(message, NewId))
                \/ Out(Came, pos') /\ Begun(heap'[NewId], message[NewId])
  <2> DEFINE x == message[NewId]
             S == NewId + 1 .. Len(message)
             y == heap'[NewId]
  <2>1. /\ Written(message, NewId) = WrittenLeaf(x) /\ Lies(Came, WrittenLeaf(x), pos) /\ IsNode(x, S)
        /\ pos \in 1 .. Len(input) /\ Len(input) \in Nat /\ pos \in Nat
    BY <1>1, <1>2, LeafIs
  <2>2. x.type = type /\ y.value = value /\ y.text = <<>> /\ y.class = <<>>
    BY <1>2
  <2> HIDE DEF x, S, y
  <2>3. /\ WrittenLeaf(x) = <<Tag(x.type)>> \o Length32(x.value) /\ Tag(x.type) \in Byte
        /\ Len(WrittenLeaf(x)) = 5
    BY <1>1, <2>1, <2>2, NumberIs
  <2>4. x.value \in Int32 /\ x.text = <<>> /\ x.class = <<>>
    BY <1>1, <2>1, <2>2, NodeIs
  <2>5. IF pos + 4 <= Len(input) THEN IntegerAt(pos + 1) = x.value
        ELSE cut /\ IntegerAt(pos + 1) % 256 = 0 /\ (x.value >= 0 => IntegerAt(pos + 1) < 0)
    <3> DEFINE v == x.value
               t == Tag(x.type)
    <3>1. v \in Int32 /\ t \in Byte /\ pos \in Nat /\ pos > 0 /\ Len(input) \in Nat /\ pos <= Len(input)
          /\ Lies(Came, <<t>> \o Length32(v), pos)
      BY <2>1, <2>3, <2>4
    <3> HIDE DEF v, t
    <3>2. IF pos + 4 <= Len(input) THEN IntegerAt(pos + 1) = v
          ELSE cut /\ IntegerAt(pos + 1) % 256 = 0 /\ (v >= 0 => IntegerAt(pos + 1) < 0)
      BY <3>1, NumberReads
    <3> QED
      BY <3>2 DEF v
  <2> HIDE DEF value
  <2>6. value = IntegerAt(pos + 1)
    BY DEF value
  <2>7. pos' = IF pos + 5 <= Len(input) THEN pos + 5 ELSE Len(input) + 1
    <3>1. pos + 5 \in Nat
      BY <2>1
    <3> QED
      BY <1>1, <2>1, <3>1, UptoIs
  <2>8. CASE pos + 4 <= Len(input)
    <3>1. pos' = pos + 5 /\ pos' \in pos .. Len(input) + 1
      BY <2>1, <2>7, <2>8
    <3>2. SaysSame(y, x)
      BY <2>2, <2>4, <2>5, <2>6, <2>8 DEF SaysSame
    <3> QED
      BY <2>1, <2>3, <3>1, <3>2 DEF x, y
  <2>9. CASE ~(pos + 4 <= Len(input))
    <3>1. pos' = Len(input) + 1 /\ pos' \in pos .. Len(input) + 1 /\ pos' > Len(input)
      BY <2>1, <2>7, <2>9
    <3>2. cut /\ y.value % 256 = 0 /\ (x.value >= 0 => y.value < 0)
      BY <2>2, <2>5, <2>6, <2>9
    <3>3. Begun(y, x)
      BY <1>1, <2>2, <3>2 DEF Begun
    <3>4. Out(Came, pos')
      BY <3>1, <3>2, CameIs DEF Out
    <3> QED
      BY <3>1, <3>3, <3>4 DEF x, y
  <2> QED
    BY <2>8, <2>9
<1> HIDE DEF value
<1>3. heap' = Allocated(Object(type, value, <<>>, <<>>))
  BY <1>1 DEF value
<1> QED
  BY <1>1, <1>2, <1>3, LeafReads

LEMMA WideReads ==
  ASSUME DInv, RInv, misuse = "none", ReadLong \/ ReadDouble
  PROVE  RInv'
<1> DEFINE text == SubSeq(input, pos + 1, Upto(pos + 9) - 1)
<1>1. PICK type \in {"long", "date", "double"} :
        /\ Reads(type) /\ heap' = Allocated(Object(type, 0, text, <<>>)) /\ pos' = Upto(pos + 9)
        /\ Deliver(NewId, frames, FALSE) /\ UNCHANGED wire /\ UNCHANGED <<misuse, loose>>
  BY DEF ReadLong, ReadDouble, Leaf
<1>2. ASSUME Reading, NodeStarts, message[NewId].type = type,
             heap'[NewId].value = 0, heap'[NewId].text = text, heap'[NewId].class = <<>>
      PROVE  /\ pos' \in pos .. Len(input) + 1
             /\ \/ SaysSame(heap'[NewId], message[NewId]) /\ pos' = pos + Len(Written(message, NewId))
                \/ Out(Came, pos') /\ Begun(heap'[NewId], message[NewId])
  <2> DEFINE x == message[NewId]
             S == NewId + 1 .. Len(message)
             y == heap'[NewId]
             q == Upto(pos + 9)
             p == pos + 1
  <2>1. /\ Written(message, NewId) = WrittenLeaf(x) /\ Lies(Came, WrittenLeaf(x), pos) /\ IsNode(x, S)
        /\ pos \in 1 .. Len(input) /\ Len(input) \in Nat /\ pos \in Nat /\ input \in Seq(Byte)
    BY <1>1, <1>2, LeafIs
  <2>2. x.type = type /\ y.value = 0 /\ y.text = SubSeq(input, p, q - 1) /\ y.class = <<>> /\ pos' = q
    BY <1>1, <1>2
  <2> HIDE DEF x, S, y
  <2>3. /\ WrittenLeaf(x) = <<Tag(x.type)>> \o x.text /\ Tag(x.type) \in Byte
        /\ x.text \in Seq(Byte) /\ Len(x.text) = 8 /\ Len(WrittenLeaf(x)) = 9
    BY <1>1, <2>1, <2>2, WideIs
  <2>4. x.value = 0 /\ x.class = <<>>
    BY <1>1, <2>1, <2>2, NodeIs
  <2>5. Lies(Came, x.text, p)
    <3> DEFINE a == Tag(x.type)
               u == x.text
    <3>1. Lies(Came, <<a>> \o u, pos) /\ a \in Byte /\ u \in Seq(Byte) /\ pos \in Nat
      BY <2>1, <2>3
    <3> HIDE DEF a, u
    <3>2. Lies(Came, u, pos + 1)
      BY <3>1, HeadedLies
    <3> QED
      BY <3>2 DEF u
  <2>6. /\ q \in p .. Len(input) + 1 /\ q - p \in 0 .. 8
        /\ SubSeq(input, p, q - 1) = SubSeq(x.text, 1, q - p)
        /\ p + 8 <= Len(input) + 1 => q = p + 8 /\ SubSeq(x.text, 1, q - p) = x.text
        /\ p + 8 > Len(input) + 1 => q = Len(input) + 1 /\ cut
    <3> DEFINE s == x.text
    <3>1. s \in Seq(Byte) /\ p \in 1 .. Len(input) + 1 /\ input \in Seq(Byte) /\ Lies(Came, s, p) /\ Len(s) = 8
      BY <2>1, <2>3, <2>5
    <3>2. pos + 9 = p + 8
      BY <2>1
    <3> HIDE DEF s, p
    <3>3. LET r == Upto(p + Len(s))
          IN  /\ r \in p .. Len(input) + 1 /\ r - p \in 0 .. Len(s)
              /\ SubSeq(input, p, r - 1) = SubSeq(s, 1, r - p)
              /\ p + Len(s) <= Len(input) + 1 => r = p + Len(s) /\ SubSeq(s, 1, r - p) = s
              /\ p + Len(s) > Len(input) + 1 => r = Len(input) + 1 /\ cut
      BY <3>1, BytesRead
    <3> DEFINE r == Upto(p + 8)
    <3>4. r = q /\ Len(s) = 8
      BY <3>1, <3>2
    <3> HIDE DEF q
    <3>5. /\ r \in p .. Len(input) + 1 /\ r - p \in 0 .. 8
          /\ SubSeq(input, p, r - 1) = SubSeq(s, 1, r - p)
          /\ p + 8 <= Len(input) + 1 => r = p + 8 /\ SubSeq(s, 1, r - p) = s
          /\ p + 8 > Len(input) + 1 => r = Len(input) + 1 /\ cut
      BY <3>3, <3>4
    <3> HIDE DEF r
    <3> QED
      BY <3>4, <3>5 DEF s
  <2> HIDE DEF q
  <2>7. pos' \in pos .. Len(input) + 1
    BY <2>1, <2>2, <2>6
  <2>8. CASE p + 8 <= Len(input) + 1
    <3>1. pos' = pos + 9
      BY <2>1, <2>2, <2>6, <2>8
    <3>2. SaysSame(y, x)
      BY <2>2, <2>4, <2>6, <2>8 DEF SaysSame
    <3> QED
      BY <2>1, <2>3, <2>7, <3>1, <3>2 DEF x, y
  <2>9. CASE p + 8 > Len(input) + 1
    <3>1. pos' = Len(input) + 1 /\ pos' > Len(input) /\ cut
      BY <2>1, <2>2, <2>6, <2>9
    <3>2. IsPrefix(y.text, x.text) /\ IsPrefix(y.class, x.class)
      <4> DEFINE c == q - p
                 s == x.text
      <4>1. c \in 0 .. Len(s) /\ s \in Seq(Byte) /\ y.text = SubSeq(s, 1, c)
        BY <2>2, <2>3, <2>6
      <4> HIDE DEF c, s
      <4>2. IsPrefix(y.text, s)
        BY <4>1, PartIsPrefix
      <4>3. y.class = x.class /\ Len(x.class) \in Nat
        BY <2>2, <2>4
      <4> QED
        BY <4>2, <4>3, SelfIsPrefix DEF s
    <3>3. Begun(y, x)
      BY <1>1, <2>2, <2>4, <3>2 DEF Begun
    <3>4. Out(Came, pos')
      BY <3>1, CameIs DEF Out
    <3> QED
      BY <2>7, <3>3, <3>4 DEF x, y
  <2>10. p + 8 <= Len(input) + 1 \/ p + 8 > Len(input) + 1
    BY <2>1
  <2> QED
    BY <2>8, <2>9, <2>10
<1> HIDE DEF text
<1> QED
  BY <1>1, <1>2, LeafReads

-----------------------------------------------------------------------------
LEMMA OneByte ==
  ASSUME NEW a \in Byte, NEW p \in Nat, Len(input) \in Nat, Lies(Came, <<a>>, p)
  PROVE  IF p <= Len(input) THEN ByteAt(p) = a ELSE cut /\ ByteAt(p) = EOF
<1> DEFINE w == <<a>>
<1>1. Lies(Came, w, p) /\ Len(w) \in Nat /\ 1 \in 1 .. Len(w) /\ w[1] = a
  OBVIOUS
<1> HIDE DEF w
<1>2. IF p + 1 - 1 <= Len(input) THEN input[p + 1 - 1] = w[1] ELSE cut
  BY <1>1, ByteLies
<1>3. p + 1 - 1 = p
  OBVIOUS
<1> QED
  BY <1>1, <1>2, <1>3 DEF ByteAt

\* a name is read
NameIsRead(t, p) ==
  \/ /\ p + 1 + Len(t) <= Len(input) /\ NameAt(p) = t /\ AfterName(p) = p + 2 + Len(t)
  \/ /\ cut /\ AfterName(p) = Len(input) + 1 /\ IsPrefix(NameAt(p), t)

LEMMA NameSo ==
  ASSUME NEW t, IsName(t), \A k \in DOMAIN t : t[k] \notin Missed,
         NEW p \in Nat, 1 <= p, input \in Seq(Byte), Lies(Came, Length16(Chars(t)) \o t, p)
  PROVE  NameIsRead(t, p)
<1>1. \/ /\ p + 1 + Len(t) <= Len(input) /\ LengthAt(p) # Huge
         /\ NameAt(p) = t /\ AfterName(p) = p + 2 + Len(t)
      \/ /\ cut /\ p + 1 + Len(t) > Len(input)
         /\ AfterName(p) = Len(input) + 1 /\ IsPrefix(NameAt(p), t)
  BY NameReads
<1> QED
  BY <1>1 DEF NameIsRead

LEMMA RemoteBytes ==
  ASSUME Reading, NodeStarts, message[NewId].type = "remote"
  PROVE  LET x == message[NewId]
             a == AfterName(pos + 2)
             tagged == ByteAt(pos + 1) = TypeTag /\ ByteAt(a) = Tag("string")
         IN  /\ x.value = 0 /\ Len(x.class) \in Nat /\ Len(x.text) \in Nat /\ Len(input) \in Nat /\ pos \in Nat
             /\ tagged \/ cut
             /\ tagged => /\ NameAt(pos + 2) = x.class
                          /\ \/ /\ NameAt(a + 1) = x.text /\ AfterName(a + 1) = pos + Len(Written(message, NewId))
                                /\ AfterName(a + 1) \in pos .. Len(input) + 1
                             \/ /\ cut /\ AfterName(a + 1) = Len(input) + 1 /\ IsPrefix(NameAt(a + 1), x.text)
                                /\ AfterName(a + 1) \in pos .. Len(input) + 1
<1> DEFINE x == message[NewId]
           S == NewId + 1 .. Len(message)
           a == AfterName(pos + 2)
           c == x.class
           t == x.text
<1>1. /\ Written(message, NewId) = WrittenLeaf(x) /\ Lies(Came, WrittenLeaf(x), pos) /\ IsNode(x, S)
      /\ pos \in 1 .. Len(input) /\ Len(input) \in Nat /\ pos \in Nat /\ input \in Seq(Byte)
      /\ (\A k \in DOMAIN t : t[k] \notin Missed) /\ (\A k \in DOMAIN c : c[k] \notin Missed)
  BY LeafIs
<1>2. x.type = "remote"
  OBVIOUS
<1> HIDE DEF x, S
<1>3. IsName(t) /\ IsName(c) /\ x.value = 0
  BY <1>1, <1>2, NodeIs
<1>4. /\ Len(WrittenLeaf(x)) = 7 + Len(c) + Len(t) /\ Len(c) \in Nat /\ Len(t) \in Nat
      /\ Lies(Came, <<TypeTag>>, pos + 1)
      /\ Lies(Came, Length16(Chars(c)) \o c, pos + 2)
      /\ Lies(Came, <<Tag("string")>>, pos + 4 + Len(c))
      /\ Lies(Came, Length16(Chars(t)) \o t, pos + 5 + Len(c))
  BY <1>1, <1>2, RemoteIs
<1> HIDE DEF c, t
<1>5. TypeTag \in Byte /\ Tag("string") \in Byte /\ TypeTag # EOF /\ Tag("string") # EOF
  BY DEF TypeTag, Tag, Byte, EOF
<1>6. NameIsRead(c, pos + 2)
  <2> DEFINE p == pos + 2
  <2>1. p \in Nat /\ 1 <= p /\ Lies(Came, Length16(Chars(c)) \o c, p)
    BY <1>1, <1>4
  <2> HIDE DEF p
  <2>2. NameIsRead(c, p)
    BY <1>1, <1>3, <2>1, NameSo
  <2> QED
    BY <2>2 DEF p
<1>7. NameIsRead(t, pos + 5 + Len(c))
  <2> DEFINE p == pos + 5 + Len(c)
  <2>1. p \in Nat /\ 1 <= p /\ Lies(Came, Length16(Chars(t)) \o t, p)
    BY <1>1, <1>4
  <2> HIDE DEF p
  <2>2. NameIsRead(t, p)
    BY <1>1, <1>3, <2>1, NameSo
  <2> QED
    BY <2>2 DEF p
<1>8. IF pos + 1 <= Len(input) THEN ByteAt(pos + 1) = TypeTag ELSE cut
  <2> DEFINE p == pos + 1
  <2>1. p \in Nat /\ Lies(Came, <<TypeTag>>, p)
    BY <1>1, <1>4
  <2> HIDE DEF p
  <2>2. IF p <= Len(input) THEN ByteAt(p) = TypeTag ELSE cut /\ ByteAt(p) = EOF
    BY <1>1, <1>5, <2>1, OneByte
  <2> QED
    BY <2>2 DEF p
<1>9. IF pos + 4 + Len(c) <= Len(input) THEN ByteAt(pos + 4 + Len(c)) = Tag("string") ELSE cut
  <2> DEFINE p == pos + 4 + Len(c)
             b == Tag("string")
  <2>1. p \in Nat /\ Lies(Came, <<b>>, p) /\ b \in Byte
    BY <1>1, <1>4, <1>5
  <2> HIDE DEF p, b
  <2>2. IF p <= Len(input) THEN ByteAt(p) = b ELSE cut /\ ByteAt(p) = EOF
    BY <1>1, <2>1, OneByte
  <2> QED
    BY <2>2 DEF p, b
<1>10. ASSUME ~cut PROVE ByteAt(pos + 1) = TypeTag /\ ByteAt(a) = Tag("string")
  <2>1. AfterName(pos + 2) = pos + 2 + 2 + Len(c)
    BY <1>6, <1>10 DEF NameIsRead
  <2>2. a = pos + 4 + Len(c)
    BY <1>1, <1>4, <2>1
  <2> QED
    BY <1>8, <1>9, <1>10, <2>2
<1>11. ASSUME ByteAt(pos + 1) = TypeTag, ByteAt(a) = Tag("string")
       PROVE  /\ NameAt(pos + 2) = c
              /\ \/ /\ NameAt(a + 1) = t /\ AfterName(a + 1) = pos + Len(WrittenLeaf(x))
                    /\ AfterName(a + 1) \in pos .. Len(input) + 1
                 \/ /\ cut /\ AfterName(a + 1) = Len(input) + 1 /\ IsPrefix(NameAt(a + 1), t)
                    /\ AfterName(a + 1) \in pos .. Len(input) + 1
  <2>1. a # Len(input) + 1
    <3>1. ByteAt(Len(input) + 1) = EOF
      BY <1>1 DEF ByteAt
    <3> QED
      BY <1>5, <1>11, <3>1
  <2>2. NameAt(pos + 2) = c /\ a = pos + 2 + 2 + Len(c)
    BY <1>6, <2>1 DEF NameIsRead
  <2>3. a + 1 = pos + 5 + Len(c) /\ a + 1 \in Nat
    BY <1>1, <1>4, <2>2
  <2> HIDE DEF a
  <2> DEFINE p == a + 1
  <2>4. NameIsRead(t, p) /\ p = pos + 5 + Len(c) /\ p \in Nat
    BY <1>7, <2>3
  <2> DEFINE w == Len(WrittenLeaf(x))
             i == Len(c)
             j == Len(t)
  <2>5. w = 7 + i + j /\ i \in Nat /\ j \in Nat /\ p = pos + 5 + i
    BY <1>4, <2>4
  <2> HIDE DEF p, w, i, j
  <2>6. \/ p + 1 + j <= Len(input) /\ NameAt(p) = t /\ AfterName(p) = p + 2 + j
        \/ cut /\ AfterName(p) = Len(input) + 1 /\ IsPrefix(NameAt(p), t)
    BY <2>4 DEF NameIsRead, j
  <2>7. \/ NameAt(p) = t /\ AfterName(p) = pos + w /\ AfterName(p) \in pos .. Len(input) + 1
        \/ cut /\ AfterName(p) = Len(input) + 1 /\ IsPrefix(NameAt(p), t) /\ AfterName(p) \in pos .. Len(input) + 1
    BY <1>1, <2>5, <2>6
  <2> QED
    BY <2>2, <2>7 DEF p, w
<1> QED
  BY <1>1, <1>3, <1>4, <1>10, <1>11 DEF x, c, t

-----------------------------------------------------------------------------
LEMMA NameSaid ==
  ASSUME NEW p, NEW e \in NamesAt(p)
  PROVE  e.starved \in BOOLEAN /\ (~e.starved => e.text = NameAt(p) /\ e.next = AfterName(p))
<1>1. \/ e = [text |-> NameAt(p), next |-> AfterName(p), starved |-> FALSE]
      \/ \E t, q : e = [text |-> t, next |-> q, starved |-> TRUE]
  BY DEF NamesAt
<1>2. CASE e = [text |-> NameAt(p), next |-> AfterName(p), starved |-> FALSE]
  <2>1. e.starved = FALSE /\ e.text = NameAt(p) /\ e.next = AfterName(p)
    BY <1>2
  <2> QED
    BY <2>1
<1>3. CASE \E t, q : e = [text |-> t, next |-> q, starved |-> TRUE]
  <2>1. e.starved = TRUE
    BY <1>3
  <2> QED
    BY <2>1
<1> QED
  BY <1>1, <1>2, <1>3



LEMMA RemoteReads ==
  ASSUME DInv, RInv, misuse = "none", ReadRemote
  PROVE  RInv'
<1>1. PICK c \in NamesAt(pos + 2) : \E url \in NamesAt(c.next + 1) :
       LET tagged == ByteAt(pos + 1) = TypeTag /\ ByteAt(c.next) = Tag("string")
       IN  \/ /\ tagged
              /\ heap' = Allocated(Object("remote", 0, url.text, c.text))
              /\ pos' = url.next
              /\ Deliver(NewId, frames, c.starved \/ url.starved)
              /\ UNCHANGED abandoned
           \/ /\ ~tagged
              /\ heap' = Allocated(Object("remote", 0, <<>>, <<>>))
              /\ abandoned' = abandoned \cup {NewId}
              /\ Fails /\ short' = (short \/ c.starved)
              /\ UNCHANGED pos
  BY DEF ReadRemote
<1>2. PICK u \in NamesAt(c.next + 1) :
       LET tagged == ByteAt(pos + 1) = TypeTag /\ ByteAt(c.next) = Tag("string")
       IN  \/ /\ tagged
              /\ heap' = Allocated(Object("remote", 0, u.text, c.text))
              /\ pos' = u.next
              /\ Deliver(NewId, frames, c.starved \/ u.starved)
              /\ UNCHANGED abandoned
           \/ /\ ~tagged
              /\ heap' = Allocated(Object("remote", 0, <<>>, <<>>))
              /\ abandoned' = abandoned \cup {NewId}
              /\ Fails /\ short' = (short \/ c.starved)
              /\ UNCHANGED pos
  BY <1>1
<1>3. Reads("remote") /\ UNCHANGED wire /\ UNCHANGED <<misuse, loose>> /\ mode = "reading" /\ mode # "idle"
  BY DEF ReadRemote, Reads, ReadsTag
<1>4. /\ c.starved \in BOOLEAN /\ (~c.starved => c.text = NameAt(pos + 2) /\ c.next = AfterName(pos + 2))
      /\ u.starved \in BOOLEAN /\ (~u.starved => u.text = NameAt(c.next + 1) /\ u.next = AfterName(c.next + 1))
  BY NameSaid
<1>5. CASE ByteAt(pos + 1) = TypeTag /\ ByteAt(c.next) = Tag("string")
  <2> DEFINE text == u.text
             class == c.text
             wanting == c.starved \/ u.starved
             y == heap'[NewId]
             x == message[NewId]
  <2>1. heap' = Allocated(Object("remote", 0, text, class)) /\ pos' = u.next /\ Deliver(NewId, frames, wanting)
    BY <1>2, <1>5
  <2>2. ASSUME Reading, Fair', NodeStarts, message[NewId].type = "remote",
               y.value = 0, y.text = text, y.class = class
        PROVE  /\ pos' \in pos .. Len(input) + 1 /\ ~wanting
               /\ \/ SaysSame(y, x) /\ pos' = pos + Len(Written(message, NewId))
                  \/ Out(Came, pos') /\ Begun(y, x)
    <3>1. ~short'
      BY <2>2 DEF Fair
    <3>2. ~wanting
      <4> HIDE DEF wanting
      <4>1. short' = (short \/ wanting) \/ short'
        BY <2>1 DEF Deliver
      <4> QED
        BY <3>1, <4>1
    <3> DEFINE a == AfterName(pos + 2)
    <3>3. /\ text = NameAt(a + 1) /\ class = NameAt(pos + 2) /\ pos' = AfterName(a + 1)
          /\ ByteAt(pos + 1) = TypeTag /\ ByteAt(a) = Tag("string")
      BY <1>4, <1>5, <2>1, <3>2
    <3>4. /\ x.value = 0 /\ Len(x.class) \in Nat /\ Len(x.text) \in Nat /\ Len(input) \in Nat
          /\ NameAt(pos + 2) = x.class
          /\ \/ /\ NameAt(a + 1) = x.text /\ AfterName(a + 1) = pos + Len(Written(message, NewId))
                /\ AfterName(a + 1) \in pos .. Len(input) + 1
             \/ /\ cut /\ AfterName(a + 1) = Len(input) + 1 /\ IsPrefix(NameAt(a + 1), x.text)
                /\ AfterName(a + 1) \in pos .. Len(input) + 1
      BY <2>2, <3>3, RemoteBytes
    <3>0. x.type = "remote"
      BY <2>2
    <3>00. y.value = 0 /\ y.text = text /\ y.class = class
      BY <2>2
    <3> HIDE DEF a, x, y, text, class, wanting
    <3>5. pos' \in pos .. Len(input) + 1
      BY <3>3, <3>4
    <3>6. CASE NameAt(a + 1) = x.text /\ AfterName(a + 1) = pos + Len(Written(message, NewId))
      <4>1. SaysSame(y, x)
        BY <3>00, <3>3, <3>4, <3>6 DEF SaysSame
      <4> QED
        BY <3>2, <3>3, <3>5, <3>6, <4>1
    <3>7. CASE cut /\ AfterName(a + 1) = Len(input) + 1 /\ IsPrefix(NameAt(a + 1), x.text)
      <4>1. IsPrefix(y.class, x.class)
        BY <3>00, <3>3, <3>4, SelfIsPrefix
      <4>2. IsPrefix(y.text, x.text)
        BY <3>00, <3>3, <3>7
      <4>3. Begun(y, x)
        BY <3>0, <3>00, <3>4, <4>1, <4>2 DEF Begun
      <4>4. pos' > Len(input)
        BY <3>3, <3>4, <3>7
      <4>5. Out(Came, pos')
        BY <3>7, <4>4, CameIs DEF Out
      <4> QED
        BY <3>2, <3>5, <4>3, <4>5
    <3> QED
      BY <3>4, <3>6, <3>7
  <2> HIDE DEF text, class, wanting
  <2> QED
    BY <1>3, <2>1, <2>2, LeafReads
<1>6. CASE ~(ByteAt(pos + 1) = TypeTag /\ ByteAt(c.next) = Tag("string"))
  <2>1. mode' = "failing" /\ short' = (short \/ c.starved)
    BY <1>2, <1>6 DEF Fails
  <2> SUFFICES ASSUME Fair, Fair' PROVE SoFar'
    BY <1>3, <2>1, StepReads
  <2>2. Reading
    BY <1>3, ReadingSo
  <2>3. NodeStarts /\ message[NewId].type = "remote"
    BY <1>3, <2>2, NodeIsNext
  <2>4. ~short'
    BY DEF Fair
  <2>5. c.next = AfterName(pos + 2)
    BY <1>4, <2>1, <2>4
  <2>6. cut
    BY <1>6, <2>2, <2>3, <2>5, RemoteBytes
  <2>7. ~loose'
    BY <1>3, NotLoose
  <2> QED
    BY <1>3, <2>1, <2>6, <2>7, FailsSo
<1> QED
  BY <1>5, <1>6

-----------------------------------------------------------------------------
(* Nodes that are read in steps.                                           *)

\* h2 is the heap with one more object, for the next node, that frame g of
\* stack gs reads
ReadsHead(h2, gs, g, p2) ==
  /\ Len(h2) = NewId /\ \A x \in 1 .. Len(heap) : h2[x] = heap[x]
  /\ h2[NewId].type = message[NewId].type /\ h2[NewId].parts = <<>>
  /\ Len(gs) = Len(frames) + 1 /\ gs[Len(gs)] = g /\ \A k \in 1 .. Len(frames) : gs[k] = frames[k]
  /\ g.obj = NewId /\ g.refs = <<>> /\ p2 \in Nat /\ pos <= p2

HeadSays(h2, g, p2) ==
  \/ /\ message[NewId].type \in Texts /\ g.step = "chunks"
     /\ SaysSame(h2[NewId], [message[NewId] EXCEPT !.text = <<>>])
     /\ g.tag = HeadOf(message[NewId], 0) /\ p2 = pos + 1
  \/ /\ message[NewId].type \in Containers /\ g.step = "parts"
     /\ \/ SaysSame(h2[NewId], message[NewId]) /\ p2 = pos + Len(Opening(message[NewId]))
        \/ Out(Came, p2) /\ (SaysSame(h2[NewId], message[NewId]) \/ Begun(h2[NewId], message[NewId]))

LEMMA HeadIsRead ==
  ASSUME Reading, NodeStarts, ~Out(Came, pos), NEW h2, NEW gs, NEW g, NEW p2, ReadsHead(h2, gs, g, p2),
         HeadSays(h2, g, p2), NEW r, gs # <<>>
  PROVE  MessageRead(Came, gs, h2, p2, "reading", r)
<1> DEFINE n == Len(heap)
           o == NewId
           d == message
           x == d[o]
           c == Len(frames)
<1>0. n = Len(heap) /\ o = NewId /\ d = message /\ o = n + 1 /\ Came.doc = d /\ x = d[o] /\ c = Len(frames)
  BY CameIs DEF NewId
<1>1. /\ d \in Answers /\ Len(input) \in Nat /\ pos \in Nat /\ n \in Nat /\ c \in Nat
      /\ IsStack(frames, n)
  BY ReadingHas DEF Reading
<1> HIDE DEF n, o, d, c
<1>2. /\ Len(h2) = o /\ \A y \in 1 .. n : h2[y] = heap[y]
      /\ h2[o].type = d[o].type /\ h2[o].parts = <<>>
      /\ Len(gs) = c + 1 /\ gs[Len(gs)] = g /\ \A k \in 1 .. c : gs[k] = frames[k]
      /\ g.obj = o /\ g.refs = <<>> /\ p2 \in Nat /\ pos <= p2
  BY <1>0 DEF ReadsHead
<1>3. /\ o \in 1 .. Len(d) /\ Awaits(Came, frames, c, o) /\ Lies(Came, Written(d, o), pos)
      /\ c > 0 => \E q : StartsAt(Came, frames, q) /\ pos = q + Len(Ahead(d, Top.obj, Len(Top.refs)))
  BY <1>0 DEF NodeStarts
<1>4. \A k \in 1 .. c : frames[k].obj \in 1 .. n
  BY <1>0, <1>1 DEF IsStack, IsFrame
<1>5. IsNode(x, o + 1 .. Len(d)) /\ Len(x.parts) \in Nat
  BY <1>0, <1>1, <1>3, DocumentIs, NextIs
<1>6. g.step \in {"chunks", "parts"} /\ (g.step = "chunks" <=> x.type \in Texts)
  BY <1>0 DEF HeadSays, Texts, Containers
<1>7. FrameRead(Came, g, h2, p2)
  <2>1. /\ g.obj = o /\ o \in 1 .. Len(Came.doc) /\ Len(g.refs) = 0 /\ 0 <= Len(Came.doc[o].parts)
        /\ h2[o].parts = <<>>
    BY <1>0, <1>2, <1>3, <1>5
  <2>2. g.step \in {"chunks", "end"} <=> Came.doc[o].type \in Texts
    BY <1>0, <1>6
  <2>3. g.step # "moving"
    BY <1>6
  <2>4. \A k \in 1 .. 0 : g.refs[k] = Came.doc[o].parts[k]
    OBVIOUS
  <2> QED
    BY <2>1, <2>2, <2>3, <2>4 DEF FrameRead
<1>8. StackRead(Came, gs, h2, p2)
  <2>1. c \in Nat /\ c <= Len(frames) /\ Len(frames) \in Nat
        /\ \A k \in 1 .. c : gs[k] = frames[k] /\ h2[frames[k].obj].parts = heap[frames[k].obj].parts
    BY <1>0, <1>1, <1>2, <1>4
  <2>2. StackRead(Came, frames, heap, pos)
    BY ReadingHas
  <2>3. \A k \in 1 .. c : FrameRead(Came, gs[k], h2, p2) /\ Awaits(Came, gs, k - 1, gs[k].obj)
    BY <2>1, <2>2, StackStays
  <2>4. Awaits(Came, gs, c, g.obj)
    <3>1. c = 0 \/ gs[c] = frames[c]
      BY <1>1, <1>2
    <3> QED
      BY <1>2, <1>3, <3>1, AwaitsStays
  <2>5. ASSUME NEW k \in 1 .. Len(gs) PROVE FrameRead(Came, gs[k], h2, p2) /\ Awaits(Came, gs, k - 1, gs[k].obj)
    <3>1. CASE k \in 1 .. c
      BY <2>3, <3>1
    <3>2. CASE k = c + 1
      <4>1. k - 1 = c /\ gs[k] = g
        BY <1>1, <1>2, <3>2
      <4> QED
        BY <1>7, <2>4, <4>1
    <3> QED
      BY <1>1, <1>2, <3>1, <3>2
  <2> QED
    BY <2>5 DEF StackRead
<1>9. /\ ~InChunks(frames, o) /\ ~IsOpen(frames, o)
      /\ IsOpen(gs, o)
      /\ InChunks(gs, o) <=> g.step = "chunks"
      /\ \A y \in 1 .. n : (IsOpen(gs, y) <=> IsOpen(frames, y)) /\ (InChunks(gs, y) <=> InChunks(frames, y))
  <2>1. \A k \in 1 .. c + 1 : k \in 1 .. c \/ k = c + 1
    BY <1>1
  <2>2. c + 1 \in 1 .. c + 1 /\ \A k \in 1 .. c : k \in 1 .. c + 1
    BY <1>1
  <2>3. \A y \in 1 .. n : y # o
    BY <1>0, <1>1
  <2>4. /\ \A k \in 1 .. c : gs[k].obj = frames[k].obj /\ gs[k].step = frames[k].step /\ frames[k].obj # o
        /\ gs[c + 1].obj = o /\ gs[c + 1].step = g.step /\ Len(gs) = c + 1 /\ Len(frames) = c
    BY <1>0, <1>2, <1>4, <2>3
  <2> QED
    BY <2>1, <2>2, <2>3, <2>4 DEF IsOpen, InChunks
<1>10. ASSUME NEW y \in 1 .. n PROVE NodeRead(Came, gs, h2, p2, y)
  <2>1. NodeRead(Came, frames, heap, pos, y)
    BY <1>0, <1>10, ReadingHas
  <2>2. Alike(h2[y], heap[y])
    BY <1>2 DEF Alike
  <2> QED
    BY <1>9, <2>1, <2>2, NodeStays
<1>11. NodeRead(Came, gs, h2, p2, o)
  <2>1. CASE x.type \in Texts
    <3>1. SaysSame(h2[o], [x EXCEPT !.text = <<>>])
      BY <1>0, <2>1 DEF HeadSays, Texts, Containers
    <3>2. [x EXCEPT !.text = <<>>].value = x.value /\ [x EXCEPT !.text = <<>>].class = x.class
      <4>1. x = Node(x.type, x.value, x.text, x.class, x.parts)
        BY <1>5, NodeIs
      <4> HIDE DEF x
      <4> QED
        BY <4>1 DEF Node
    <3>3. h2[o].value = x.value /\ h2[o].class = x.class
      BY <3>1, <3>2 DEF SaysSame
    <3> QED
      BY <1>0, <1>2, <1>6, <1>9, <2>1, <3>3 DEF NodeRead
  <2>2. CASE x.type \notin Texts
    <3>1. SaysSame(h2[o], x) \/ (Out(Came, p2) /\ Begun(h2[o], x))
      BY <1>0, <2>2 DEF HeadSays
    <3>2. NodeSays(Came, h2, p2, o)
      BY <1>0, <1>2, <3>1 DEF NodeSays
    <3> QED
      BY <1>0, <1>2, <1>6, <1>9, <2>2, <3>2 DEF NodeRead
  <2> QED
    BY <2>1, <2>2
<1>12. ASSUME NEW y \in 1 .. Len(h2) PROVE NodeRead(Came, gs, h2, p2, y)
  <2>1. y \in 1 .. n \/ y = o
    BY <1>0, <1>1, <1>2
  <2> QED
    BY <1>10, <1>11, <2>1
<1>13. NextNode(d, o, 0) = o + 1
  BY <1>1, <1>3, NextIs
<1>14. StartsAt(Came, gs, pos)
  <2>1. Len(frames) > 0 => \E q : StartsAt(Came, frames, q) /\ pos = q + Len(Ahead(Came.doc, frames[Len(frames)].obj, Len(frames[Len(frames)].refs)))
    BY <1>0, <1>3 DEF Top
  <2>2. /\ Len(frames) \in Nat /\ Len(gs) = Len(frames) + 1 /\ pos \in Nat
        /\ \A k \in 1 .. Len(frames) : gs[k] = frames[k]
    BY <1>0, <1>1, <1>2
  <2>3. Lies(Came, Written(Came.doc, gs[Len(gs)].obj), pos)
    BY <1>0, <1>2, <1>3
  <2> QED
    BY <2>1, <2>2, <2>3, StartsAbove
<1>15. ASSUME ~Out(Came, p2) PROVE InPlace(Came, g, h2, pos, p2)
  <2>1. CASE x.type \in Texts
    <3>1. g.step = "chunks" /\ SaysSame(h2[o], [x EXCEPT !.text = <<>>]) /\ g.tag = HeadOf(x, 0) /\ p2 = pos + 1
      BY <1>0, <2>1 DEF HeadSays, Texts, Containers
    <3>2. h2[o].text = <<>>
      <4>1. x = Node(x.type, x.value, x.text, x.class, x.parts)
        BY <1>5, NodeIs
      <4>2. [x EXCEPT !.text = <<>>].text = <<>>
        <5> HIDE DEF x
        <5> QED
          BY <4>1 DEF Node
      <4> QED
        BY <3>1, <4>2 DEF SaysSame
    <3>3. Full(x) \in Nat /\ Point(x, 0) = 0
      BY <1>5, <2>1, UnitsAre, PointsAre
    <3>4. 0 \in 0 .. Full(x) /\ p2 = pos + 3 * 0 + Point(x, 0) + 1
      BY <1>1, <3>1, <3>3
    <3>5. h2[o].text = SubSeq(x.text, 1, Point(x, 0))
      BY <3>2, <3>3, EmptyPart
    <3>6. g.tag = IF 0 < Full(x) THEN ChunkTag(x.type) ELSE Tag(x.type)
      BY <3>1 DEF HeadOf
    <3>7. AtChunk(Came, g, h2, pos, p2)
      BY <1>0, <1>2, <3>4, <3>5, <3>6 DEF AtChunk
    <3> QED
      BY <3>1, <3>7 DEF InPlace
  <2>2. CASE x.type \notin Texts
    <3>1. g.step = "parts" /\ x.type \in {"list", "map"} /\ p2 = pos + Len(Opening(x))
      BY <1>0, <1>15, <2>2 DEF HeadSays, Containers
    <3>2. Ahead(d, o, 0) = Opening(x)
      BY <1>0, <1>1, <1>3, <3>1, AheadIs
    <3>3. p2 = pos + Len(Ahead(d, o, 0)) /\ Len(g.refs) = 0
      BY <1>2, <3>1, <3>2
    <3> QED
      BY <1>0, <1>2, <3>1, <3>3 DEF InPlace
  <2> QED
    BY <2>1, <2>2
<1>16. PlaceRead(Came, gs, h2, p2)
  <2>1. /\ gs[Len(gs)].obj = o /\ Len(gs[Len(gs)].refs) = 0 /\ gs[Len(gs)] = g
    BY <1>2
  <2>2. NextNode(d, o, 0) = Len(h2) + 1 /\ NextNode(d, o, 0) > Len(h2)
    BY <1>0, <1>1, <1>2, <1>13
  <2> QED
    BY <1>0, <1>14, <1>15, <2>1, <2>2 DEF PlaceRead
<1>17. Len(h2) <= Len(Came.doc)
  BY <1>0, <1>2, <1>3
<1>18. AllRead(Came, gs, h2, p2)
  BY <1>8, <1>12, <1>16, <1>17 DEF AllRead
<1> QED
  BY <1>18 DEF MessageRead

-----------------------------------------------------------------------------
\* After the opening comes a tag, of a node or of the end.
LEMMA AfterOpening ==
  ASSUME Reading, NodeStarts, message[NewId].type \in {"list", "map"},
         ByteAt(pos + Len(Opening(message[NewId]))) \in {TypeTag, LengthTag}
  PROVE  Out(Came, pos + Len(Opening(message[NewId])))
<1> DEFINE d == message
           o == NewId
           x == d[o]
           ps == x.parts
           p == pos + Len(Opening(x))
<1>1. /\ d \in Answers /\ o \in 1 .. Len(d) /\ Lies(Came, Written(d, o), pos) /\ Len(input) \in Nat /\ pos \in Nat
      /\ pos >= 1
  BY ReadingHas DEF Reading, NodeStarts
<1>0. x = d[o] /\ ps = d[o].parts /\ d[o].type \in {"list", "map"}
  OBVIOUS
<1>6. p = pos + Len(Opening(x)) /\ ByteAt(p) \in {TypeTag, LengthTag}
  OBVIOUS
<1> SUFFICES ASSUME ~Out(Came, p) PROVE FALSE
  OBVIOUS
<1> HIDE DEF d, o, x, ps, p
<1>2. /\ Len(ps) \in Nat /\ Ahead(d, o, 0) = Opening(x) /\ Len(Ahead(d, o, 0)) \in Nat
      /\ \A k \in 1 .. Len(ps) : Lies(Came, Written(d, ps[k]), pos + Len(Ahead(d, o, k - 1)))
      /\ Lies(Came, << 122 >>, pos + Len(Ahead(d, o, Len(ps))))
  BY <1>0, <1>1, AheadIs
<1>3. p \in Nat /\ p >= 1 /\ p = pos + Len(Ahead(d, o, 0))
  BY <1>1, <1>2, <1>6
<1>4. CASE Len(ps) = 0
  <2>1. Lies(Came, << 122 >>, p)
    BY <1>2, <1>3, <1>4
  <2>2. ByteAt(p) = 122
    BY <1>1, <1>3, <2>1, EndByte
  <2> QED
    BY <1>6, <2>2 DEF TypeTag, LengthTag
<1>5. CASE Len(ps) > 0
  <2>1. 1 \in 1 .. Len(ps) /\ 1 - 1 = 0
    BY <1>2, <1>5
  <2> DEFINE q == ps[1]
  <2>2. q \in 1 .. Len(d) /\ Lies(Came, Written(d, q), p)
    <3>1. q \in 1 .. Len(d)
      BY <1>0, <1>1, <2>1, PartIs
    <3>2. Lies(Came, Written(d, ps[1]), pos + Len(Ahead(d, o, 1 - 1)))
      BY <1>2, <2>1
    <3> QED
      BY <1>3, <2>1, <3>1, <3>2
  <2> HIDE DEF q
  <2>3. p <= Len(input) /\ ByteAt(p) = input[p] /\ TypesOf(input[p]) = {d[q].type} /\ input[p] # 122
         /\ input[p] \in Byte /\ Lies(Came, <<input[p]>>, p)
    <3>1. /\ d \in Answers /\ q \in 1 .. Len(d) /\ p \in Nat /\ p >= 1 /\ Len(input) \in Nat
          /\ Lies(Came, Written(d, q), p) /\ ~Out(Came, p)
      BY <1>1, <1>3, <2>2
    <3> QED
      BY <3>1, FirstByte
  <2>4. TypesOf(ByteAt(p)) # {}
    <3>1. d[q].type \in TypesOf(ByteAt(p))
      BY <2>3
    <3> QED
      BY <3>1
  <2>5. TypesOf(TypeTag) = {} /\ TypesOf(LengthTag) = {}
    <3>1. ASSUME NEW t \in Types PROVE /\ Tag(t) # 116 /\ Tag(t) # 108
                                       /\ t \in Chunked => ChunkTag(t) # 116 /\ ChunkTag(t) # 108
      BY TagsAre
    <3> QED
      BY <3>1 DEF TypesOf, TypeTag, LengthTag
  <2> QED
    BY <1>6, <2>4, <2>5
<1> QED
  BY <1>2, <1>4, <1>5

\* where the first part is, when all that is counted was read
CountRead(type, named) ==
  IF type = "list" /\ ByteAt(named) = LengthTag THEN Upto(named + 5) ELSE named

LEMMA CountReads ==
  ASSUME NEW x, NEW S, IsNode(x, S), x.type \in {"list", "map"}, Len(input) \in Nat, NEW p \in Nat, p >= 1,
         p <= Len(input) + 1, Lies(Came, Counting(x), p),
         Len(Counting(x)) = 0 => ByteAt(p) # LengthTag
  PROVE  \/ CountRead(x.type, p) = p + Len(Counting(x)) /\ p + Len(Counting(x)) <= Len(input) + 1
         \/ cut /\ CountRead(x.type, p) = Len(input) + 1
<1>1. CASE Len(Counting(x)) = 0
  BY <1>1 DEF CountRead
<1>2. CASE ~(Len(Counting(x)) = 0)
  <2>0. /\ Counting(x) \in Seq(Byte) /\ Len(x.parts) \in Int32
        /\ Len(Counting(x)) = IF x.type = "list" /\ x.parts # <<>> THEN 5 ELSE 0
    BY CountingIs
  <2>1. x.type = "list" /\ Len(Counting(x)) = 5 /\ Counting(x) = <<LengthTag>> \o Length32(Len(x.parts))
        /\ Len(x.parts) \in Int32
    BY <1>2, <2>0 DEF Counting
  <2> DEFINE w == Counting(x)
             u == Length32(Len(x.parts))
  <2>2. u \in Seq(Byte) /\ LengthTag \in Byte /\ LengthTag # EOF
    BY <2>1, Length32Typed DEF LengthTag, Byte, EOF
  <2>3. w[1] = LengthTag
    <3>1. w = <<LengthTag>> \o u
      BY <2>1
    <3> HIDE DEF u, w
    <3>2. (<<LengthTag>> \o u)[1] = LengthTag
      BY <2>2, Headed
    <3> QED
      BY <3>1, <3>2
  <2>4. Lies(Came, w, p) /\ Len(w) = 5 /\ Len(w) \in Nat
    BY <2>1
  <2> HIDE DEF w, u
  <2>5. \A i \in 1 .. 5 : IF p + i - 1 <= Len(input) THEN input[p + i - 1] = w[i] ELSE cut
    <3> TAKE i \in 1 .. 5
    <3>1. i \in 1 .. Len(w)
      BY <2>4
    <3> QED
      BY <2>4, <3>1, ByteLies
  <2>6. IF p <= Len(input) THEN ByteAt(p) = LengthTag ELSE cut /\ p = Len(input) + 1
    <3>1. IF p + 1 - 1 <= Len(input) THEN input[p + 1 - 1] = w[1] ELSE cut
      BY <2>5
    <3>2. p + 1 - 1 = p
      OBVIOUS
    <3> QED
      BY <2>3, <3>1, <3>2 DEF ByteAt
  <2>7. p + 5 <= Len(input) + 1 \/ cut
    <3>1. IF p + 5 - 1 <= Len(input) THEN input[p + 5 - 1] = w[5] ELSE cut
      BY <2>5
    <3>2. p + 5 - 1 <= Len(input) => p + 5 <= Len(input) + 1
      OBVIOUS
    <3> QED
      BY <3>1, <3>2
  <2>8. CASE p <= Len(input)
    <3>1. CountRead(x.type, p) = Upto(p + 5)
      BY <2>1, <2>6, <2>8 DEF CountRead
    <3>2. p + 5 \in Nat
      OBVIOUS
    <3>3. Upto(p + 5) = IF p + 5 <= Len(input) THEN p + 5 ELSE Len(input) + 1
      BY <3>2, UptoIs
    <3> QED
      BY <2>4, <2>7, <3>1, <3>3 DEF w
  <2>9. CASE ~(p <= Len(input))
    <3>1. p = Len(input) + 1 /\ cut
      BY <2>6, <2>9
    <3>2. ByteAt(p) = EOF
      BY <2>9 DEF ByteAt
    <3>3. CountRead(x.type, p) = p
      BY <2>2, <3>2 DEF CountRead
    <3> QED
      BY <3>1, <3>3
  <2> QED
    BY <2>8, <2>9
<1> QED
  BY <1>1, <1>2

-----------------------------------------------------------------------------
\* what is read of the type of a list or map, and where that ends
ClassRead == IF IsTyped THEN NameAt(pos + 2) ELSE <<>>
AfterClass == IF IsTyped THEN AfterName(pos + 2) ELSE Upto(pos + 1)

OpeningIsRead(x, class, first) ==
  /\ first \in pos .. Len(input) + 1
  /\ \/ class = x.class /\ first = pos + Len(Opening(x))
     \/ cut /\ first = Len(input) + 1 /\ IsPrefix(class, x.class)

LEMMA EmptyIsPrefix ==
  ASSUME NEW s, Len(s) \in Nat
  PROVE  IsPrefix(<<>>, s)
<1>1. SubSeq(s, 1, 0) = <<>>
  BY EmptyPart
<1> QED
  BY <1>1 DEF IsPrefix

LEMMA OpeningBytes ==
  ASSUME Reading, NodeStarts, message[NewId].type \in {"list", "map"}, NEW x, x = message[NewId], NEW n, n = Len(Counting(x))
  PROVE  /\ IsNode(x, NewId + 1 .. Len(message)) /\ IsName(x.class) /\ \A k \in DOMAIN x.class : x.class[k] \notin Missed
         /\ Len(Opening(x)) = 1 + (IF x.class = <<>> THEN 0 ELSE 3 + Len(x.class)) + n
         /\ Len(x.class) \in Nat /\ n \in {0, 5}
         /\ x.class = <<>> => Lies(Came, Counting(x), pos + 1)
         /\ x.class # <<>> => /\ Lies(Came, <<TypeTag>>, pos + 1)
                              /\ Lies(Came, Length16(Chars(x.class)) \o x.class, pos + 2)
                              /\ Lies(Came, Counting(x), pos + 4 + Len(x.class))
         /\ n = 5 => x.type = "list" /\ Counting(x) = <<LengthTag>> \o Length32(Len(x.parts)) /\ Length32(Len(x.parts)) \in Seq(Byte)
         /\ pos = Len(input) => cut
         /\ input \in Seq(Byte) /\ Len(input) \in Nat /\ pos \in Nat /\ pos \in 1 .. Len(input)
<1> DEFINE d == message
           o == NewId
<1>1. /\ d \in Answers /\ o \in 1 .. Len(d) /\ Lies(Came, Written(d, o), pos) /\ Len(input) \in Nat /\ pos \in Nat
      /\ pos \in 1 .. Len(input) /\ input \in Seq(Byte) /\ Readable(d)
  BY ReadingHas DEF Reading, NodeStarts, Fair
<1>0. x = d[o] /\ x.type \in {"list", "map"}
  OBVIOUS
<1>2. IsNode(message[NewId], NewId + 1 .. Len(message)) /\ o \in DOMAIN d
  BY <1>1, DocumentIs
<1> DEFINE S == NewId + 1 .. Len(message)
<1>3. IsNode(x, S) /\ d[o] = x
  BY <1>0, <1>2
<1>4. /\ Len(Ahead(d, o, 0)) \in Nat /\ Len(Ahead(d, o, 0)) >= 1 /\ Len(Written(d, o)) \in Nat /\ Len(Written(d, o)) >= 2
      /\ Lies(Came, Opening(x), pos)
  <2> HIDE DEF d, o, S
  <2> DEFINE c == Len(d[o].parts)
  <2>1. d[o].type \in {"list", "map"}
    BY <1>0
  <2>2. /\ c \in Nat /\ \A k \in 0 .. c : Len(Ahead(d, o, k)) \in Nat /\ Len(Ahead(d, o, k)) >= 1
        /\ Len(Written(d, o)) = Len(Ahead(d, o, c)) + 1
        /\ \A m : \A q \in Nat : Lies(m, Written(d, o), q) => Lies(m, Opening(d[o]), q)
    BY <1>1, <2>1, AheadIs
  <2> HIDE DEF c
  <2>3. 0 \in 0 .. c /\ c \in 0 .. c
    BY <2>2
  <2> QED
    BY <1>0, <1>1, <2>2, <2>3
<1>5. pos = Len(input) => cut
  <2> DEFINE w == Written(d, o)
  <2>1. w = Written(d, o) /\ Lies(Came, w, pos) /\ 2 \in 1 .. Len(w)
    BY <1>1, <1>4
  <2> HIDE DEF w
  <2>2. \A i \in 1 .. Len(w) : IF pos + i - 1 <= Len(input) THEN input[pos + i - 1] = w[i] ELSE cut
    BY <2>1, CameIs DEF Lies
  <2> DEFINE i == 2
  <2>3. i \in 1 .. Len(w) /\ i = 2
    BY <2>1
  <2> HIDE DEF i
  <2>4. IF pos + i - 1 <= Len(input) THEN input[pos + i - 1] = w[i] ELSE cut
    BY <2>2, <2>3
  <2> QED
    BY <1>1, <2>3, <2>4
<1>6. \A k \in DOMAIN x.class : x.class[k] \notin Missed
  BY <1>1, <1>2, <1>3 DEF Readable
<1> HIDE DEF d, o, S
<1>7. IsName(x.class)
  BY <1>0, <1>3, NodeIs
<1>8. /\ Len(Opening(x)) = 1 + (IF x.class = <<>> THEN 0 ELSE 3 + Len(x.class)) + Len(Counting(x))
      /\ Len(x.class) \in Nat
      /\ \A m : \A p \in Nat : Lies(m, Opening(x), p) =>
              /\ Lies(m, <<Tag(x.type)>>, p)
              /\ x.class = <<>> => Lies(m, Counting(x), p + 1)
              /\ x.class # <<>> => /\ Lies(m, <<TypeTag>>, p + 1)
                                   /\ Lies(m, Length16(Chars(x.class)) \o x.class, p + 2)
                                   /\ Lies(m, Counting(x), p + 4 + Len(x.class))
  BY <1>0, <1>3, OpeningIs
<1>9. /\ x.class = <<>> => Lies(Came, Counting(x), pos + 1)
      /\ x.class # <<>> => /\ Lies(Came, <<TypeTag>>, pos + 1)
                           /\ Lies(Came, Length16(Chars(x.class)) \o x.class, pos + 2)
                           /\ Lies(Came, Counting(x), pos + 4 + Len(x.class))
  <2>1. \A p \in Nat : Lies(Came, Opening(x), p) =>
              /\ Lies(Came, <<Tag(x.type)>>, p)
              /\ x.class = <<>> => Lies(Came, Counting(x), p + 1)
              /\ x.class # <<>> => /\ Lies(Came, <<TypeTag>>, p + 1)
                                   /\ Lies(Came, Length16(Chars(x.class)) \o x.class, p + 2)
                                   /\ Lies(Came, Counting(x), p + 4 + Len(x.class))
    BY <1>8, Zenon
  <2> QED
    BY <1>1, <1>4, <2>1
<1>10. /\ Len(x.parts) \in Int32 /\ Len(Counting(x)) = IF x.type = "list" /\ x.parts # <<>> THEN 5 ELSE 0
  BY <1>0, <1>3, CountingIs
<1>11. n \in {0, 5}
  BY <1>10
<1>12. n = 5 => x.type = "list" /\ Counting(x) = <<LengthTag>> \o Length32(Len(x.parts))
  BY <1>10 DEF Counting
<1>13. Length32(Len(x.parts)) \in Seq(Byte)
  BY <1>10, Length32Typed
<1>14. IsNode(x, NewId + 1 .. Len(message))
  BY <1>3 DEF S
<1> QED
  BY <1>1, <1>5, <1>6, <1>7, <1>8, <1>9, <1>11, <1>12, <1>13, <1>14

LEMMA TwoBytesCount == ASSUME NEW b \in 0 .. 255, NEW g \in 0 .. 255 PROVE b * 256 + g # Huge
  BY DEF Huge

LEMMA OpeningReads ==
  ASSUME Reading, NodeStarts, message[NewId].type \in {"list", "map"}, NEW x, x = message[NewId]
  PROVE  /\ OpeningIsRead(x, ClassRead, CountRead(x.type, AfterClass))
         /\ IsTyped /\ LengthAt(pos + 2) = Huge => cut
<1> DEFINE n == Len(Counting(x))
           t == x.class
           c == ClassRead
           a == AfterClass
           e == pos + Len(Opening(x))
<1>1. /\ IsNode(x, NewId + 1 .. Len(message)) /\ IsName(x.class) /\ \A k \in DOMAIN x.class : x.class[k] \notin Missed
      /\ Len(Opening(x)) = 1 + (IF x.class = <<>> THEN 0 ELSE 3 + Len(x.class)) + n
      /\ Len(x.class) \in Nat /\ n \in {0, 5}
      /\ x.class = <<>> => Lies(Came, Counting(x), pos + 1)
      /\ x.class # <<>> => /\ Lies(Came, <<TypeTag>>, pos + 1)
                           /\ Lies(Came, Length16(Chars(x.class)) \o x.class, pos + 2)
                           /\ Lies(Came, Counting(x), pos + 4 + Len(x.class))
      /\ n = 5 => x.type = "list" /\ Counting(x) = <<LengthTag>> \o Length32(Len(x.parts)) /\ Length32(Len(x.parts)) \in Seq(Byte)
      /\ pos = Len(input) => cut
      /\ input \in Seq(Byte) /\ Len(input) \in Nat /\ pos \in Nat /\ pos \in 1 .. Len(input)
  BY OpeningBytes
<1>0. c = ClassRead /\ a = AfterClass /\ x.type \in {"list", "map"} /\ TypeTag \in Byte /\ LengthTag \in Byte /\ t = x.class
      /\ EOF # TypeTag /\ EOF # LengthTag /\ TypeTag # LengthTag
  BY DEF TypeTag, LengthTag, Byte, EOF
<1>2. e \in Nat /\ (ByteAt(e) \in {TypeTag, LengthTag} => Out(Came, e))
      /\ e = pos + 1 + (IF t = <<>> THEN 0 ELSE 3 + Len(t)) + n /\ e >= pos
  <2>1. ByteAt(pos + Len(Opening(message[NewId]))) \in {TypeTag, LengthTag} => Out(Came, pos + Len(Opening(message[NewId])))
    BY AfterOpening
  <2>2. ByteAt(e) \in {TypeTag, LengthTag} => Out(Came, e)
    BY <2>1
  <2> DEFINE l == Len(Opening(x))
             k == Len(t)
  <2>3. e = pos + l /\ l = 1 + (IF t = <<>> THEN 0 ELSE 3 + k) + n /\ k \in Nat /\ pos \in Nat /\ n \in Nat
    BY <1>1
  <2> HIDE DEF l, k, n
  <2>4. e \in Nat /\ e = pos + 1 + (IF t = <<>> THEN 0 ELSE 3 + k) + n /\ e >= pos
    BY <2>3
  <2> QED
    BY <2>2, <2>4 DEF k
<1> HIDE DEF c, a, e
<1>3. ByteAt(e) \notin {TypeTag, LengthTag}
  <2>1. Out(Came, e) => ByteAt(e) = EOF
    BY <1>2, NoByte
  <2> QED
    BY <1>0, <1>2, <2>1
<1>4. ASSUME NEW p \in Nat, p >= 1, p <= Len(input) + 1, Lies(Came, Counting(x), p), p + n = e
      PROVE  \/ CountRead(x.type, p) = e /\ e <= Len(input) + 1
             \/ cut /\ CountRead(x.type, p) = Len(input) + 1
  <2>1. n = 0 => ByteAt(p) # LengthTag
    BY <1>2, <1>3, <1>4
  <2> DEFINE S == NewId + 1 .. Len(message)
  <2>2. IsNode(x, S)
    BY <1>1
  <2> HIDE DEF S
  <2>3. \/ CountRead(x.type, p) = p + Len(Counting(x)) /\ p + Len(Counting(x)) <= Len(input) + 1
        \/ cut /\ CountRead(x.type, p) = Len(input) + 1
    BY <1>0, <1>1, <1>4, <2>1, <2>2, CountReads
  <2> QED
    BY <1>4, <2>3
<1> DEFINE first == CountRead(x.type, a)
<1>5. first = CountRead(x.type, a)
  OBVIOUS
<1> HIDE DEF first
<1>6. ASSUME cut, first = Len(input) + 1, IsPrefix(c, t)
      PROVE  OpeningIsRead(x, c, first)
  BY <1>0, <1>1, <1>6 DEF OpeningIsRead
<1>7. ASSUME c = t, first = e, e <= Len(input) + 1
      PROVE  OpeningIsRead(x, c, first)
  <2>1. e \in pos .. Len(input) + 1
    <3>1. pos \in Nat /\ Len(input) \in Nat /\ e \in Nat /\ e >= pos /\ e <= Len(input) + 1
      BY <1>1, <1>2, <1>7
    <3> QED
      BY <3>1
  <2> QED
    BY <1>0, <1>7, <2>1 DEF OpeningIsRead, e
<1>8. CASE pos = Len(input)
  <2>1. ByteAt(pos + 1) = EOF /\ ~IsTyped
    BY <1>0, <1>1, <1>8 DEF ByteAt, IsTyped
  <2>2. c = <<>> /\ a = Len(input) + 1
    BY <1>0, <1>1, <1>8, <2>1 DEF ClassRead, AfterClass, Upto
  <2>3. first = Len(input) + 1
    <3>1. ByteAt(a) = EOF
      BY <1>8, <2>1, <2>2
    <3> QED
      BY <1>0, <1>5, <2>2, <3>1 DEF CountRead
  <2>4. IsPrefix(c, t)
    BY <1>0, <1>1, <2>2, EmptyIsPrefix
  <2> QED
    BY <1>0, <1>1, <1>5, <1>6, <1>8, <2>1, <2>3, <2>4
<1>9. CASE ~(pos = Len(input)) /\ t # <<>>
  <2> DEFINE p == pos + 2
             q == pos + 4 + Len(t)
  <2>1. IsTyped
    <3>1. Lies(Came, <<TypeTag>>, pos + 1) /\ pos + 1 \in Nat /\ pos + 1 <= Len(input)
      BY <1>0, <1>1, <1>9
    <3>2. ByteAt(pos + 1) = TypeTag
      BY <1>0, <1>1, <3>1, OneByte
    <3> QED
      BY <3>2 DEF IsTyped
  <2>2. p \in Nat /\ 1 <= p /\ Lies(Came, Length16(Chars(t)) \o t, p) /\ IsName(t) /\ p = pos + 2
        /\ \A k \in DOMAIN t : t[k] \notin Missed
    <3>1. p \in Nat /\ 1 <= p /\ p = pos + 2
      BY <1>1
    <3>2. Lies(Came, Length16(Chars(t)) \o t, p)
      BY <1>1, <1>9
    <3>3. IsName(t) /\ \A k \in DOMAIN t : t[k] \notin Missed
      BY <1>1
    <3> QED
      BY <3>1, <3>2, <3>3
  <2>3. c = NameAt(p) /\ a = AfterName(p)
    BY <1>0, <2>1 DEF ClassRead, AfterClass
  <2>4. q \in Nat /\ q >= 1 /\ q = p + 2 + Len(t) /\ Lies(Came, Counting(x), q) /\ q + n = e /\ Len(t) \in Nat
    <3> DEFINE k == Len(t)
    <3>0. q = pos + 4 + k /\ p = pos + 2 /\ pos \in Nat /\ k \in Nat
      BY <1>1
    <3>1. q \in Nat /\ q >= 1 /\ q = p + 2 + k /\ k \in Nat
      <4> HIDE DEF q, p, k
      <4> QED
        BY <3>0
    <3>2. Lies(Came, Counting(x), q)
      BY <1>1, <1>9
    <3>3. e = pos + 1 + (3 + Len(t)) + n /\ n \in Nat /\ pos \in Nat
      BY <1>1, <1>2, <1>9
    <3>4. q = pos + 4 + k /\ k \in Nat /\ e = pos + 1 + (3 + k) + n /\ n \in Nat /\ pos \in Nat
      BY <3>0, <3>3
    <3>5. q + n = e
      <4> HIDE DEF q, k, n
      <4> QED
        BY <3>4
    <3> QED
      BY <3>1, <3>2, <3>5
  <2> HIDE DEF p, q, t
  <2>5. NameIsRead(t, p)
    BY <1>1, <2>2, NameSo
  <2>6. LengthAt(p) = Huge => cut
    <3>1. CASE p + 1 + Len(t) <= Len(input)
      <4>1. p + 1 <= Len(input) /\ p \in 1 .. Len(input) /\ p + 1 \in 1 .. Len(input)
        BY <1>1, <2>2, <2>4, <3>1
      <4> DEFINE j == p + 1
                 b == input[p]
                 g == input[j]
      <4>2. b \in 0 .. 255 /\ g \in 0 .. 255
        <5>1. j \in 1 .. Len(input) /\ p \in 1 .. Len(input)
          BY <4>1
        <5>2. input \in Seq(Byte)
          BY <1>1
        <5> HIDE DEF j
        <5>3. b \in Byte /\ g \in Byte
          BY <5>1, <5>2
        <5> QED
          BY <5>3, Zenon DEF Byte
      <4>3. LengthAt(p) = b * 256 + g
        BY <4>1 DEF LengthAt
      <4> HIDE DEF b, g
      <4>4. b * 256 + g # Huge
        BY <4>2, TwoBytesCount, Zenon
      <4> QED
        BY <4>3, <4>4, Zenon
    <3> QED
      BY <2>5, <3>1 DEF NameIsRead
  <2>7. CASE p + 1 + Len(t) <= Len(input) /\ NameAt(p) = t /\ AfterName(p) = p + 2 + Len(t)
    <3>1. q <= Len(input) + 1 /\ a = q /\ c = t
      <4> DEFINE w == Len(t)
                 n0 == Len(input)
      <4>1. q = p + 2 + w /\ p \in Nat /\ w \in Nat /\ p + 1 + w <= n0 /\ n0 \in Nat /\ AfterName(p) = p + 2 + w
        BY <1>1, <2>2, <2>4, <2>7
      <4> HIDE DEF w, n0
      <4>2. q <= n0 + 1 /\ AfterName(p) = q
        BY <4>1
      <4>3. a = q /\ c = t
        BY <2>3, <2>7, <4>2
      <4> QED
        BY <4>2, <4>3 DEF n0
    <3>2. \/ first = e /\ e <= Len(input) + 1
          \/ cut /\ first = Len(input) + 1
      BY <1>4, <1>5, <2>4, <3>1
    <3>3. IsPrefix(c, t)
      BY <1>0, <1>1, <3>1, SelfIsPrefix
    <3> QED
      BY <1>0, <1>5, <1>6, <1>7, <2>2, <2>6, <3>1, <3>2, <3>3
  <2>8. CASE cut /\ AfterName(p) = Len(input) + 1 /\ IsPrefix(NameAt(p), t)
    <3>1. a = Len(input) + 1 /\ ByteAt(a) = EOF
      BY <1>1, <2>3, <2>8 DEF ByteAt
    <3>2. first = Len(input) + 1
      BY <1>0, <1>5, <3>1 DEF CountRead
    <3> QED
      BY <1>0, <1>5, <1>6, <2>3, <2>8, <3>2
  <2> QED
    BY <2>5, <2>7, <2>8 DEF NameIsRead
<1>10. CASE ~(pos = Len(input)) /\ t = <<>>
  <2> DEFINE p == pos + 1
  <2>1. p \in Nat /\ p >= 1 /\ p <= Len(input) /\ p + n = e /\ Lies(Came, Counting(x), p) /\ p = pos + 1
    BY <1>0, <1>1, <1>2, <1>10
  <2> HIDE DEF p
  <2>2. ByteAt(p) # TypeTag
    <3>1. CASE n = 0
      BY <1>2, <1>3, <2>1, <3>1
    <3>2. CASE n = 5
      <4> DEFINE u == Length32(Len(x.parts))
      <4>1. Lies(Came, <<LengthTag>> \o u, p) /\ u \in Seq(Byte)
        BY <1>1, <2>1, <3>2
      <4> HIDE DEF u
      <4>2. Lies(Came, <<LengthTag>>, p)
        BY <1>0, <2>1, <4>1, HeadedLies
      <4>3. ByteAt(p) = LengthTag
        BY <1>0, <1>1, <2>1, <4>2, OneByte
      <4> QED
        BY <1>0, <4>3
    <3> QED
      BY <1>1, <3>1, <3>2
  <2>3. ~IsTyped
    BY <2>1, <2>2 DEF IsTyped
  <2>4. c = <<>> /\ a = p
    BY <1>0, <1>1, <2>1, <2>3 DEF ClassRead, AfterClass, Upto
  <2>5. \/ first = e /\ e <= Len(input) + 1
        \/ cut /\ first = Len(input) + 1
    BY <1>1, <1>4, <1>5, <2>1, <2>4
  <2>6. IsPrefix(c, t) /\ c = t
    BY <1>0, <1>1, <1>10, <2>4, SelfIsPrefix
  <2> QED
    BY <1>0, <1>5, <1>6, <1>7, <2>3, <2>5, <2>6
<1> QED
  BY <1>8, <1>9, <1>10

-----------------------------------------------------------------------------
(* Steps that push a frame.                                                *)

LEMMA HeadReads ==
  ASSUME DInv, RInv, misuse = "none", NEW type, NEW class, NEW next, Reads(type), Opens(type, class, next),
         UNCHANGED wire, UNCHANGED <<misuse, loose>>, short => short', mode' = mode \/ mode' = "failing",
         NEW g, g = [obj |-> NewId, tag |-> ByteAt(pos), refs |-> <<>>,
                     step |-> IF type \in Texts THEN "chunks" ELSE "parts", done |-> 0],
         Reading /\ Fair' /\ NodeStarts /\ message[NewId].type = type /\ ~Out(Came, pos)
           /\ heap'[NewId].value = 0 /\ heap'[NewId].text = <<>> /\ heap'[NewId].class = class
         => /\ next \in pos .. Len(input) + 1
            /\ mode' = "failing" => cut \/ short'
            /\ HeadSays(heap', g, next)
  PROVE  RInv'
<1>1. mode = "reading" /\ mode # "idle" /\ ReadsTag
  BY DEF Reads, ReadsTag
<1> SUFFICES ASSUME Fair, Fair' PROVE SoFar'
  BY <1>1, StepReads
<1>2. Reading
  BY <1>1, ReadingSo
<1>3. NodeStarts /\ message[NewId].type = type /\ ~Out(Came, pos)
  BY <1>2, NodeIsNext
<1>4. heap' = Allocated(Object(type, 0, <<>>, class)) /\ pos' = next /\ frames' = Append(frames, g)
  BY DEF Opens
<1>5. IsHeap(heap) /\ Len(heap) \in Nat /\ IsStack(frames, Len(heap)) /\ Len(frames) \in Nat /\ Len(input) \in Nat
      /\ pos \in Nat /\ pos >= 1
  BY <1>2, ReadingHas DEF Reading
<1>6. Len(heap') = NewId /\ \A x \in 1 .. Len(heap) : heap'[x] = heap[x]
  BY <1>4, <1>5, AllocatedIs DEF Allocated, NewId
<1> DEFINE e == Object(type, 0, <<>>, class)
<1>7. heap'[NewId] = e
  <2>1. PICK D : heap \in Seq(D)
    BY <1>5 DEF IsHeap
  <2> HIDE DEF e
  <2>2. heap' = Append(heap, e) /\ heap \in Seq(D \cup {e})
    BY <1>4, <2>1 DEF Allocated, e
  <2> QED
    BY <2>2, Pushed DEF NewId
<1>8. /\ heap'[NewId].type = type /\ heap'[NewId].value = 0 /\ heap'[NewId].text = <<>>
      /\ heap'[NewId].class = class /\ heap'[NewId].parts = <<>>
  BY <1>7 DEF Object
<1>9. /\ Len(frames') = Len(frames) + 1 /\ frames' # <<>> /\ frames'[Len(frames')] = g
      /\ \A k \in 1 .. Len(frames) : frames'[k] = frames[k]
  <2>1. PICK D : frames \in Seq(D)
    BY <1>5 DEF IsStack
  <2>2. frames \in Seq(D \cup {g})
    BY <2>1
  <2> DEFINE gs == Append(frames, g)
  <2>3. Len(gs) = Len(frames) + 1 /\ gs # <<>> /\ gs[Len(gs)] = g /\ \A k \in 1 .. Len(frames) : gs[k] = frames[k]
    BY <2>2, Pushed
  <2> QED
    BY <1>4, <2>3
<1>10. g.obj = NewId /\ g.refs = <<>>
  OBVIOUS
<1>11. /\ next \in pos .. Len(input) + 1
       /\ mode' = "failing" => cut \/ short'
       /\ HeadSays(heap', g, next)
  BY <1>2, <1>3, <1>8
<1>12. next \in Nat /\ pos <= next /\ next \in 1 .. Len(input) + 1
  BY <1>5, <1>11
<1>13. ReadsHead(heap', frames', g, next)
  BY <1>3, <1>6, <1>8, <1>9, <1>10, <1>12 DEF ReadsHead
<1>14. MessageRead(Came, frames', heap', next, "reading", result')
  BY <1>2, <1>3, <1>9, <1>11, <1>13, HeadIsRead
<1>15. ~loose
  BY <1>1, NotLoose
<1>16. CASE mode' = "failing"
  BY <1>11, <1>15, <1>16, FailsSo
<1>17. CASE mode' = mode
  <2>1. Came' = Came /\ input' = input /\ ~loose' /\ misuse' = "none" /\ mode' = "reading"
    BY <1>1, <1>15, <1>17, SameMessage
  <2> QED
    BY <1>4, <1>12, <1>14, <2>1 DEF SoFar
<1> QED
  BY <1>16, <1>17

LEMMA ContainerReads ==
  ASSUME DInv, RInv, misuse = "none", OpenContainer
  PROVE  RInv'
<1>1. PICK type \in Containers :
        /\ Reads(type) /\ Opens(type, ClassRead, CountRead(type, AfterClass))
        /\ \/ ~(IsTyped /\ LengthAt(pos + 2) = Huge) /\ mode' = mode /\ UNCHANGED short
           \/ IsTyped /\ LengthAt(pos + 2) = Huge /\ mode' = "failing" /\ UNCHANGED short
           \/ mode' = "failing" /\ short' = TRUE
        /\ UNCHANGED <<wire, result, abandoned, misuse, loose>>
  BY DEF OpenContainer, OpensContainer, IsTyped, ClassRead, AfterClass, CountRead
<1> DEFINE class == ClassRead
           next == CountRead(type, AfterClass)
           g == [obj |-> NewId, tag |-> ByteAt(pos), refs |-> <<>>,
                 step |-> IF type \in Texts THEN "chunks" ELSE "parts", done |-> 0]
<1>2. type \in {"list", "map"} /\ type \in Containers /\ type \notin Texts
  BY <1>1 DEF Containers, Texts
<1>3. /\ UNCHANGED wire /\ UNCHANGED <<misuse, loose>> /\ (short => short') /\ (mode' = mode \/ mode' = "failing")
      /\ mode = "reading"
  BY <1>1 DEF Reads, ReadsTag
<1>4. ASSUME Reading, NodeStarts, message[NewId].type = type,
             heap'[NewId].value = 0, heap'[NewId].text = <<>>, heap'[NewId].class = class
      PROVE  /\ next \in pos .. Len(input) + 1
             /\ mode' = "failing" => cut \/ short'
             /\ HeadSays(heap', g, next)
  <2> DEFINE x == message[NewId]
             y == heap'[NewId]
  <2>1. /\ OpeningIsRead(x, class, next)
        /\ IsTyped /\ LengthAt(pos + 2) = Huge => cut
    BY <1>2, <1>4, OpeningReads
  <2>2. x.value = 0 /\ x.text = <<>> /\ Len(x.class) \in Nat /\ x.type = type
    <3>1. message \in Answers /\ NewId \in 1 .. Len(message)
      BY <1>4 DEF Reading, NodeStarts
    <3>2. IsNode(message[NewId], NewId + 1 .. Len(message))
      BY <3>1, DocumentIs
    <3>3. IsName(x.class) /\ x.value = 0 /\ x.text = <<>>
      BY <1>2, <1>4, <3>2, NodeIs
    <3>4. Len(x.class) \in Nat
      BY <3>3, NameTyped
    <3> QED
      BY <1>4, <3>3, <3>4
  <2>3. mode' = "failing" => cut \/ short'
    BY <1>1, <1>3, <2>1
  <2>4. g.step = "parts"
    BY <1>2
  <2>5. y.value = 0 /\ y.text = <<>> /\ y.class = class /\ x = message[NewId] /\ y = heap'[NewId] /\ x.type = type
    BY <1>4
  <2>6. next \in pos .. Len(input) + 1 /\ Len(input) \in Nat
    BY <1>4, <2>1 DEF OpeningIsRead, Reading
  <2> HIDE DEF x, y, class, next, g
  <2>7. \/ SaysSame(y, x) /\ next = pos + Len(Opening(x))
        \/ Out(Came, next) /\ Begun(y, x)
    <3>1. CASE class = x.class /\ next = pos + Len(Opening(x))
      BY <2>2, <2>5, <3>1 DEF SaysSame
    <3>2. CASE cut /\ next = Len(input) + 1 /\ IsPrefix(class, x.class)
      <4>1. IsPrefix(y.text, x.text)
        <5>1. Len(x.text) \in Nat
          BY <2>2
        <5> QED
          BY <2>2, <2>5, <5>1, SelfIsPrefix
      <4>2. Begun(y, x)
        BY <1>2, <2>2, <2>5, <3>2, <4>1 DEF Begun
      <4>3. next > Len(input)
        BY <2>6, <3>2
      <4> QED
        BY <3>2, <4>2, <4>3, CameIs DEF Out
    <3> QED
      BY <2>1, <3>1, <3>2 DEF OpeningIsRead
  <2>8. HeadSays(heap', g, next)
    BY <1>2, <2>2, <2>4, <2>5, <2>7 DEF HeadSays
  <2> QED
    BY <2>3, <2>6, <2>8
<1>5. g = [obj |-> NewId, tag |-> ByteAt(pos), refs |-> <<>>,
           step |-> IF type \in Texts THEN "chunks" ELSE "parts", done |-> 0]
  OBVIOUS
<1>6. Reads(type) /\ Opens(type, class, next)
  BY <1>1
<1> HIDE DEF class, next, g
<1> QED
  BY <1>3, <1>4, <1>5, <1>6, HeadReads

LEMMA TextOpens ==
  ASSUME DInv, RInv, misuse = "none", OpenText
  PROVE  RInv'
<1> DEFINE class == <<>>
           next == pos + 1
<1>1. PICK type \in Texts :
        /\ Reads(type) /\ Opens(type, class, next)
        /\ \/ UNCHANGED <<mode, short>>
           \/ type # "binary" /\ mode' = "failing" /\ short' = TRUE
        /\ UNCHANGED <<wire, result, abandoned, misuse, loose>>
  BY DEF OpenText
<1> DEFINE g == [obj |-> NewId, tag |-> ByteAt(pos), refs |-> <<>>,
                 step |-> IF type \in Texts THEN "chunks" ELSE "parts", done |-> 0]
<1>3. /\ UNCHANGED wire /\ UNCHANGED <<misuse, loose>> /\ (short => short') /\ (mode' = mode \/ mode' = "failing")
      /\ mode = "reading"
  BY <1>1 DEF Reads, ReadsTag
<1>4. ASSUME Reading, NodeStarts, message[NewId].type = type,
             heap'[NewId].value = 0, heap'[NewId].text = <<>>, heap'[NewId].class = class
      PROVE  /\ next \in pos .. Len(input) + 1
             /\ mode' = "failing" => cut \/ short'
             /\ HeadSays(heap', g, next)
  <2> DEFINE x == message[NewId]
             y == heap'[NewId]
             S == NewId + 1 .. Len(message)
  <2>1. type \in {"string", "xml", "binary"} /\ type \notin {"list", "map"}
    BY DEF Texts
  <2>2. /\ Lies(Came, WrittenLeaf(x), pos) /\ IsNode(x, S)
        /\ pos \in 1 .. Len(input) /\ input \in Seq(Byte) /\ Len(input) \in Nat /\ pos \in Nat
    BY <1>4, <2>1, LeafIs
  <2>3. x.type = type /\ x = message[NewId] /\ y = heap'[NewId]
    BY <1>4
  <2> HIDE DEF x, S
  <2>4. x.value = 0 /\ x.class = <<>>
    BY <2>1, <2>2, <2>3, NodeIs
  <2>5. Full(x) \in Nat
    BY <2>2, <2>3, UnitsAre
  <2> DEFINE k == 0
  <2>6. k \in 0 .. Full(x) /\ k = 0
    BY <2>5
  <2> HIDE DEF k
  <2>7. Lies(Came, ChunkOf(x, k), Place(x, pos, k))
    BY <2>2, <2>3, <2>6, TextLayout
  <2>8. Place(x, pos, k) = pos
    <3>1. Point(x, 0) = 0
      BY <2>2, <2>3, PointsAre
    <3> QED
      BY <2>2, <2>6, <3>1 DEF Place
  <2> DEFINE a == HeadOf(x, k)
             u == Length16(Size(x, k))
             b == Bits(x.text, Point(x, k), End(x, k))
  <2>9. a \in Byte
    <3>1. Tag(type) \in Byte /\ ChunkTag(type) \in Byte
      BY TextTags
    <3> QED
      BY <2>3, <3>1 DEF HeadOf
  <2>10. /\ Size(x, k) \in Nat /\ Size(x, k) <= 65535
         /\ Point(x, k) \in Nat /\ End(x, k) \in Nat
         /\ Point(x, k) <= End(x, k) /\ End(x, k) <= Len(x.text) /\ Len(x.text) \in Nat /\ x.text \in Seq(Byte)
    BY <2>2, <2>3, <2>6, SizeIs, TextNode
  <2>11. u \in Seq(Byte) /\ Len(u) = 2
    <3> DEFINE n == Size(x, k)
    <3>1. n \in Nat /\ n <= 65535
      BY <2>10
    <3> HIDE DEF n
    <3>2. Length16(n) \in Seq(Byte) /\ Len(Length16(n)) = 2
      BY <3>1, Length16Is
    <3> QED
      BY <3>2 DEF n
  <2>12. b \in Seq(Byte)
    BY <2>10, BitsAre
  <2>13. Lies(Came, Coded(a, u, b), pos)
    BY <2>7, <2>8 DEF ChunkOf
  <2> HIDE DEF a, u, b
  <2>14. Lies(Came, <<a>>, pos)
    BY <2>2, <2>9, <2>11, <2>12, <2>13, CodedLies
  <2>15. ByteAt(pos) = a
    BY <2>2, <2>9, <2>14, OneByte
  <2>16. g.tag = HeadOf(message[NewId], 0) /\ g.step = "chunks"
    BY <2>3, <2>6, <2>15 DEF a
  <2>17. SaysSame(heap'[NewId], [message[NewId] EXCEPT !.text = <<>>])
    <3> DEFINE z == [x EXCEPT !.text = <<>>]
    <3>1. z.value = x.value /\ z.text = <<>> /\ z.class = x.class
      <4>1. x = Node(x.type, x.value, x.text, x.class, x.parts)
        BY <2>2, NodeIs
      <4> QED
        BY <4>1 DEF Node
    <3> HIDE DEF z
    <3>2. SaysSame(y, z)
      BY <1>4, <2>4, <3>1 DEF SaysSame
    <3> QED
      BY <3>2 DEF z, x
  <2>18. next \in pos .. Len(input) + 1
    BY <2>2
  <2>19. mode' = "failing" => cut \/ short'
    BY <1>1, <1>3
  <2>20. HeadSays(heap', g, next)
    BY <1>4, <2>16, <2>17 DEF HeadSays
  <2> QED
    BY <2>18, <2>19, <2>20
<1>5. g = [obj |-> NewId, tag |-> ByteAt(pos), refs |-> <<>>,
           step |-> IF type \in Texts THEN "chunks" ELSE "parts", done |-> 0]
  OBVIOUS
<1>6. Reads(type) /\ Opens(type, class, next)
  BY <1>1
<1> HIDE DEF class, next, g
<1> QED
  BY <1>3, <1>4, <1>5, <1>6, HeadReads

-----------------------------------------------------------------------------
(* Steps of the innermost frame.                                           *)

\* frame g takes the place of Top, h2 that of heap: only the node of g has changed
TopBecomes(gs, g, h2, p2) ==
  /\ Len(gs) = Len(frames) /\ gs # <<>> /\ gs[Len(gs)] = g
  /\ \A k \in 1 .. Len(frames) : k # Len(frames) => gs[k] = frames[k]
  /\ g.obj = Top.obj
  /\ Len(h2) = Len(heap) /\ \A x \in 1 .. Len(heap) : x # Top.obj => Alike(h2[x], heap[x])
  /\ p2 \in Nat /\ pos <= p2

LEMMA TopBelow ==
  ASSUME Reading, frames # <<>>
  PROVE  \A k \in 1 .. Len(frames) : k # Len(frames) => frames[k].obj # Top.obj /\ frames[k].obj \in 1 .. Len(heap)
<1>1. IsStack(frames, Len(heap)) /\ Len(frames) \in Nat /\ Len(frames) \in 1 .. Len(frames) /\ Len(heap) \in Nat
  BY ReadingTop DEF Reading
<1> TAKE k \in 1 .. Len(frames)
<1> SUFFICES ASSUME k # Len(frames) PROVE frames[k].obj # Top.obj /\ frames[k].obj \in 1 .. Len(heap)
  OBVIOUS
<1>2. Before(frames[k], frames[Len(frames)])
  <2>1. k < Len(frames)
    BY <1>1
  <2> QED
    BY <1>1, <2>1 DEF IsStack
<1>3. IsFrame(frames[k], Len(heap)) /\ IsFrame(Top, Len(heap))
  BY <1>1 DEF IsStack, Top
<1>4. frames[k].obj \in 1 .. Len(heap) /\ Top.obj \in 1 .. Len(heap)
  BY <1>3 DEF IsFrame
<1> QED
  BY <1>1, <1>2, <1>4 DEF Before, Top

\* which nodes are open does not change, nor which of the others are in chunks
LEMMA TopOpens ==
  ASSUME Reading, frames # <<>>, NEW gs, NEW g, NEW h2, NEW p2, TopBecomes(gs, g, h2, p2)
  PROVE  /\ \A x : IsOpen(gs, x) <=> IsOpen(frames, x)
         /\ \A x : x # Top.obj => (InChunks(gs, x) <=> InChunks(frames, x))
         /\ InChunks(gs, Top.obj) <=> g.step = "chunks"
         /\ InChunks(frames, Top.obj) <=> Top.step = "chunks"
         /\ IsOpen(gs, Top.obj)
<1> DEFINE n == Len(frames)
           o == Top.obj
<1>1. /\ n = Len(frames) /\ n \in 1 .. n /\ Top = frames[n] /\ o = Top.obj
      /\ \A k \in 1 .. n : k # n => frames[k].obj # o
  BY ReadingTop, TopBelow DEF Top
<1> HIDE DEF n, o
<1>2. /\ Len(gs) = n /\ gs[n] = g /\ \A k \in 1 .. n : k # n => gs[k] = frames[k]
      /\ g.obj = o
  BY <1>1 DEF TopBecomes
<1>3. \A k \in 1 .. n : gs[k].obj = frames[k].obj
  BY <1>1, <1>2
<1>4. \A x : IsOpen(gs, x) <=> IsOpen(frames, x)
  BY <1>1, <1>2, <1>3 DEF IsOpen
<1>5. \A x : x # o => (InChunks(gs, x) <=> InChunks(frames, x))
  BY <1>1, <1>2 DEF InChunks
<1>6. InChunks(gs, o) <=> g.step = "chunks"
  BY <1>1, <1>2 DEF InChunks
<1>7. InChunks(frames, o) <=> Top.step = "chunks"
  BY <1>1 DEF InChunks
<1>8. IsOpen(gs, o)
  BY <1>1, <1>2 DEF IsOpen
<1> QED
  BY <1>1, <1>4, <1>5, <1>6, <1>7, <1>8

\* where frame g of node o is, if it was clear where Top is
TopPlaced(g, h2, p2) ==
  LET next == NextNode(message, Top.obj, Len(g.refs))
  IN  /\ next > Len(heap)
      /\ ~Out(Came, p2) =>
           /\ next = Len(heap) + 1
           /\ \A q : StartsAt(Came, frames, q) /\ InPlace(Came, Top, heap, q, pos) => InPlace(Came, g, h2, q, p2)

LEMMA TopReads ==
  ASSUME Reading, frames # <<>>, NEW gs, NEW g, NEW h2, NEW p2, TopBecomes(gs, g, h2, p2),
         FrameRead(Came, g, h2, p2), NodeRead(Came, gs, h2, p2, Top.obj), TopPlaced(g, h2, p2), NEW r
  PROVE  MessageRead(Came, gs, h2, p2, "reading", r)
<1> DEFINE n == Len(frames)
           o == Top.obj
           c == n - 1
<1>1. /\ n = Len(frames) /\ n \in 1 .. n /\ n \in Nat /\ Top = frames[n] /\ o = Top.obj /\ Len(heap) \in Nat
      /\ \A k \in 1 .. n : k # n => frames[k].obj # o /\ frames[k].obj \in 1 .. Len(heap)
      /\ c = n - 1 /\ c \in Nat /\ Len(input) \in Nat /\ pos \in Nat /\ Len(heap) <= Len(message)
  BY ReadingHas, ReadingTop, TopBelow DEF Top, Reading
<1>2. /\ Len(gs) = n /\ gs # <<>> /\ gs[n] = g /\ \A k \in 1 .. n : k # n => gs[k] = frames[k]
      /\ g.obj = o /\ Len(h2) = Len(heap) /\ \A x \in 1 .. Len(heap) : x # o => Alike(h2[x], heap[x])
      /\ p2 \in Nat /\ pos <= p2
  BY DEF TopBecomes
<1>3. StackRead(Came, frames, heap, pos) /\ Awaits(Came, frames, c, o)
      /\ \A x \in 1 .. Len(heap) : NodeRead(Came, frames, heap, pos, x)
  BY ReadingHas, ReadingTop
<1>4. Out(Came, pos) => Out(Came, p2)
  BY <1>1, <1>2, CameIs, OutGrows
<1>5. /\ \A x : IsOpen(gs, x) <=> IsOpen(frames, x)
      /\ \A x : x # o => (InChunks(gs, x) <=> InChunks(frames, x))
  BY TopOpens
<1>6. \/ Out(Came, pos)
      \/ \E q : StartsAt(Came, frames, q) /\ InPlace(Came, Top, heap, q, pos)
  BY ReadingTop
<1> HIDE DEF n, o, c
<1>7. StackRead(Came, gs, h2, p2)
  <2>1. c \in Nat /\ c <= Len(frames) /\ Len(frames) \in Nat /\ \A k \in 1 .. c : k \in 1 .. n /\ k # n
    BY <1>1
  <2>2. \A k \in 1 .. c : gs[k] = frames[k] /\ h2[frames[k].obj].parts = heap[frames[k].obj].parts
    BY <1>1, <1>2, <2>1 DEF Alike
  <2>3. \A k \in 1 .. c : FrameRead(Came, gs[k], h2, p2) /\ Awaits(Came, gs, k - 1, gs[k].obj)
    BY <1>3, <1>4, <2>1, <2>2, StackStays
  <2>4. Awaits(Came, gs, c, o)
    <3>1. c = 0 \/ gs[c] = frames[c]
      BY <1>1, <2>2
    <3> QED
      BY <1>3, <3>1, AwaitsStays
  <2>5. ASSUME NEW k \in 1 .. Len(gs) PROVE FrameRead(Came, gs[k], h2, p2) /\ Awaits(Came, gs, k - 1, gs[k].obj)
    <3>1. CASE k \in 1 .. c
      BY <2>3, <3>1
    <3>2. CASE k = n
      <4>1. k - 1 = c /\ gs[k] = g
        BY <1>1, <1>2, <3>2
      <4> QED
        BY <1>2, <2>4, <4>1
    <3> QED
      BY <1>1, <1>2, <3>1, <3>2
  <2> QED
    BY <2>5 DEF StackRead
<1>8. ASSUME NEW x \in 1 .. Len(h2) PROVE NodeRead(Came, gs, h2, p2, x)
  <2>1. CASE x = o
    BY <1>1, <2>1
  <2>2. CASE x # o
    <3>1. NodeRead(Came, frames, heap, pos, x) /\ Alike(h2[x], heap[x])
      BY <1>2, <1>3, <2>2
    <3> QED
      BY <1>2, <1>4, <1>5, <2>2, <3>1, NodeStays
  <2> QED
    BY <2>1, <2>2
<1> DEFINE next == NextNode(message, o, Len(g.refs))
<1>9. /\ next > Len(heap)
      /\ ~Out(Came, p2) =>
           /\ next = Len(heap) + 1
           /\ \A q : StartsAt(Came, frames, q) /\ InPlace(Came, Top, heap, q, pos) => InPlace(Came, g, h2, q, p2)
  BY <1>1 DEF TopPlaced
<1> HIDE DEF next
<1>10. ASSUME ~Out(Came, p2)
       PROVE  next = Len(h2) + 1 /\ \E q : StartsAt(Came, gs, q) /\ InPlace(Came, g, h2, q, p2)
  <2>1. PICK q : StartsAt(Came, frames, q) /\ InPlace(Came, Top, heap, q, pos)
    BY <1>4, <1>6, <1>10
  <2>2. InPlace(Came, g, h2, q, p2)
    BY <1>9, <1>10, <2>1
  <2>3. StartsAt(Came, gs, q)
    <3>1. Len(frames) \in Nat /\ Len(frames) > 0 /\ Len(gs) = Len(frames)
          /\ gs[Len(frames)].obj = frames[Len(frames)].obj
          /\ \A k \in 1 .. Len(frames) : k # Len(frames) => gs[k] = frames[k]
      BY <1>1, <1>2
    <3> QED
      BY <2>1, <3>1, StartsSame
  <2> QED
    BY <1>2, <1>9, <1>10, <2>2, <2>3
<1>11. PlaceRead(Came, gs, h2, p2)
  <2>1. gs[Len(gs)] = g /\ NextNode(Came.doc, g.obj, Len(g.refs)) = next
    BY <1>1, <1>2, CameIs DEF next
  <2> QED
    BY <1>2, <1>9, <1>10, <2>1 DEF PlaceRead
<1>12. AllRead(Came, gs, h2, p2)
  BY <1>1, <1>2, <1>7, <1>8, <1>11, CameIs DEF AllRead
<1> QED
  BY <1>2, <1>12 DEF MessageRead

\* such a step, if nothing else changes
LEMMA TopStepReads ==
  ASSUME DInv, RInv, misuse = "none", mode = "reading", frames # <<>>, UNCHANGED <<wire, mode, misuse, short>>,
         ~loose', NEW g, TopBecomes(frames', g, heap', pos'), pos' \in 1 .. Len(input) + 1,
         FrameRead(Came, g, heap', pos'), NodeRead(Came, frames', heap', pos', Top.obj), TopPlaced(g, heap', pos'),
         Reading
  PROVE  SoFar'
<1>1. MessageRead(Came, frames', heap', pos', "reading", result')
  BY TopReads
<1>2. Came' = Came /\ input' = input /\ cut' = cut
  BY SameMessage
<1> QED
  BY <1>1, <1>2 DEF SoFar

-----------------------------------------------------------------------------
(* The ends of lists, and tags that are none.                              *)

LEMMA FramesBecome ==
  ASSUME Reading, frames # <<>>, NEW g, NEW gs, gs = [frames EXCEPT ![Len(frames)] = g]
  PROVE  /\ Len(gs) = Len(frames) /\ gs # <<>> /\ gs[Len(gs)] = g
         /\ \A k \in 1 .. Len(frames) : k # Len(frames) => gs[k] = frames[k]
<1>1. PICK D : frames \in Seq(D)
  BY DEF Reading, IsStack
<1> DEFINE A == D \cup {g}
<1>2. frames \in Seq(A) /\ g \in A
  BY <1>1
<1> HIDE DEF A
<1> DEFINE t == [frames EXCEPT ![Len(frames)] = g]
<1>3. /\ t \in Seq(A) /\ Len(t) = Len(frames) /\ t # <<>> /\ t[Len(t)] = g
      /\ \A k \in 1 .. Len(frames) - 1 : t[k] = frames[k]
  BY <1>2, LastChanges
<1>4. gs = t
  OBVIOUS
<1> HIDE DEF t
<1>5. Len(frames) \in Nat
  BY DEF Reading
<1>6. \A k \in 1 .. Len(frames) : k # Len(frames) => k \in 1 .. Len(frames) - 1
  BY <1>5
<1> QED
  BY <1>3, <1>4, <1>6

LEMMA RefuseReads ==
  ASSUME DInv, RInv, misuse = "none", RefuseTag
  PROVE  RInv'
<1>1. /\ ReadsTag /\ ~AtEnd /\ mode = "reading" /\ mode # "idle" /\ mode' = "failing"
      /\ UNCHANGED wire /\ UNCHANGED <<misuse, loose>> /\ (short => short')
      /\ TypesOf(ByteAt(pos)) = {} \/ short'
  BY DEF RefuseTag, ReadsTag, Fails, NoMemory
<1> SUFFICES ASSUME Fair, Fair' PROVE SoFar'
  BY <1>1, StepReads
<1>2. Reading
  BY <1>1, ReadingSo
<1>3. short' \/ cut
  BY <1>1, <1>2, TagIsRead
<1>4. ~loose'
  BY <1>1, NotLoose
<1> QED
  BY <1>1, <1>3, <1>4, FailsSo

LEMMA NodeReadTop ==
  ASSUME Reading, frames # <<>>
  PROVE  NodeRead(Came, frames, heap, pos, Top.obj) /\ (Out(Came, pos) => \A p2 \in Nat : pos <= p2 => Out(Came, p2))
<1>1. Top.obj \in 1 .. Len(heap) /\ pos \in Nat /\ Len(Came.bytes) \in Nat
  BY ReadingHas, ReadingTop, CameIs DEF Reading
<1> QED
  BY <1>1, ReadingHas, OutGrows

LEMMA CloseReads ==
  ASSUME DInv, RInv, misuse = "none", CloseContainer
  PROVE  RInv'
<1>1. /\ ReadsTag /\ AtEnd /\ mode = "reading" /\ mode # "idle" /\ pos' = Upto(pos + 1) /\ heap' = heap
      /\ UNCHANGED wire /\ UNCHANGED <<misuse, loose>> /\ (short => short')
      /\ \/ frames' = [frames EXCEPT ![Len(frames)].step = "moving"] /\ mode' = mode /\ short' = short
         \/ mode' = "failing" /\ short'
  BY DEF CloseContainer, ReadsTag, Fails, NoMemory
<1> SUFFICES ASSUME Fair, Fair' PROVE SoFar'
  BY <1>1, StepReads
<1>2. Reading
  BY <1>1, ReadingSo
<1>3. ~loose /\ ~loose'
  BY <1>1, NotLoose
<1>4. CASE mode' = "failing" /\ short'
  BY <1>1, <1>3, <1>4, FailsSo
<1>5. CASE frames' = [frames EXCEPT ![Len(frames)].step = "moving"] /\ mode' = mode /\ short' = short
  <2> DEFINE g == Stepped(Top, "moving")
             o == Top.obj
             r == Len(Top.refs)
  <2>1. frames # <<>> /\ Top.step = "parts"
    BY <1>1 DEF AtEnd, ReadsTag
  <2>2. /\ Len(frames) \in 1 .. Len(frames) /\ IsFrame(Top, Len(heap)) /\ FrameRead(Came, Top, heap, pos)
        /\ o \in 1 .. Len(message) /\ r \in Nat /\ r \in 0 .. Len(message[o].parts) /\ Len(message[o].parts) \in Nat
        /\ NextNode(message, o, r) > Len(heap) /\ TypeOfTop = message[o].type
        /\ \/ Out(Came, pos)
           \/ NextNode(message, o, r) = Len(heap) + 1
    BY <1>2, <2>1, ReadingTop
  <2>3. IsFrameRecord(g) /\ g.step = "moving" /\ g.obj = o /\ g.refs = Top.refs /\ g.done = 0
    <3>1. IsFrameRecord(Top) /\ Top.done = 0
      BY <2>1, <2>2 DEF IsFrame
    <3> QED
      BY <3>1, StepChange
  <2>4. frames' = [frames EXCEPT ![Len(frames)] = g]
    BY <1>5, <2>2 DEF Stepped, Top
  <2>5. /\ pos \in Nat /\ pos \in 1 .. Len(input) + 1 /\ Len(input) \in Nat /\ Len(heap) \in Nat
        /\ message \in Answers
    BY <1>2, ReadingHas DEF Reading
  <2>6. /\ pos' \in 1 .. Len(input) + 1 /\ pos' \in Nat /\ pos <= pos'
        /\ pos <= Len(input) => pos' = pos + 1
        /\ pos > Len(input) => pos' = pos
    <3>1. Upto(pos + 1) = IF pos + 1 <= Len(input) THEN pos + 1 ELSE Len(input) + 1
      BY <2>5, UptoIs
    <3> QED
      BY <1>1, <2>5, <3>1
  <2> HIDE DEF g
  <2>7. TopBecomes(frames', g, heap', pos')
    <3>1. /\ Len(frames') = Len(frames) /\ frames' # <<>> /\ frames'[Len(frames')] = g
          /\ \A k \in 1 .. Len(frames) : k # Len(frames) => frames'[k] = frames[k]
      BY <1>2, <2>1, <2>4, FramesBecome
    <3>2. \A x : Alike(heap[x], heap[x])
      BY DEF Alike
    <3> QED
      BY <1>1, <2>3, <2>6, <3>1, <3>2 DEF TopBecomes
  <2>8. ~Out(Came, pos') => ~Out(Came, pos)
    BY <1>2, <2>1, <2>6, NodeReadTop
  <2>9. ~Out(Came, pos) => ListEnds
    BY <1>1, <1>2, EndIsNext
  <2>10. /\ Top.step \in {"chunks", "end"} <=> message[o].type \in Texts
         /\ heap[o].parts = <<>> /\ \A k \in 1 .. r : Top.refs[k] = message[o].parts[k]
    <3>1. FrameRead(Came, Top, heap, pos) /\ Len(heap) \in Nat /\ IsFrame(Top, Len(heap)) /\ Top.step # "moving"
      BY <2>1, <2>2, <2>5
    <3> DEFINE f == Top
               n == Len(heap)
    <3>2. /\ f.step \in {"chunks", "end"} <=> Came.doc[f.obj].type \in Texts
          /\ f.step # "moving" => /\ heap[f.obj].parts = <<>>
                                  /\ \A k \in 1 .. Len(f.refs) : f.refs[k] = Came.doc[f.obj].parts[k]
      <4> HIDE DEF f, n
      <4>1. FrameRead(Came, f, heap, pos) /\ n \in Nat /\ IsFrame(f, n)
        BY <3>1 DEF f, n
      <4> QED
        BY <4>1, PartsFrame
    <3> QED
      BY <3>1, <3>2, CameIs
  <2>11. FrameRead(Came, g, heap', pos')
    <3>1. g.step \in {"chunks", "end"} <=> message[o].type \in Texts
      BY <2>1, <2>3, <2>10
    <3>2. PartsAre(Came, heap', o, 0)
      <4>1. heap'[o].parts = <<>> /\ Len(Came.doc[o].parts) \in Nat
        BY <1>1, <2>2, <2>10, CameIs
      <4> QED
        BY <4>1, NoneYet
    <3>3. r = Len(message[o].parts) \/ Out(Came, pos')
      BY <2>8, <2>9 DEF ListEnds
    <3>4. 0 <= r /\ \A k \in 1 .. r : ~(k <= 0)
      BY <2>2
    <3>5. r <= Len(message[o].parts)
      BY <2>2
    <3>6. g.obj = o /\ Len(g.refs) = r /\ g.refs = Top.refs /\ g.done = 0 /\ g.step = "moving"
      BY <2>3
    <3> HIDE DEF o, r
    <3> QED
      BY <2>2, <2>10, <3>1, <3>2, <3>3, <3>4, <3>5, <3>6, CameIs DEF FrameRead
  <2>12. NodeRead(Came, frames', heap', pos', o)
    <3>1. NodeRead(Came, frames, heap, pos, o) /\ (Out(Came, pos) => Out(Came, pos'))
      BY <1>2, <2>1, <2>6, NodeReadTop
    <3>2. /\ IsOpen(frames, o) => IsOpen(frames', o)
          /\ InChunks(frames', o) <=> InChunks(frames, o)
      <4>1. /\ \A x : IsOpen(frames', x) <=> IsOpen(frames, x)
            /\ InChunks(frames', o) <=> g.step = "chunks"
            /\ InChunks(frames, o) <=> Top.step = "chunks"
        BY <1>2, <2>1, <2>7, TopOpens
      <4> QED
        BY <2>1, <2>3, <4>1
    <3>3. Alike(heap'[o], heap[o]) /\ Len(heap') = Len(heap)
      BY <1>1 DEF Alike
    <3> HIDE DEF o
    <3> QED
      BY <3>1, <3>2, <3>3, NodeStays
  <2>13. TopPlaced(g, heap', pos')
    <3>1. ASSUME ~Out(Came, pos'), NEW q, StartsAt(Came, frames, q), InPlace(Came, Top, heap, q, pos)
          PROVE  InPlace(Came, g, heap', q, pos')
      <4>1. ~Out(Came, pos) /\ ListEnds
        BY <2>8, <2>9, <3>1
      <4>2. pos = q + Len(Ahead(message, o, r)) /\ r = Len(message[o].parts) /\ pos' = pos + 1
        <5>1. pos = q + Len(Ahead(message, o, r))
          BY <2>1, <3>1, CameIs DEF InPlace
        <5> QED
          BY <2>6, <4>1, <5>1 DEF ListEnds
      <4>3. message[o].type \in {"list", "map"}
        BY <1>1, <2>1, <2>2 DEF ReadsTag, Containers
      <4>4. Len(Written(message, o)) = Len(Ahead(message, o, r)) + 1 /\ Len(Ahead(message, o, r)) \in Nat
        <5>1. LET ps == message[o].parts
                  n == Len(ps)
              IN  /\ \A k \in 0 .. n : Len(Ahead(message, o, k)) \in Nat /\ Len(Ahead(message, o, k)) >= 1
                  /\ Len(Written(message, o)) = Len(Ahead(message, o, n)) + 1
          BY <2>2, <2>5, <4>3, AheadIs
        <5> HIDE DEF o
        <5> QED
          BY <2>2, <4>2, <5>1
      <4>5. q \in Nat
        <5>1. Len(frames) \in Nat /\ Len(frames) > 0
          BY <2>2
        <5> QED
          BY <3>1, <5>1, StartsBelow
      <4>6. pos' = q + Len(Written(message, o))
        <5> DEFINE a == Len(Ahead(message, o, r))
                   b == Len(Written(message, o))
        <5>1. pos = q + a /\ b = a + 1 /\ a \in Nat /\ q \in Nat /\ pos' = pos + 1
          BY <4>2, <4>4, <4>5
        <5> HIDE DEF a, b
        <5>2. pos' = q + b
          BY <5>1
        <5> QED
          BY <5>2 DEF b
      <4> QED
        BY <2>3, <4>6, CameIs DEF InPlace
    <3>2. ~Out(Came, pos') => NextNode(message, o, r) = Len(heap) + 1
      BY <2>2, <2>8
    <3> QED
      BY <2>2, <2>3, <3>1, <3>2 DEF TopPlaced
  <2>14. UNCHANGED <<wire, mode, misuse, short>>
    BY <1>1, <1>5
  <2> QED
    BY <1>1, <1>2, <1>3, <2>1, <2>6, <2>7, <2>11, <2>12, <2>13, <2>14, TopStepReads
<1> QED
  BY <1>1, <1>4, <1>5

-----------------------------------------------------------------------------
(* The chunks of texts.                                                    *)

LEMMA BitsInside ==
  ASSUME NEW A, NEW t \in Seq(A), NEW i \in Nat, NEW j \in Nat, i <= j, j <= Len(t)
  PROVE  LET b == Bits(t, i, j)
         IN  /\ b \in Seq(A) /\ Len(b) = j - i
             /\ \A n \in 1 .. j - i : b[n] = t[i + n]
<1> DEFINE k == i + 1
<1>0. k \in Nat /\ 1 <= k /\ k <= j + 1 /\ j - k + 1 = j - i /\ k = i + 1 /\ \A n \in 1 .. j - i : k + n - 1 = i + n
  OBVIOUS
<1> HIDE DEF k
<1> DEFINE s == SubSeq(t, k, j)
<1>1. /\ s \in Seq(A) /\ Len(s) = j - k + 1
      /\ \A n \in 1 .. j - k + 1 : s[n] = t[k + n - 1]
  BY <1>0, SubSeqIs
<1>2. s \in Seq(A) /\ Len(s) = j - i /\ \A n \in 1 .. j - i : s[n] = t[i + n]
  BY <1>0, <1>1
<1>3. Bits(t, i, j) = s
  BY <1>0 DEF Bits
<1> HIDE DEF s
<1> QED
  BY <1>2, <1>3

LEMMA PartsJoin ==
  ASSUME NEW A, NEW t \in Seq(A), NEW i \in Nat, NEW j \in Nat, i <= j, j <= Len(t), NEW c \in 0 .. j - i
  PROVE  /\ SubSeq(t, 1, i) \o SubSeq(Bits(t, i, j), 1, c) = SubSeq(t, 1, i + c)
         /\ SubSeq(Bits(t, i, j), 1, j - i) = Bits(t, i, j)
<1> DEFINE b == Bits(t, i, j)
           e == i + c
           l == j - i
<1>0. /\ Len(t) \in Nat /\ e \in Nat /\ e <= Len(t) /\ c \in Nat /\ e = i + c /\ i <= Len(t)
      /\ l \in Nat /\ c <= l /\ l = j - i
  OBVIOUS
<1>1. b \in Seq(A) /\ Len(b) = l /\ \A n \in 1 .. l : b[n] = t[i + n]
  BY BitsInside
<1> HIDE DEF b, e, l
<1> DEFINE u == SubSeq(t, 1, i)
           v == SubSeq(b, 1, c)
           w == SubSeq(t, 1, e)
           z == SubSeq(b, 1, l)
<1>2. u \in Seq(A) /\ Len(u) = i /\ \A n \in 1 .. i : u[n] = t[n]
  <2>1. /\ u \in Seq(A) /\ Len(u) = i - 1 + 1
        /\ \A n \in 1 .. i - 1 + 1 : u[n] = t[1 + n - 1]
    BY <1>0, SubSeqIs
  <2>2. i - 1 + 1 = i /\ \A n \in Nat : 1 + n - 1 = n
    OBVIOUS
  <2> HIDE DEF u
  <2> QED
    BY <2>1, <2>2
<1>3. v \in Seq(A) /\ Len(v) = c /\ \A n \in 1 .. c : v[n] = b[n]
  <2>1. /\ v \in Seq(A) /\ Len(v) = c - 1 + 1
        /\ \A n \in 1 .. c - 1 + 1 : v[n] = b[1 + n - 1]
    BY <1>0, <1>1, SubSeqIs
  <2>2. c - 1 + 1 = c /\ \A n \in Nat : 1 + n - 1 = n
    BY <1>0
  <2> HIDE DEF v
  <2> QED
    BY <2>1, <2>2
<1>4. w \in Seq(A) /\ Len(w) = e /\ \A n \in 1 .. e : w[n] = t[n]
  <2>1. /\ w \in Seq(A) /\ Len(w) = e - 1 + 1
        /\ \A n \in 1 .. e - 1 + 1 : w[n] = t[1 + n - 1]
    BY <1>0, SubSeqIs
  <2>2. e - 1 + 1 = e /\ \A n \in Nat : 1 + n - 1 = n
    BY <1>0
  <2> HIDE DEF w
  <2> QED
    BY <2>1, <2>2
<1>5. z \in Seq(A) /\ Len(z) = l /\ \A n \in 1 .. l : z[n] = b[n]
  <2>1. /\ z \in Seq(A) /\ Len(z) = l - 1 + 1
        /\ \A n \in 1 .. l - 1 + 1 : z[n] = b[1 + n - 1]
    BY <1>0, <1>1, SubSeqIs
  <2>2. l - 1 + 1 = l /\ \A n \in Nat : 1 + n - 1 = n
    BY <1>0
  <2> HIDE DEF z
  <2> QED
    BY <2>1, <2>2
<1> HIDE DEF u, v, w, z
<1>6. z = b
  BY <1>1, <1>5, SameSequence
<1> DEFINE y == u \o v
<1>7. /\ y \in Seq(A) /\ Len(y) = i + c
      /\ \A n \in 1 .. i : y[n] = u[n]
      /\ \A n \in 1 .. c : y[i + n] = v[n]
  <2>1. /\ u \o v \in Seq(A) /\ Len(u \o v) = Len(u) + Len(v) /\ Len(u) \in Nat /\ Len(v) \in Nat
        /\ \A k \in 1 .. Len(u) : (u \o v)[k] = u[k]
        /\ \A k \in 1 .. Len(v) : (u \o v)[Len(u) + k] = v[k]
    <3>1. u \in Seq(A) /\ v \in Seq(A)
      BY <1>2, <1>3
    <3> QED
      BY <3>1, Joined
  <2> QED
    BY <1>2, <1>3, <2>1
<1> HIDE DEF y
<1>8. \A n \in 1 .. e : y[n] = w[n]
  <2> TAKE n \in 1 .. e
  <2>1. CASE n \in 1 .. i
    BY <1>2, <1>4, <1>7, <2>1
  <2>2. CASE ~(n \in 1 .. i)
    <3> DEFINE m == n - i
    <3>1. m \in 1 .. c /\ n = i + m /\ m \in 1 .. l
      BY <1>0, <2>2
    <3> HIDE DEF m
    <3>2. y[i + m] = v[m] /\ v[m] = b[m] /\ b[m] = t[i + m]
      BY <1>1, <1>3, <1>7, <3>1
    <3> QED
      BY <1>4, <3>1, <3>2
  <2> QED
    BY <2>1, <2>2
<1>9. y = w
  BY <1>0, <1>4, <1>7, <1>8, SameSequence
<1> QED
  BY <1>6, <1>9 DEF y, u, v, w, z, e, l, b

\* the chunk that is read next, of the text that starts at q
ChunkStarts(x, q, k) ==
  /\ q \in Nat /\ k \in 0 .. Full(x) /\ Top.tag = HeadOf(x, k) /\ pos = Place(x, q, k) + 1
  /\ heap[Top.obj].text = SubSeq(x.text, 1, Point(x, k))
  /\ Lies(Came, WrittenLeaf(x), q)

IsTextRead(x) ==
  /\ Reading /\ ReadsChunk /\ x = message[Top.obj]
  /\ IsNode(x, Top.obj + 1 .. Len(message)) /\ x.type \in Texts /\ TypeOfTop = x.type
  /\ \A k \in DOMAIN x.text : x.text[k] \notin Missed

LEMMA TextIsRead ==
  ASSUME Reading, ReadsChunk
  PROVE  IsTextRead(message[Top.obj])
<1> DEFINE x == message[Top.obj]
<1>0. frames # <<>>
  BY DEF ReadsChunk
<1>1. /\ IsNode(x, Top.obj + 1 .. Len(message)) /\ TypeOfTop = x.type /\ Top.obj \in 1 .. Len(message)
  BY <1>0, ReadingTop
<1>2. x.type \in Texts
  BY <1>1 DEF ReadsChunk
<1>3. \A k \in DOMAIN x.text : x.text[k] \notin Missed
  <2>1. Readable(message) /\ message \in Answers
    BY DEF Reading, Fair
  <2>2. Top.obj \in DOMAIN message
    BY <1>1, <2>1, DocumentIs
  <2> QED
    BY <2>1, <2>2 DEF Readable
<1> QED
  BY <1>1, <1>2, <1>3 DEF IsTextRead

LEMMA ChunkStart ==
  ASSUME NEW x, IsTextRead(x), NEW q, StartsAt(Came, frames, q), InPlace(Came, Top, heap, q, pos)
  PROVE  \E k : ChunkStarts(x, q, k)
<1>1. Reading /\ frames # <<>> /\ Top.step = "chunks" /\ x = message[Top.obj] /\ x.type \in Texts
  BY DEF IsTextRead, ReadsChunk
<1>2. Top.obj \in 1 .. Len(message) /\ message \in Answers /\ Len(frames) \in Nat /\ Len(frames) > 0
  <2>1. Len(frames) \in 1 .. Len(frames) /\ Len(frames) \in Nat
    BY <1>1, ReadingTop DEF Reading
  <2> QED
    BY <1>1, <2>1, ReadingTop DEF Reading
<1>3. q \in Nat /\ Lies(Came, WrittenLeaf(x), q)
  <2>1. q \in Nat /\ Lies(Came, Written(message, Top.obj), q)
    <3>1. q \in Nat /\ Lies(Came, Written(Came.doc, frames[Len(frames)].obj), q)
      BY <1>2, StartsBelow
    <3> QED
      BY <3>1, CameIs DEF Top
  <2>2. Written(message, Top.obj) = WrittenLeaf(x)
    <3>1. x.type \notin {"list", "map"}
      BY <1>1 DEF Texts
    <3> HIDE DEF Top
    <3> DEFINE o == Top.obj
    <3>2. o \in 1 .. Len(message) /\ message[o].type \notin {"list", "map"} /\ message[o] = x
      BY <1>1, <1>2, <3>1
    <3> HIDE DEF o
    <3>3. Written(message, o) = WrittenLeaf(message[o])
      BY <1>2, <3>2, WrittenUnfolds
    <3> QED
      BY <3>2, <3>3 DEF o
  <2> QED
    BY <2>1, <2>2
<1>4. AtChunk(Came, Top, heap, q, pos)
  BY <1>1 DEF InPlace
<1>5. PICK k \in 0 .. Full(x) :
        /\ Top.tag = IF k < Full(x) THEN ChunkTag(x.type) ELSE Tag(x.type)
        /\ pos = q + 3 * k + Point(x, k) + 1
        /\ heap[Top.obj].text = SubSeq(x.text, 1, Point(x, k))
  BY <1>1, <1>4, CameIs DEF AtChunk
<1>6. Top.tag = HeadOf(x, k) /\ pos = Place(x, q, k) + 1
  BY <1>5 DEF HeadOf, Place
<1> QED
  BY <1>3, <1>5, <1>6 DEF ChunkStarts

LEMMA ChunkExists ==
  ASSUME NEW x, IsTextRead(x), ~Out(Came, pos)
  PROVE  \E q, k : ChunkStarts(x, q, k)
<1>1. Reading /\ frames # <<>>
  BY DEF IsTextRead, ReadsChunk
<1>2. PICK q : StartsAt(Came, frames, q) /\ InPlace(Came, Top, heap, q, pos)
  BY <1>1, ReadingTop
<1> QED
  BY <1>2, ChunkStart

\* what the bytes of the chunk are read as
ChunkComes(b, l) == LengthAt(pos) = l /\ (IsRead(b, pos + 2, l) \/ IsBegun(b, pos + 2, l))

LEMMA ChunkIsRead ==
  ASSUME NEW x, IsTextRead(x), NEW q, NEW k, ChunkStarts(x, q, k)
  PROVE  IF LengthAt(pos) # Huge THEN ChunkComes(Bits(x.text, Point(x, k), End(x, k)), Size(x, k)) ELSE cut
<1> DEFINE S == Top.obj + 1 .. Len(message)
           p == Place(x, q, k)
           F == Full(x)
<1>1. /\ IsNode(x, S) /\ x.type \in Texts /\ \A n \in DOMAIN x.text : x.text[n] \notin Missed
      /\ TypeOfTop = x.type /\ input \in Seq(Byte) /\ Len(input) \in Nat
  BY DEF IsTextRead, Reading
<1>2. q \in Nat /\ k \in 0 .. F /\ pos = p + 1 /\ Lies(Came, WrittenLeaf(x), q)
  BY DEF ChunkStarts
<1> HIDE DEF S, F
<1>3. p \in Nat
  <2>1. F \in Nat
    BY <1>1, UnitsAre DEF F
  <2>2. k \in Nat /\ k <= Full(x)
    BY <1>2, <2>1 DEF F
  <2>3. Point(x, k) \in Nat
    BY <1>1, <2>2, PointsAre
  <2> DEFINE i == Point(x, k)
  <2>4. i \in Nat /\ p = q + 3 * k + i
    BY <2>3 DEF Place
  <2> HIDE DEF i, p
  <2> QED
    BY <1>2, <2>2, <2>4
<1>4. Lies(Came, ChunkOf(x, k), p)
  <2>1. k \in 0 .. Full(x)
    BY <1>2 DEF F
  <2>2. \A m : \A n \in Nat : Lies(m, WrittenLeaf(x), n) => \A j \in 0 .. Full(x) : Lies(m, ChunkOf(x, j), Place(x, n, j))
    BY <1>1, TextLayout
  <2>3. \A n \in Nat : Lies(Came, WrittenLeaf(x), n) => \A j \in 0 .. Full(x) : Lies(Came, ChunkOf(x, j), Place(x, n, j))
    BY <2>2, Zenon
  <2> QED
    BY <1>2, <2>1, <2>3
<1> HIDE DEF p
<1>5. IF p + 2 <= Len(input)
      THEN /\ LengthAt(p + 1) = Size(x, k) /\ LengthAt(p + 1) # Huge
           /\ \/ IsRead(Bits(x.text, Point(x, k), End(x, k)), p + 3, Size(x, k))
              \/ IsBegun(Bits(x.text, Point(x, k), End(x, k)), p + 3, Size(x, k))
      ELSE LengthAt(p + 1) = Huge /\ cut
  <2>1. k \in 0 .. Full(x)
    BY <1>2 DEF F
  <2> QED
    BY <1>1, <1>3, <1>4, <2>1, ChunkReads
<1>6. p + 1 = pos /\ p + 3 = pos + 2
  BY <1>2, <1>3
<1> QED
  BY <1>5, <1>6 DEF ChunkComes

LEMMA LengthIsCut ==
  ASSUME Reading, ReadsChunk, LengthAt(pos) = Huge
  PROVE  cut
<1>1. CASE Out(Came, pos)
  BY <1>1, CameIs DEF Out
<1>2. CASE ~Out(Came, pos)
  <2>1. PICK q, k : ChunkStarts(message[Top.obj], q, k)
    BY <1>2, TextIsRead, ChunkExists
  <2> QED
    BY <2>1, TextIsRead, ChunkIsRead
<1> QED
  BY <1>1, <1>2

LEMMA LengthIsThere ==
  ASSUME Reading, LengthAt(pos) # Huge
  PROVE  ~Out(Came, pos) /\ pos + 2 <= Len(input) + 1 /\ LengthAt(pos) \in Nat
<1>1. pos \in Nat /\ pos >= 1 /\ Len(input) \in Nat /\ input \in Seq(Byte)
  BY ReadingHas DEF Reading
<1>2. pos + 1 <= Len(input) /\ LengthAt(pos) = input[pos] * 256 + input[pos + 1]
  BY DEF LengthAt
<1>3. pos \in 1 .. Len(input) /\ pos + 1 \in 1 .. Len(input)
  BY <1>1, <1>2
<1>4. input[pos] \in Byte /\ input[pos + 1] \in Byte
  BY <1>1, <1>3
<1>5. input[pos] \in Nat /\ input[pos + 1] \in Nat
  BY <1>4 DEF Byte
<1>6. LengthAt(pos) \in Nat
  BY <1>2, <1>5
<1>7. ~(pos > Len(input))
  BY <1>3
<1> QED
  BY <1>1, <1>2, <1>6, <1>7, CameIs DEF Out

LEMMA ChunkFailsReads ==
  ASSUME DInv, RInv, misuse = "none", ChunkFails \/ ChunkHangs
  PROVE  RInv'
<1>1. /\ ReadsChunk /\ mode = "reading" /\ mode # "idle"
      /\ UNCHANGED wire /\ loose' = loose /\ (short => short')
      /\ \/ misuse' = "null text"
         \/ mode' = "hung"
      /\ LengthAt(pos) = Huge \/ short'
  <2>1. ReadsChunk /\ mode = "reading" /\ mode # "idle" /\ UNCHANGED wire /\ loose' = loose
        /\ (misuse' = "null text" \/ mode' = "hung")
    BY DEF ChunkFails, ChunkHangs, ReadsChunk
  <2>2. short => short'
    BY DEF ChunkFails, ChunkHangs
  <2>3. LengthAt(pos) = Huge \/ short'
    BY DEF ChunkFails, ChunkHangs
  <2> QED
    BY <2>1, <2>2, <2>3
<1> SUFFICES ASSUME Fair, Fair' PROVE SoFar'
  BY <1>1, StepReads
<1>2. Reading
  BY <1>1, ReadingSo
<1>3. short' \/ cut
  BY <1>1, <1>2, LengthIsCut
<1>4. ~loose'
  BY <1>1, NotLoose
<1>5. mode' \notin {"reading", "done"} \/ misuse' # "none"
  BY <1>1
<1> QED
  BY <1>1, <1>3, <1>4, <1>5, FailsSo

LEMMA TextFailsReads ==
  ASSUME DInv, RInv, misuse = "none", TextFails
  PROVE  RInv'
<1>1. /\ mode = "reading" /\ mode # "idle" /\ mode' = "failing" /\ short'
      /\ UNCHANGED wire /\ loose' = loose /\ (short => short')
  BY DEF TextFails, NoMemory, Fails
<1> SUFFICES ASSUME Fair, Fair' PROVE SoFar'
  BY <1>1, StepReads
<1>2. ~loose'
  BY <1>1, NotLoose
<1> QED
  BY <1>1, <1>2, FailsSo

-----------------------------------------------------------------------------
(* What a chunk adds to its text.                                          *)

AfterThis == AfterChunk(pos + 2, LengthAt(pos))
IsChunk == Top.tag = ChunkTag(TypeOfTop)
NewText == heap[Top.obj].text \o ChunkAt(pos + 2, LengthAt(pos))
NewPos == IF IsChunk THEN Upto(AfterThis + 1) ELSE AfterThis
NewTag == IF IsChunk THEN ByteAt(AfterThis) ELSE Top.tag

\* i bytes of t have been read, the chunk brings those up to j
LEMMA ChunkEnds ==
  ASSUME Reading, NEW t \in Seq(Byte), NEW i \in Nat, NEW j \in Nat, i <= j, j <= Len(t),
         heap[Top.obj].text = SubSeq(t, 1, i), LengthAt(pos) # Huge, NEW l, ChunkComes(Bits(t, i, j), l)
  PROVE  /\ AfterThis \in pos .. Len(input) + 1
         /\ \/ NewText = SubSeq(t, 1, j) /\ AfterThis = pos + 2 + (j - i)
            \/ /\ cut /\ AfterThis = Len(input) + 1
               /\ IF TypeOfTop = "binary" THEN Len(NewText) = j
                  ELSE \E c \in 0 .. j : NewText = SubSeq(t, 1, c)
<1> DEFINE b == Bits(t, i, j)
           p == pos + 2
           c == ChunkAt(p, l)
<1>1. /\ pos \in Nat /\ Len(input) \in Nat /\ p = pos + 2 /\ p \in Nat /\ p <= Len(input) + 1 /\ Len(t) \in Nat
  BY ReadingHas, LengthIsThere DEF Reading
<1>2. b \in Seq(Byte) /\ Len(b) = j - i
  BY BitsInside
<1>3. LengthAt(pos) = l /\ (IsRead(b, p, l) \/ IsBegun(b, p, l))
  BY DEF ChunkComes
<1>4. /\ AfterThis = AfterChunk(p, l) /\ NewText = SubSeq(t, 1, i) \o c
  BY <1>3 DEF AfterThis, NewText
<1>5. \A n \in 0 .. j - i : SubSeq(t, 1, i) \o SubSeq(b, 1, n) = SubSeq(t, 1, i + n)
  BY PartsJoin
<1>6. SubSeq(b, 1, j - i) = b
  <2>1. 0 \in 0 .. j - i
    OBVIOUS
  <2> QED
    BY <2>1, PartsJoin
<1> HIDE DEF b, p
<1>7. CASE IsRead(b, p, l)
  <2>1. p + Len(b) <= Len(input) + 1 /\ AfterChunk(p, l) = p + Len(b) /\ c = b
    BY <1>7 DEF IsRead
  <2>2. j - i \in 0 .. j - i /\ i + (j - i) = j
    OBVIOUS
  <2>3. NewText = SubSeq(t, 1, j)
    BY <1>4, <1>5, <1>6, <2>1, <2>2
  <2>4. AfterThis = p + (j - i) /\ p + (j - i) <= Len(input) + 1
    BY <1>2, <1>4, <2>1
  <2>5. AfterThis \in pos .. Len(input) + 1 /\ AfterThis = pos + 2 + (j - i)
    BY <1>1, <2>4
  <2> QED
    BY <2>3, <2>5
<1>8. CASE IsBegun(b, p, l)
  <2>1. /\ cut /\ AfterThis = Len(input) + 1
        /\ IF TypeOfTop = "binary" THEN c \in Seq(Byte) /\ Len(c) = Len(b)
           ELSE \E n \in 0 .. Len(b) : c = SubSeq(b, 1, n)
    BY <1>4, <1>8 DEF IsBegun
  <2>2. AfterThis \in pos .. Len(input) + 1
    BY <1>1, <2>1
  <2>3. ASSUME TypeOfTop = "binary" PROVE Len(NewText) = j
    <3> DEFINE u == SubSeq(t, 1, i)
    <3>1. u \in Seq(Byte) /\ Len(u) = i
      <4>1. u \in Seq(Byte) /\ Len(u) = i - 1 + 1
        BY SubSeqIs
      <4> HIDE DEF u
      <4>2. i - 1 + 1 = i
        OBVIOUS
      <4> QED
        BY <4>1, <4>2
    <3> HIDE DEF u, c
    <3>2. c \in Seq(Byte) /\ Len(c) = j - i
      BY <1>2, <2>1, <2>3
    <3>3. /\ u \o c \in Seq(Byte) /\ Len(u \o c) = Len(u) + Len(c) /\ Len(u) \in Nat /\ Len(c) \in Nat
          /\ \A k \in 1 .. Len(u) : (u \o c)[k] = u[k]
          /\ \A k \in 1 .. Len(c) : (u \o c)[Len(u) + k] = c[k]
      <4>1. u \in Seq(Byte) /\ c \in Seq(Byte)
        BY <3>1, <3>2
      <4> QED
        BY <4>1, Joined
    <3>4. NewText = u \o c
      BY <1>4 DEF u
    <3>5. Len(NewText) = i + (j - i)
      BY <3>1, <3>2, <3>3, <3>4
    <3> QED
      BY <3>5
  <2>4. ASSUME TypeOfTop # "binary" PROVE \E n \in 0 .. j : NewText = SubSeq(t, 1, n)
    <3>1. PICK n \in 0 .. j - i : c = SubSeq(b, 1, n)
      BY <1>2, <2>1, <2>4
    <3>2. i + n \in 0 .. j
      OBVIOUS
    <3>3. NewText = SubSeq(t, 1, i + n)
      BY <1>4, <1>5, <3>1
    <3> QED
      BY <3>2, <3>3
  <2> QED
    BY <2>1, <2>2, <2>3, <2>4
<1> QED
  BY <1>3, <1>7, <1>8

\* the chunk, and what is known of it
ChunkIn(x, q, k) ==
  LET i == Point(x, k)
      j == End(x, k)
  IN  /\ x.text \in Seq(Byte) /\ i \in Nat /\ j \in Nat /\ i <= j /\ j <= Len(x.text)
      /\ AfterThis \in pos .. Len(input) + 1
      /\ \/ NewText = SubSeq(x.text, 1, j) /\ AfterThis = pos + 2 + (j - i)
         \/ /\ cut /\ AfterThis = Len(input) + 1
            /\ IF TypeOfTop = "binary" THEN Len(NewText) = j
               ELSE \E c \in 0 .. j : NewText = SubSeq(x.text, 1, c)
      /\ IsChunk <=> k < Full(x)
      /\ q \in Nat /\ k \in Nat /\ k <= Full(x) /\ Full(x) \in Nat /\ pos = q + 3 * k + i + 1 /\ pos \in Nat

LEMMA ChunkIsIn ==
  ASSUME NEW x, IsTextRead(x), NEW q, NEW k, ChunkStarts(x, q, k), LengthAt(pos) # Huge
  PROVE  ChunkIn(x, q, k)
<1> DEFINE S == Top.obj + 1 .. Len(message)
           i == Point(x, k)
           j == End(x, k)
           t == x.text
<1>1. /\ IsNode(x, S) /\ x.type \in Texts /\ TypeOfTop = x.type /\ Reading
  BY DEF IsTextRead
<1> HIDE DEF S
<1>2. q \in Nat /\ k \in 0 .. Full(x) /\ pos = Place(x, q, k) + 1 /\ Top.tag = HeadOf(x, k)
      /\ heap[Top.obj].text = SubSeq(t, 1, i)
  BY DEF ChunkStarts
<1>3. t \in Seq(Byte)
  BY <1>1, TextNode
<1>4. i \in Nat /\ j \in Nat /\ i <= j /\ j <= Len(t)
  BY <1>1, <1>2, SizeIs
<1>5. Full(x) \in Nat
  BY <1>1, UnitsAre
<1>6. ChunkComes(Bits(t, i, j), Size(x, k))
  BY ChunkIsRead
<1>7. pos = q + 3 * k + i + 1 /\ pos \in Nat
  BY <1>1, <1>2, ReadingHas DEF Place
<1>8. IsChunk <=> k < Full(x)
  <2>1. Tag(x.type) # ChunkTag(x.type)
    BY <1>1, TextTags
  <2> QED
    BY <1>1, <1>2, <2>1 DEF IsChunk, HeadOf
<1> HIDE DEF i, j, t
<1>9. /\ AfterThis \in pos .. Len(input) + 1
      /\ \/ NewText = SubSeq(t, 1, j) /\ AfterThis = pos + 2 + (j - i)
         \/ /\ cut /\ AfterThis = Len(input) + 1
            /\ IF TypeOfTop = "binary" THEN Len(NewText) = j
               ELSE \E c \in 0 .. j : NewText = SubSeq(t, 1, c)
  BY <1>1, <1>2, <1>3, <1>4, <1>6, ChunkEnds
<1>10. k \in Nat /\ k <= Full(x)
  BY <1>2, <1>5
<1> QED
  BY <1>2, <1>3, <1>4, <1>5, <1>7, <1>8, <1>9, <1>10 DEF ChunkIn, i, j, t

LEMMA ChunkMiddle ==
  ASSUME NEW x, IsTextRead(x), NEW q, NEW k, ChunkStarts(x, q, k), LengthAt(pos) # Huge, k < Full(x)
  PROVE  /\ IsChunk /\ NewPos \in pos .. Len(input) + 1
         /\ ~Out(Came, NewPos) => /\ NewText = SubSeq(x.text, 1, Point(x, k + 1))
                                  /\ NewPos = Place(x, q, k + 1) + 1 /\ NewTag = HeadOf(x, k + 1)
<1> DEFINE i == Point(x, k)
           j == Point(x, k + 1)
           a == AfterThis
           n == Len(input)
           m == k + 1
<1>1. ChunkIn(x, q, k)
  BY ChunkIsIn
<1>2. /\ IsChunk /\ i \in Nat /\ j \in Nat /\ i <= j /\ a \in pos .. n + 1
      /\ \/ NewText = SubSeq(x.text, 1, j) /\ a = pos + 2 + (j - i)
         \/ cut /\ a = n + 1
      /\ q \in Nat /\ k \in Nat /\ Full(x) \in Nat /\ pos = q + 3 * k + i + 1 /\ pos \in Nat
  BY <1>1 DEF ChunkIn, End
<1>3. NewPos = Upto(a + 1) /\ NewTag = ByteAt(a)
  BY <1>2 DEF NewPos, NewTag
<1>4. n \in Nat /\ n = Len(input) /\ input \in Seq(Byte) /\ m = k + 1 /\ m \in 0 .. Full(x) /\ m \in Nat
  BY <1>2 DEF IsTextRead, Reading
<1> HIDE DEF i, j, a, n, m
<1>5. a \in Nat /\ a >= pos /\ a <= n + 1
  BY <1>2, <1>4
<1>6. /\ a <= n => NewPos = a + 1
      /\ ~(a <= n) => NewPos = n + 1
      /\ NewPos \in pos .. n + 1
  <2>1. a + 1 \in Nat
    BY <1>5
  <2>2. NewPos = IF a + 1 <= n THEN a + 1 ELSE n + 1
    BY <1>3, <1>4, <2>1, UptoIs
  <2> QED
    BY <1>2, <1>4, <1>5, <2>2
<1>7. ASSUME ~Out(Came, NewPos) PROVE NewText = SubSeq(x.text, 1, j) /\ NewPos = Place(x, q, m) + 1 /\ NewTag = HeadOf(x, m)
  <2>1. ~cut \/ NewPos <= n
    BY <1>4, <1>6, <1>7, CameIs DEF Out
  <2>2. ~cut \/ a <= n
    BY <1>4, <1>5, <1>6, <2>1
  <2>3. NewText = SubSeq(x.text, 1, j) /\ a = pos + 2 + (j - i)
    BY <1>2, <1>4, <2>2
  <2> DEFINE p == Place(x, q, m)
  <2>4. a = p
    <3>1. p = q + 3 * m + j
      BY <1>4 DEF Place, j, m
    <3> HIDE DEF p
    <3>2. a = q + 3 * k + i + 1 + 2 + (j - i)
      BY <1>2, <2>3
    <3> QED
      BY <1>2, <1>4, <3>1, <3>2
  <2> HIDE DEF p
  <2>5. Lies(Came, <<HeadOf(x, m)>>, p) /\ HeadOf(x, m) \in Byte
    <3> DEFINE S == Top.obj + 1 .. Len(message)
    <3>1. IsNode(x, S) /\ x.type \in Texts
      BY DEF IsTextRead
    <3> HIDE DEF S
    <3>2. Lies(Came, ChunkOf(x, m), p)
      <4>1. \A z : \A y \in Nat : Lies(z, WrittenLeaf(x), y) => \A e \in 0 .. Full(x) : Lies(z, ChunkOf(x, e), Place(x, y, e))
        BY <3>1, TextLayout
      <4>2. \A y \in Nat : Lies(Came, WrittenLeaf(x), y) => \A e \in 0 .. Full(x) : Lies(Came, ChunkOf(x, e), Place(x, y, e))
        BY <4>1, Zenon
      <4>3. Lies(Came, WrittenLeaf(x), q)
        BY DEF ChunkStarts
      <4> QED
        BY <1>2, <1>4, <4>2, <4>3 DEF p
    <3> DEFINE h == HeadOf(x, m)
               u == Length16(Size(x, m))
               b == Bits(x.text, Point(x, m), End(x, m))
    <3>3. Lies(Came, Coded(h, u, b), p)
      BY <3>2 DEF ChunkOf
    <3>4. h \in Byte
      BY <3>1, TextTags DEF HeadOf
    <3>5. /\ Size(x, m) \in Nat /\ Size(x, m) <= 65535 /\ Point(x, m) \in Nat /\ End(x, m) \in Nat
          /\ Point(x, m) <= End(x, m) /\ End(x, m) <= Len(x.text) /\ x.text \in Seq(Byte)
      BY <1>4, <3>1, SizeIs, TextNode
    <3>6. u \in Seq(Byte) /\ Len(u) = 2
      <4> DEFINE e == Size(x, m)
      <4>1. e \in Nat /\ e <= 65535
        BY <3>5
      <4> HIDE DEF e
      <4>2. Length16(e) \in Seq(Byte) /\ Len(Length16(e)) = 2
        BY <4>1, Length16Is
      <4> QED
        BY <4>2 DEF e
    <3>7. b \in Seq(Byte)
      BY <3>5, BitsAre
    <3>8. p \in Nat
      BY <1>5, <2>4
    <3> HIDE DEF h, u, b
    <3>9. Lies(Came, <<h>>, p)
      BY <3>3, <3>4, <3>6, <3>7, <3>8, CodedLies
    <3> QED
      BY <3>4, <3>9 DEF h
  <2>6. IF a <= n THEN ByteAt(a) = HeadOf(x, m) ELSE cut
    <3>1. a \in Nat /\ Len(input) \in Nat /\ Lies(Came, <<HeadOf(x, m)>>, a)
      BY <1>4, <1>5, <2>4, <2>5
    <3> DEFINE h == HeadOf(x, m)
    <3>2. h \in Byte /\ Lies(Came, <<h>>, a)
      BY <2>5, <3>1
    <3> HIDE DEF h
    <3>3. IF a <= Len(input) THEN ByteAt(a) = h ELSE cut /\ ByteAt(a) = EOF
      BY <3>1, <3>2, OneByte
    <3> QED
      BY <1>4, <3>3 DEF h
  <2>7. a <= n
    BY <2>2, <2>6
  <2> QED
    BY <1>3, <1>6, <2>3, <2>4, <2>6, <2>7 DEF p
<1> QED
  BY <1>2, <1>4, <1>6, <1>7 DEF j, m

LEMMA ChunkLast ==
  ASSUME NEW x, IsTextRead(x), NEW q, NEW k, ChunkStarts(x, q, k), LengthAt(pos) # Huge, ~(k < Full(x))
  PROVE  /\ ~IsChunk /\ NewPos \in pos .. Len(input) + 1
         /\ \/ NewText = x.text /\ NewPos = q + Len(WrittenLeaf(x))
            \/ /\ Out(Came, NewPos)
               /\ IF TypeOfTop = "binary" THEN Len(NewText) <= Len(x.text) ELSE IsPrefix(NewText, x.text)
<1> DEFINE i == Point(x, k)
           t == x.text
           j == Len(t)
           a == AfterThis
           n == Len(input)
<1>1. ChunkIn(x, q, k)
  BY ChunkIsIn
<1>2. /\ ~IsChunk /\ i \in Nat /\ j \in Nat /\ i <= j /\ a \in pos .. n + 1 /\ t \in Seq(Byte)
      /\ \/ NewText = SubSeq(t, 1, j) /\ a = pos + 2 + (j - i)
         \/ /\ cut /\ a = n + 1
            /\ IF TypeOfTop = "binary" THEN Len(NewText) = j
               ELSE \E c \in 0 .. j : NewText = SubSeq(t, 1, c)
      /\ q \in Nat /\ k \in Nat /\ k <= Full(x) /\ Full(x) \in Nat /\ pos = q + 3 * k + i + 1 /\ pos \in Nat
  BY <1>1 DEF ChunkIn, End
<1>3. NewPos = a
  BY <1>2 DEF NewPos
<1>4. n \in Nat /\ n = Len(input) /\ k = Full(x) /\ j = Len(t)
  BY <1>2 DEF IsTextRead, Reading
<1>5. Len(WrittenLeaf(x)) = 3 * (k + 1) + j
  <2>1. IsNode(x, Top.obj + 1 .. Len(message)) /\ x.type \in Texts
    BY DEF IsTextRead
  <2>2. Len(WrittenLeaf(x)) = 3 * (Full(x) + 1) + Len(x.text)
    BY <2>1, TextLayout
  <2> QED
    BY <1>4, <2>2
<1> HIDE DEF i, j, a, n, t
<1>6. CASE NewText = SubSeq(t, 1, j) /\ a = pos + 2 + (j - i)
  <2>1. SubSeq(t, 1, j) = t
    BY <1>2, <1>4
  <2>2. a = q + (3 * (k + 1) + j)
    BY <1>2, <1>6
  <2>3. a = q + Len(WrittenLeaf(x))
    BY <1>5, <2>2
  <2> QED
    BY <1>2, <1>3, <1>4, <1>6, <2>1, <2>3 DEF t
<1>7. CASE /\ cut /\ a = n + 1
           /\ IF TypeOfTop = "binary" THEN Len(NewText) = j
              ELSE \E c \in 0 .. j : NewText = SubSeq(t, 1, c)
  <2>1. Out(Came, NewPos)
    BY <1>3, <1>4, <1>7, CameIs DEF Out
  <2>2. TypeOfTop = "binary" => Len(NewText) <= Len(t)
    BY <1>2, <1>4, <1>7
  <2>3. TypeOfTop # "binary" => IsPrefix(NewText, t)
    BY <1>2, <1>4, <1>7, PartIsPrefix
  <2> QED
    BY <1>2, <1>3, <1>4, <2>1, <2>2, <2>3 DEF t
<1> QED
  BY <1>2, <1>6, <1>7

-----------------------------------------------------------------------------
(* A chunk is read.                                                        *)

LEMMA TextBecomes ==
  ASSUME NEW h, IsHeap(h), NEW o \in 1 .. Len(h), NEW text, NEW h2, h2 = [h EXCEPT ![o].text = text]
  PROVE  /\ Len(h2) = Len(h) /\ \A x \in 1 .. Len(h) : x # o => h2[x] = h[x]
         /\ h2[o].type = h[o].type /\ h2[o].value = h[o].value /\ h2[o].class = h[o].class
         /\ h2[o].parts = h[o].parts /\ h2[o].text = text
<1> DEFINE e == [h[o] EXCEPT !.text = text]
<1>1. PICK D : h \in Seq(D)
  BY DEF IsHeap
<1>2. IsRecord(h[o])
  BY DEF IsHeap, IsObject
<1>3. /\ e.type = h[o].type /\ e.value = h[o].value /\ e.class = h[o].class /\ e.parts = h[o].parts /\ e.text = text
  BY <1>2 DEF IsRecord
<1>4. h2 = [h EXCEPT ![o] = e]
  OBVIOUS
<1> HIDE DEF e
<1> DEFINE A == D \cup {e}
<1>5. h \in Seq(A) /\ e \in A
  BY <1>1
<1> HIDE DEF A
<1>6. h2 \in Seq(A) /\ Len(h2) = Len(h) /\ h2[o] = e /\ \A k \in 1 .. Len(h) : k # o => h2[k] = h[k]
  BY <1>4, <1>5, MemberChanges
<1> QED
  BY <1>3, <1>6

LEMMA TagIsChanged ==
  ASSUME NEW f, IsFrameRecord(f), NEW t, NEW s
  PROVE  Advanced(f, t, s).tag = t
BY DEF IsFrameRecord, Advanced

\* what ReadChunk does
LEMMA ChunkStep ==
  ASSUME ReadChunk
  PROVE  /\ ReadsChunk /\ LengthAt(pos) # Huge /\ mode = "reading" /\ frames # <<>> /\ Top.step = "chunks"
         /\ heap' = [heap EXCEPT ![Top.obj].text = NewText]
         /\ frames' = [frames EXCEPT ![Len(frames)].tag = NewTag,
                                     ![Len(frames)].step = IF IsChunk THEN "chunks" ELSE "end"]
         /\ pos' = NewPos /\ UNCHANGED <<wire, mode, misuse, short>> /\ loose' = loose
<1>1. /\ ReadsChunk /\ LengthAt(pos) # Huge /\ mode = "reading" /\ frames # <<>> /\ Top.step = "chunks"
      /\ UNCHANGED <<wire, mode, misuse, short>> /\ loose' = loose
  BY DEF ReadChunk, ReadsChunk
<1>2. PassChunk(NewText)
  BY DEF ReadChunk, NewText
<1>3. heap' = [heap EXCEPT ![Top.obj].text = NewText]
  BY <1>2 DEF PassChunk
<1>4. pos' = NewPos
  BY <1>2 DEF PassChunk, NewPos, AfterThis, IsChunk
<1>5. frames' = [frames EXCEPT ![Len(frames)].tag = IF IsChunk THEN ByteAt(AfterThis) ELSE @,
                               ![Len(frames)].step = IF IsChunk THEN "chunks" ELSE "end"]
  BY <1>2 DEF PassChunk, AfterThis, IsChunk
<1>6. frames' = [frames EXCEPT ![Len(frames)].tag = NewTag,
                               ![Len(frames)].step = IF IsChunk THEN "chunks" ELSE "end"]
  BY <1>5 DEF NewTag, Top
<1> QED
  BY <1>1, <1>3, <1>4, <1>6

LEMMA TextIsLast ==
  ASSUME NEW x, IsTextRead(x)
  PROVE  Top.obj = Len(heap) /\ Top.refs = <<>> /\ Len(Top.refs) = 0
<1>1. Reading /\ frames # <<>> /\ Top.step = "chunks"
  BY DEF IsTextRead, ReadsChunk
<1>2. /\ IsFrame(Top, Len(heap)) /\ Top.obj \in 1 .. Len(heap) /\ Len(heap) \in Nat
      /\ NextNode(message, Top.obj, Len(Top.refs)) > Len(heap)
  BY <1>1, ReadingTop DEF Reading
<1>3. Top.refs = <<>> /\ Len(Top.refs) = 0
  BY <1>1, <1>2 DEF IsFrame
<1>4. NextNode(message, Top.obj, 0) = Top.obj + 1
  BY DEF NextNode
<1> DEFINE o == Top.obj
           n == Len(heap)
<1>5. o \in 1 .. n /\ n \in Nat /\ o + 1 > n
  BY <1>2, <1>3, <1>4
<1> HIDE DEF o, n
<1>6. o = n
  BY <1>5
<1> QED
  BY <1>3, <1>6 DEF o, n

LEMMA ChunkSays ==
  ASSUME NEW x, IsTextRead(x), LengthAt(pos) # Huge, NEW h2, Len(h2) = Len(heap),
         h2[Top.obj].value = x.value, h2[Top.obj].class = x.class, h2[Top.obj].text = NewText, ~IsChunk
  PROVE  NodeSays(Came, h2, NewPos, Top.obj)
<1> DEFINE o == Top.obj
           y == h2[o]
<1>1. PICK q, k : ChunkStarts(x, q, k)
  BY LengthIsThere, ChunkExists DEF IsTextRead
<1>2. \/ NewText = x.text
      \/ /\ Out(Came, NewPos)
         /\ IF TypeOfTop = "binary" THEN Len(NewText) <= Len(x.text) ELSE IsPrefix(NewText, x.text)
  BY <1>1, ChunkMiddle, ChunkLast
<1>3. x = Came.doc[o] /\ x.type \in Texts /\ TypeOfTop = x.type /\ IsNode(x, Top.obj + 1 .. Len(message))
  BY CameIs DEF IsTextRead
<1>4. x.class = <<>> /\ Len(x.class) \in Nat
  <2>1. x.type \notin {"list", "map", "remote"}
    BY <1>3 DEF Texts
  <2>2. x.class = <<>>
    BY <1>3, <2>1, NodeIs
  <2> QED
    BY <2>2
<1>5. y.value = x.value /\ y.class = x.class /\ y.text = NewText /\ y = h2[o]
  OBVIOUS
<1>6. o = Len(h2)
  BY TextIsLast
<1> HIDE DEF y, o
<1>7. CASE NewText = x.text
  <2>1. SaysSame(y, x)
    BY <1>5, <1>7 DEF SaysSame
  <2> QED
    BY <1>3, <1>5, <2>1 DEF NodeSays, o
<1>8. CASE /\ Out(Came, NewPos)
           /\ IF TypeOfTop = "binary" THEN Len(NewText) <= Len(x.text) ELSE IsPrefix(NewText, x.text)
  <2>1. Begun(y, x)
    <3>1. IsPrefix(y.class, x.class)
      BY <1>4, <1>5, SelfIsPrefix
    <3>2. CASE x.type = "binary"
      BY <1>3, <1>5, <1>8, <3>2 DEF Begun
    <3>3. CASE x.type # "binary"
      <4>1. x.type \notin {"integer", "ref", "binary"}
        BY <1>3, <3>3 DEF Texts
      <4> QED
        BY <1>3, <1>5, <1>8, <3>1, <4>1 DEF Begun
    <3> QED
      BY <3>2, <3>3
  <2> QED
    BY <1>3, <1>5, <1>6, <1>8, <2>1 DEF NodeSays, o
<1> QED
  BY <1>2, <1>7, <1>8

LEMMA ChunkInPlace ==
  ASSUME NEW x, IsTextRead(x), LengthAt(pos) # Huge, ~Out(Came, NewPos), NEW q,
         StartsAt(Came, frames, q), InPlace(Came, Top, heap, q, pos),
         NEW h2, h2[Top.obj].text = NewText,
         NEW g, g.obj = Top.obj, g.step = (IF IsChunk THEN "chunks" ELSE "end"), g.tag = NewTag
  PROVE  InPlace(Came, g, h2, q, NewPos)
<1>1. PICK k : ChunkStarts(x, q, k)
  BY ChunkStart
<1>2. x = Came.doc[g.obj] /\ x.type \in Texts /\ Reading /\ frames # <<>> /\ IsNode(x, Top.obj + 1 .. Len(message))
  BY CameIs DEF IsTextRead, ReadsChunk
<1>3. CASE k < Full(x)
  <2>1. /\ IsChunk /\ NewText = SubSeq(x.text, 1, Point(x, k + 1))
        /\ NewPos = Place(x, q, k + 1) + 1 /\ NewTag = HeadOf(x, k + 1)
    BY <1>1, <1>3, ChunkMiddle
  <2> DEFINE m == k + 1
  <2>2. m \in 0 .. Full(x)
    <3>1. k \in 0 .. Full(x) /\ Full(x) \in Nat
      BY <1>1, <1>2, UnitsAre DEF ChunkStarts
    <3> QED
      BY <1>3, <3>1
  <2>3. g.step = "chunks" /\ g.tag = HeadOf(x, m) /\ NewPos = Place(x, q, m) + 1 /\ h2[g.obj].text = SubSeq(x.text, 1, Point(x, m))
    BY <2>1
  <2> HIDE DEF m
  <2>4. /\ g.tag = IF m < Full(x) THEN ChunkTag(x.type) ELSE Tag(x.type)
        /\ NewPos = q + 3 * m + Point(x, m) + 1
    BY <2>3 DEF HeadOf, Place
  <2>5. AtChunk(Came, g, h2, q, NewPos)
    BY <1>2, <2>2, <2>3, <2>4 DEF AtChunk
  <2> QED
    BY <2>3, <2>5 DEF InPlace
<1>4. CASE ~(k < Full(x))
  <2>1. ~IsChunk /\ NewPos = q + Len(WrittenLeaf(x))
    BY <1>1, <1>4, ChunkLast
  <2>2. Written(Came.doc, g.obj) = WrittenLeaf(x)
    <3> DEFINE o == Top.obj
    <3>1. o \in 1 .. Len(message) /\ message \in Answers /\ message[o].type \notin {"list", "map"} /\ message[o] = x
      BY <1>2, ReadingTop, CameIs DEF Reading, Texts
    <3> HIDE DEF o
    <3>2. Written(message, o) = WrittenLeaf(message[o])
      BY <3>1, WrittenUnfolds
    <3> QED
      BY <3>1, <3>2, CameIs DEF o
  <2>3. g.step = "end"
    BY <2>1
  <2> QED
    BY <2>1, <2>2, <2>3 DEF InPlace
<1> QED
  BY <1>3, <1>4

LEMMA ReadChunkReads ==
  ASSUME DInv, RInv, misuse = "none", ReadChunk
  PROVE  RInv'
<1> DEFINE s == IF IsChunk THEN "chunks" ELSE "end"
           g == Advanced(Top, NewTag, s)
           o == Top.obj
           x == message[o]
<1>1. /\ ReadsChunk /\ LengthAt(pos) # Huge /\ mode = "reading" /\ frames # <<>> /\ Top.step = "chunks"
      /\ heap' = [heap EXCEPT ![o].text = NewText]
      /\ frames' = [frames EXCEPT ![Len(frames)].tag = NewTag, ![Len(frames)].step = s]
      /\ pos' = NewPos /\ UNCHANGED <<wire, mode, misuse, short>> /\ loose' = loose
  BY ChunkStep
<1>1a. mode # "idle" /\ UNCHANGED wire /\ (short => short')
  BY <1>1
<1> SUFFICES ASSUME Fair, Fair' PROVE SoFar'
  BY <1>1a, StepReads
<1>2. Reading
  BY <1>1, ReadingSo
<1>3. ~loose'
  BY <1>1, <1>1a, NotLoose
<1>4. IsTextRead(x)
  BY <1>1, <1>2, TextIsRead
<1>5. /\ IsFrame(Top, Len(heap)) /\ o \in 1 .. Len(heap) /\ o \in 1 .. Len(message) /\ FrameRead(Came, Top, heap, pos)
      /\ NextNode(message, o, Len(Top.refs)) > Len(heap) /\ Len(frames) \in 1 .. Len(frames)
      /\ Out(Came, pos) \/ NextNode(message, o, Len(Top.refs)) = Len(heap) + 1
      /\ IsHeap(heap) /\ Len(heap) \in Nat
  BY <1>1, <1>2, ReadingTop DEF Reading
<1>6. /\ IsFrameRecord(g) /\ g.step = s /\ g.obj = o /\ g.refs = Top.refs /\ g.done = Top.done /\ g.tag = NewTag
  <2>1. IsFrameRecord(Top)
    BY <1>5 DEF IsFrame
  <2> QED
    BY <2>1, TagStepChange, TagIsChanged
<1>7. frames' = [frames EXCEPT ![Len(frames)] = g]
  BY <1>1, <1>5 DEF Top, Advanced
<1> HIDE DEF g
<1>8. /\ Len(heap') = Len(heap) /\ \A y \in 1 .. Len(heap) : y # o => heap'[y] = heap[y]
      /\ heap'[o].type = heap[o].type /\ heap'[o].value = heap[o].value /\ heap'[o].class = heap[o].class
      /\ heap'[o].parts = heap[o].parts /\ heap'[o].text = NewText
  BY <1>1, <1>5, TextBecomes
<1>9. /\ NewPos \in pos .. Len(input) + 1 /\ Len(input) \in Nat /\ pos \in Nat /\ pos >= 1
      /\ ~Out(Came, pos)
  <2>1. PICK q, k : ChunkStarts(x, q, k)
    BY <1>1, <1>2, <1>4, LengthIsThere, ChunkExists
  <2>2. NewPos \in pos .. Len(input) + 1
    BY <1>1, <1>4, <2>1, ChunkMiddle, ChunkLast
  <2> QED
    BY <1>1, <1>2, <2>2, ReadingHas, LengthIsThere DEF Reading
<1>10. pos' \in 1 .. Len(input) + 1 /\ pos' \in Nat /\ pos <= pos'
  BY <1>1, <1>9
<1>11. TopBecomes(frames', g, heap', pos')
  <2>1. /\ Len(frames') = Len(frames) /\ frames' # <<>> /\ frames'[Len(frames')] = g
        /\ \A k \in 1 .. Len(frames) : k # Len(frames) => frames'[k] = frames[k]
    <3>1. frames # <<>>
      BY <1>1
    <3> QED
      BY <1>2, <1>7, <3>1, FramesBecome
  <2>2. \A y \in 1 .. Len(heap) : y # o => Alike(heap'[y], heap[y])
    BY <1>8 DEF Alike
  <2> QED
    BY <1>6, <1>8, <1>10, <2>1, <2>2 DEF TopBecomes
<1>12. Len(Top.refs) = 0 /\ o = Len(heap)
  BY <1>4, TextIsLast
<1>13. heap[o].parts = <<>> /\ x.type \in Texts /\ heap[o].type = x.type
  <2>1. Top.step # "moving"
    BY <1>1
  <2>2. heap[o].parts = <<>>
    BY <1>5, <2>1 DEF FrameRead
  <2> QED
    BY <1>4, <2>2 DEF IsTextRead, TypeOfTop
<1>14. FrameRead(Came, g, heap', pos')
  <2>1. s \in {"chunks", "end"} /\ s # "moving"
    OBVIOUS
  <2>2. Len(g.refs) = 0 /\ 0 <= Len(Came.doc[o].parts) /\ \A k \in 1 .. 0 : FALSE
    <3>1. Len(message[o].parts) \in Nat
      BY <1>1, <1>2, ReadingTop
    <3> QED
      BY <1>6, <1>12, <3>1, CameIs
  <2> HIDE DEF s
  <2>3. heap'[o].parts = <<>>
    BY <1>8, <1>13
  <2>4. Came.doc = message /\ x = message[o] /\ x.type \in Texts
    BY <1>13, CameIs
  <2> HIDE DEF o, x
  <2> QED
    BY <1>5, <1>6, <2>1, <2>2, <2>3, <2>4 DEF FrameRead
<1>15. NodeRead(Came, frames', heap', pos', o)
  <2>1. NodeRead(Came, frames, heap, pos, o)
    BY <1>1, <1>2, NodeReadTop
  <2>2. /\ IsOpen(frames', o) /\ (InChunks(frames', o) <=> g.step = "chunks") /\ InChunks(frames, o)
    BY <1>1, <1>2, <1>11, TopOpens
  <2>3. heap[o].type = x.type /\ heap[o].value = x.value /\ heap[o].class = x.class
    BY <2>1, <2>2, CameIs DEF NodeRead
  <2>4. heap'[o].type = x.type /\ heap'[o].value = x.value /\ heap'[o].class = x.class
    BY <1>8, <2>3
  <2>5. ~InChunks(frames', o) => NodeSays(Came, heap', pos', o)
    <3>1. ~InChunks(frames', o) => ~IsChunk
      BY <1>6, <2>2
    <3> QED
      BY <1>1, <1>4, <1>8, <2>4, <3>1, ChunkSays
  <2> QED
    BY <2>2, <2>4, <2>5, CameIs DEF NodeRead
<1>16. TopPlaced(g, heap', pos')
  <2>1. ASSUME ~Out(Came, pos'), NEW q, StartsAt(Came, frames, q), InPlace(Came, Top, heap, q, pos)
        PROVE  InPlace(Came, g, heap', q, pos')
    BY <1>1, <1>4, <1>6, <1>8, <2>1, ChunkInPlace
  <2>2. NextNode(message, o, Len(g.refs)) > Len(heap) /\ NextNode(message, o, Len(g.refs)) = Len(heap) + 1
    BY <1>5, <1>6, <1>9
  <2> QED
    BY <2>1, <2>2 DEF TopPlaced
<1> QED
  BY <1>1, <1>2, <1>3, <1>10, <1>11, <1>14, <1>15, <1>16, TopStepReads

-----------------------------------------------------------------------------
(* A node is complete.                                                     *)

LEMMA PopReads ==
  ASSUME Reading, frames # <<>>, Top.step \in {"end", "moving"}, HasParts(Came, heap, pos, Top.obj),
         Len(Top.refs) = Len(message[Top.obj].parts) \/ Out(Came, pos)
  PROVE  Completed(Came, Rest, heap, pos, Top.obj)
<1> DEFINE o == Top.obj
           n == Len(frames)
           c == n - 1
           r == Len(Top.refs)
           m == Len(message[o].parts)
<1>1. /\ n \in 1 .. n /\ n \in Nat /\ c \in Nat /\ c = n - 1 /\ c <= n /\ n = Len(frames) /\ Top = frames[n]
      /\ \A k \in 1 .. c : k \in 1 .. n /\ k # n
  BY ReadingTop DEF Top, Reading
<1>2. /\ message \in Answers /\ pos \in Nat /\ Len(input) \in Nat /\ Len(heap) \in Nat /\ Len(heap) <= Len(message)
      /\ StackRead(Came, frames, heap, pos) /\ \A x \in 1 .. Len(heap) : NodeRead(Came, frames, heap, pos, x)
      /\ IsStack(frames, Len(heap))
  BY ReadingHas DEF Reading
<1>3. /\ o \in 1 .. Len(heap) /\ o \in 1 .. Len(message) /\ Awaits(Came, frames, c, o)
      /\ r \in Nat /\ r <= m /\ m \in Nat /\ NextNode(message, o, r) > Len(heap)
      /\ \/ Out(Came, pos)
         \/ NextNode(message, o, r) = Len(heap) + 1 /\ \E q : StartsAt(Came, frames, q) /\ InPlace(Came, Top, heap, q, pos)
      /\ o = Top.obj
  BY ReadingTop
<1>4. \A k \in 1 .. n : k # n => frames[k].obj # o
  BY TopBelow
<1>5. /\ IsStack(Rest, Len(heap)) /\ Len(Rest) = c /\ \A k \in 1 .. c : Rest[k] = frames[k]
  <2>1. IsStack(Rest, Len(heap))
    BY <1>2, TopIs DEF Rest
  <2>2. PICK D : frames \in Seq(D)
    BY <1>2 DEF IsStack
  <2>3. c \in Nat /\ SubSeq(frames, 1, c) \in Seq(D) /\ Len(SubSeq(frames, 1, c)) = c
        /\ \A k \in 1 .. c : SubSeq(frames, 1, c)[k] = frames[k]
    BY <2>2, FrontIs
  <2>4. Rest = SubSeq(frames, 1, c)
    BY DEF Rest
  <2> QED
    BY <2>1, <2>3, <2>4
<1>6. r = m \/ Out(Came, pos)
  OBVIOUS
<1>7. HasParts(Came, heap, pos, o) /\ Top.step # "chunks"
  OBVIOUS
<1> HIDE DEF o, n, c, r, m
<1>8. StackRead(Came, Rest, heap, pos)
  <2>1. \A k \in 1 .. c : Rest[k] = frames[k] /\ heap[frames[k].obj].parts = heap[frames[k].obj].parts
    BY <1>5
  <2>2. \A k \in 1 .. c : FrameRead(Came, Rest[k], heap, pos) /\ Awaits(Came, Rest, k - 1, Rest[k].obj)
    BY <1>1, <1>2, <2>1, StackStays
  <2> QED
    BY <1>5, <2>2 DEF StackRead
<1>9. Awaits(Came, Rest, Len(Rest), o)
  <2>1. c = 0 \/ Rest[c] = frames[c]
    <3>1. c = 0 \/ c \in 1 .. c
      BY <1>1
    <3>2. \A k \in 1 .. c : Rest[k] = frames[k]
      BY <1>5
    <3> QED
      BY <3>1, <3>2
  <2> QED
    BY <1>3, <1>5, <2>1, AwaitsStays
<1>10. /\ \A x : x # o => (IsOpen(frames, x) => IsOpen(Rest, x)) /\ (InChunks(Rest, x) <=> InChunks(frames, x))
       /\ ~InChunks(frames, o) /\ ~InChunks(Rest, o)
  <2>1. frames[n].obj = o /\ frames[n].step # "chunks"
    BY <1>1, <1>3, <1>7
  <2>2. \A k \in 1 .. n : k = n \/ k \in 1 .. c
    BY <1>1
  <2>3. ASSUME NEW x, x # o PROVE IsOpen(frames, x) => IsOpen(Rest, x)
    BY <1>1, <1>5, <2>1, <2>2, <2>3 DEF IsOpen
  <2>4. ASSUME NEW x, x # o PROVE InChunks(frames, x) => InChunks(Rest, x)
    BY <1>1, <1>5, <2>1, <2>2, <2>4 DEF InChunks
  <2>5. ASSUME NEW x PROVE InChunks(Rest, x) => InChunks(frames, x)
    BY <1>1, <1>5, <2>5 DEF InChunks
  <2>6. ~InChunks(frames, o)
    BY <1>1, <1>4, <2>1 DEF InChunks
  <2> QED
    BY <2>3, <2>4, <2>5, <2>6
<1>11. ASSUME NEW x \in 1 .. Len(heap) PROVE NodeRead(Came, Rest, heap, pos, x)
  <2>1. NodeRead(Came, frames, heap, pos, x)
    BY <1>2
  <2>2. CASE x = o
    BY <1>7, <1>10, <2>1, <2>2 DEF NodeRead
  <2>3. CASE x # o
    <3>1. Alike(heap[x], heap[x])
      BY DEF Alike
    <3>2. (IsOpen(frames, x) => IsOpen(Rest, x)) /\ (InChunks(Rest, x) <=> InChunks(frames, x))
      BY <1>10, <2>3
    <3> QED
      BY <2>1, <3>1, <3>2, NodeStays
  <2> QED
    BY <2>2, <2>3
<1>12. LastOf(message, o) >= Len(heap) /\ (~Out(Came, pos) => Len(heap) = LastOf(message, o))
  <2> DEFINE e == NextNode(message, o, m)
             f == NextNode(message, o, r)
  <2>1. e = LastOf(message, o) + 1 /\ e \in Nat /\ f \in Nat /\ LastOf(message, o) \in Nat /\ f <= e
    <3>1. m = Len(message[o].parts)
      BY DEF m, o
    <3>2. /\ Len(message) \in Nat
          /\ NextNode(message, o, Len(message[o].parts)) = LastOf(message, o) + 1
          /\ \A k \in 0 .. Len(message[o].parts) : NextNode(message, o, k) \in o + 1 .. Len(message) + 1
      BY <1>2, <1>3, NextIs
    <3>3. r \in 0 .. m /\ m \in 0 .. m
      BY <1>3
    <3>4. f \in o + 1 .. Len(message) + 1 /\ e \in o + 1 .. Len(message) + 1
      BY <3>1, <3>2, <3>3
    <3>5. LastOf(message, o) \in o .. Len(message)
      BY <1>2, <1>3, LastIn
    <3>6. f <= e
      BY <1>2, <1>3, <3>1, NextRises
    <3>7. o \in Nat
      BY <1>3
    <3> HIDE DEF e, f
    <3>8. f \in Nat /\ e \in Nat /\ LastOf(message, o) \in Nat
      BY <3>2, <3>4, <3>5, <3>7
    <3> QED
      BY <3>1, <3>2, <3>6, <3>8 DEF e
  <2>2. f > Len(heap)
    BY <1>3
  <2>3. ~Out(Came, pos) => e = f /\ f = Len(heap) + 1
    BY <1>3, <1>6
  <2> HIDE DEF e, f
  <2> DEFINE l == LastOf(message, o)
  <2>4. e = l + 1 /\ l \in Nat
    BY <2>1
  <2> HIDE DEF l
  <2>5. l >= Len(heap) /\ (~Out(Came, pos) => Len(heap) = l)
    BY <1>2, <2>1, <2>2, <2>3, <2>4
  <2> QED
    BY <2>5 DEF l
<1>13. ASSUME ~Out(Came, pos), Len(Rest) > 0
       PROVE  \E q : /\ StartsAt(Came, Rest, q)
                     /\ pos = q + Len(Ahead(Came.doc, Rest[Len(Rest)].obj, Len(Rest[Len(Rest)].refs)))
                                + Len(Written(Came.doc, o))
  <2>1. PICK q : StartsAt(Came, frames, q) /\ InPlace(Came, Top, heap, q, pos)
    BY <1>3, <1>13
  <2>2. pos = q + Len(Written(Came.doc, o))
    BY <1>3, <2>1 DEF InPlace
  <2>3. Len(frames) \in Nat /\ Len(frames) > 0 /\ Len(Rest) = Len(frames) - 1 /\ Len(frames) > 1
        /\ \A k \in 1 .. Len(Rest) : Rest[k] = frames[k]
    <3>1. Len(Rest) = c /\ Len(frames) = n /\ c > 0 /\ \A k \in 1 .. c : Rest[k] = frames[k]
      BY <1>1, <1>5, <1>13
    <3>2. n > 1 /\ n > 0
      BY <1>1, <3>1
    <3>3. Len(frames) \in Nat /\ Len(frames) > 0 /\ Len(frames) > 1
      BY <1>1, <3>1, <3>2
    <3>4. Len(Rest) = Len(frames) - 1
      BY <1>1, <3>1
    <3>5. \A k \in 1 .. Len(Rest) : Rest[k] = frames[k]
      BY <3>1
    <3> QED
      BY <3>3, <3>4, <3>5
  <2>4. \A gs : Len(gs) = Len(frames) - 1 /\ Len(frames) > 1 /\ (\A k \in 1 .. Len(gs) : gs[k] = frames[k]) =>
          \E q1 : /\ StartsAt(Came, gs, q1)
                  /\ q = q1 + Len(Ahead(Came.doc, gs[Len(gs)].obj, Len(gs[Len(gs)].refs)))
    <3>1. StartsAt(Came, frames, q) /\ Len(frames) \in Nat /\ Len(frames) > 0
      BY <2>1, <2>3
    <3>2. /\ q \in Nat /\ Lies(Came, Written(Came.doc, frames[Len(frames)].obj), q)
          /\ \A gs : Len(gs) = Len(frames) - 1 /\ Len(frames) > 1 /\ (\A k \in 1 .. Len(gs) : gs[k] = frames[k]) =>
               \E q1 : /\ StartsAt(Came, gs, q1)
                       /\ q = q1 + Len(Ahead(Came.doc, gs[Len(gs)].obj, Len(gs[Len(gs)].refs)))
      BY <3>1, StartsBelow
    <3> QED
      BY <3>2
  <2>5. PICK q1 : /\ StartsAt(Came, Rest, q1)
                  /\ q = q1 + Len(Ahead(Came.doc, Rest[Len(Rest)].obj, Len(Rest[Len(Rest)].refs)))
    BY <2>3, <2>4
  <2> QED
    BY <2>2, <2>5
<1>14. o \in 1 .. Len(heap)
  BY <1>3
<1>15. Completed(Came, Rest, heap, pos, o)
  BY <1>2, <1>5, <1>8, <1>9, <1>11, <1>12, <1>13, <1>14, CameIs DEF Completed
<1> QED
  BY <1>15 DEF o

LEMMA EndOfTextReads ==
  ASSUME DInv, RInv, misuse = "none", EndOfText
  PROVE  RInv'
<1>1. /\ mode = "reading" /\ mode # "idle" /\ frames # <<>> /\ Top.step = "end" /\ pos' = pos
      /\ UNCHANGED wire /\ UNCHANGED <<misuse, loose>>
      /\ \/ heap' = heap /\ Deliver(Top.obj, Rest, FALSE)
         \/ TypeOfTop = "binary" /\ Deliver(Top.obj, Rest, TRUE)
  BY DEF EndOfText
<1>2. short => short'
  BY <1>1, DeliverKeeps
<1> SUFFICES ASSUME Fair, Fair' PROVE SoFar'
  BY <1>1, <1>2, StepReads
<1>3. Reading
  BY <1>1, ReadingSo
<1> DEFINE o == Top.obj
<1>4. /\ o \in 1 .. Len(heap) /\ o \in 1 .. Len(message) /\ FrameRead(Came, Top, heap, pos) /\ TypeOfTop = message[o].type
      /\ IsNode(message[o], o + 1 .. Len(message)) /\ Len(Top.refs) \in 0 .. Len(message[o].parts)
  BY <1>1, <1>3, ReadingTop
<1>5. /\ message[o].type \in Texts /\ heap[o].parts = <<>>
  BY <1>1, <1>4, CameIs DEF FrameRead
<1>6. CASE TypeOfTop = "binary" /\ Deliver(o, Rest, TRUE)
  <2>1. short'
    BY <1>6 DEF Deliver
  <2> QED
    BY <2>1 DEF Fair
<1>7. CASE heap' = heap /\ Deliver(o, Rest, FALSE)
  <2>1. message[o].parts = <<>>
    <3> DEFINE S == o + 1 .. Len(message)
    <3>1. IsNode(message[o], S) /\ message[o].type \notin {"list", "map"}
      BY <1>4, <1>5 DEF Texts
    <3> HIDE DEF S
    <3> QED
      BY <3>1, NodeIs
  <2>2. Len(message[o].parts) = 0 /\ Len(Top.refs) = 0
    BY <1>4, <2>1
  <2>3. HasParts(Came, heap, pos, o)
    <3>1. PartsAre(Came, heap, o, 0)
      BY <1>5, <2>2, CameIs, NoneYet
    <3> QED
      BY <2>2, <3>1, CameIs DEF HasParts
  <2>4. Top.step \in {"end", "moving"}
    BY <1>1
  <2>5. Completed(Came, Rest, heap, pos, o)
    BY <1>1, <1>3, <2>2, <2>3, <2>4, PopReads
  <2>6. Completed(Came, Rest, heap', pos', o)
    BY <1>1, <1>7, <2>5
  <2>7. ~loose
    BY <1>1, NotLoose
  <2>8. pos' \in 1 .. Len(input) + 1
    BY <1>1, <1>3 DEF Reading
  <2> QED
    BY <1>1, <1>7, <2>6, <2>7, <2>8, DeliverReads
<1> QED
  BY <1>1, <1>6, <1>7

LEMMA EndOfContainerReads ==
  ASSUME DInv, RInv, misuse = "none", EndOfContainer
  PROVE  RInv'
<1>1. /\ mode = "reading" /\ mode # "idle" /\ frames # <<>> /\ Top.step = "moving" /\ ~(Top.done < Len(Top.refs))
      /\ pos' = pos /\ heap' = heap
      /\ UNCHANGED wire /\ UNCHANGED <<misuse, loose>> /\ Deliver(Top.obj, Rest, FALSE)
  BY DEF EndOfContainer, Moves, MovesMore
<1>2. short => short'
  BY <1>1, DeliverKeeps
<1> SUFFICES ASSUME Fair, Fair' PROVE SoFar'
  BY <1>1, <1>2, StepReads
<1>3. Reading
  BY <1>1, ReadingSo
<1> DEFINE o == Top.obj
           r == Len(Top.refs)
<1>4. /\ FrameRead(Came, Top, heap, pos) /\ r \in Nat /\ r \in 0 .. Len(message[o].parts)
      /\ NextNode(message, o, r) > Len(heap) /\ IsFrame(Top, Len(heap)) /\ Len(message[o].parts) \in Nat
  BY <1>1, <1>3, ReadingTop
<1>5. /\ r = Len(message[o].parts) \/ Out(Came, pos)
      /\ Top.done <= r /\ PartsAre(Came, heap, o, Top.done)
  BY <1>1, <1>4, CameIs DEF FrameRead
<1>6. Top.done = r
  BY <1>1, <1>4, <1>5 DEF IsFrame
<1>7. HasParts(Came, heap, pos, o)
  <2> HIDE DEF o, r
  <2> QED
    BY <1>4, <1>5, <1>6, CameIs DEF HasParts
<1>8. Completed(Came, Rest, heap, pos, o)
  <2>1. Top.step \in {"end", "moving"}
    BY <1>1
  <2> QED
    BY <1>1, <1>3, <1>5, <1>7, <2>1, PopReads
<1>9. Completed(Came, Rest, heap', pos', o)
  BY <1>1, <1>8
<1>10. ~loose
  BY <1>1, NotLoose
<1>11. pos' \in 1 .. Len(input) + 1
  BY <1>1, <1>3 DEF Reading
<1> QED
  BY <1>1, <1>9, <1>10, <1>11, DeliverReads

-----------------------------------------------------------------------------
(* What the parts of a list or a map mean.                                 *)

MeantBody(d, o, f, k) ==
  IF ~IsReplaced(d, o, k) THEN d[o].parts[k]
  ELSE IF d[o].type = "map" /\ Names(d, o, k) < k THEN f[Names(d, o, k)]
  ELSE d[o].parts[Names(d, o, k)]
IsMeant(d, o, f) == f = [k \in DOMAIN d[o].parts |-> MeantBody(d, o, f, k)]

LEMMA MeantPartsIs == \A d, o : MeantParts(d, o) = (CHOOSE f : IsMeant(d, o, f))
BY DEF MeantParts, IsMeant, MeantBody

\* the part that is named by an earlier one is one of the parts
LEMMA NamedBefore ==
  ASSUME NEW d, NEW o, NEW k \in Nat, IsReplaced(d, o, k), d[o].type = "map", Names(d, o, k) < k,
         Len(d[o].parts) \in Nat, DOMAIN d[o].parts = 1 .. Len(d[o].parts)
  PROVE  Names(d, o, k) \in 1 .. k - 1 /\ Names(d, o, k) \in 1 .. Len(d[o].parts)
<1> DEFINE t == Names(d, o, k)
           n == Len(d[o].parts)
<1>1. t \in 1 .. n /\ n \in Nat /\ t < k
  BY DEF IsReplaced
<1> HIDE DEF t, n
<1>2. t \in 1 .. k - 1
  BY <1>1
<1> QED
  BY <1>1, <1>2 DEF t, n

\* only the values of f before k matter
LEMMA MeantSame ==
  ASSUME NEW d, NEW o, NEW k \in Nat, NEW f, NEW g,
         Len(d[o].parts) \in Nat, DOMAIN d[o].parts = 1 .. Len(d[o].parts),
         \A j \in 1 .. k - 1 : j <= Len(d[o].parts) => g[j] = f[j]
  PROVE  MeantBody(d, o, g, k) = MeantBody(d, o, f, k)
<1>1. CASE IsReplaced(d, o, k) /\ d[o].type = "map" /\ Names(d, o, k) < k
  <2>1. Names(d, o, k) \in 1 .. k - 1 /\ Names(d, o, k) \in 1 .. Len(d[o].parts)
    BY <1>1, NamedBefore
  <2>2. g[Names(d, o, k)] = f[Names(d, o, k)]
    BY <2>1
  <2> QED
    BY <1>1, <2>2 DEF MeantBody
<1>2. CASE ~(IsReplaced(d, o, k) /\ d[o].type = "map" /\ Names(d, o, k) < k)
  BY <1>2 DEF MeantBody
<1> QED
  BY <1>1, <1>2

LEMMA MeantExists ==
  ASSUME NEW d \in Answers, NEW o \in 1 .. Len(d)
  PROVE  \E f : IsMeant(d, o, f)
<1> DEFINE n == Len(d[o].parts)
           B(f, k) == MeantBody(d, o, f, k)
           T == {j \in Nat : j <= n => \E f : \A k \in 1 .. j : f[k] = B(f, k)}
<1>n. n \in Nat /\ DOMAIN d[o].parts = 1 .. n
  <2>1. d[o].parts \in Seq(o + 1 .. Len(d))
    BY DocumentIs
  <2> QED
    BY <2>1
<1>s. \A f, g : \A k \in Nat : (\A j \in 1 .. k - 1 : j <= n => g[j] = f[j]) => B(g, k) = B(f, k)
  BY <1>n, MeantSame
<1> HIDE DEF n, B
<1>1. 0 \in T
  <2>1. 1 .. 0 = {}
    OBVIOUS
  <2> QED
    BY <2>1
<1>2. ASSUME NEW j \in Nat, j \in T PROVE j + 1 \in T
  <2> SUFFICES ASSUME j + 1 <= n
               PROVE  \E f : \A k \in 1 .. j + 1 : f[k] = B(f, k)
    OBVIOUS
  <2>1. PICK f : \A k \in 1 .. j : f[k] = B(f, k)
    BY <1>2, <1>n
  <2> DEFINE c == j + 1
             g == [k \in 1 .. n |-> IF k = c THEN B(f, c) ELSE f[k]]
  <2>2. c = j + 1 /\ c \in Nat /\ c <= n /\ c >= 1
    OBVIOUS
  <2>3. /\ \A k \in 1 .. j : g[k] = f[k]
        /\ g[c] = B(f, c)
    BY <1>n, <2>2
  <2> HIDE DEF c, g
  <2>4. ASSUME NEW k \in 1 .. c PROVE g[k] = B(g, k)
    <3>1. k \in Nat /\ \A i \in 1 .. k - 1 : i \in 1 .. j
      BY <2>2
    <3>2. \A i \in 1 .. k - 1 : i <= n => g[i] = f[i]
      BY <2>3, <3>1
    <3>3. B(g, k) = B(f, k)
      BY <1>s, <3>1, <3>2
    <3>4. CASE k = c
      BY <2>3, <3>3, <3>4
    <3>5. CASE k # c
      <4>1. k \in 1 .. j
        BY <2>2, <3>5
      <4> QED
        BY <2>1, <2>3, <3>3, <4>1
    <3> QED
      BY <3>4, <3>5
  <2> QED
    BY <2>2, <2>4
<1>3. \A j \in Nat : j \in T
  <2> HIDE DEF T
  <2> QED
    BY <1>1, <1>2, SetInduction
<1>4. PICK f : \A k \in 1 .. n : f[k] = B(f, k)
  <2>1. n \in T
    <3> HIDE DEF T
    <3> QED
      BY <1>3, <1>n
  <2>2. n <= n
    BY <1>n
  <2> QED
    BY <2>1, <2>2
<1> DEFINE e == [k \in 1 .. n |-> f[k]]
<1>5. \A k \in 1 .. n : e[k] = f[k]
  OBVIOUS
<1> HIDE DEF e
<1>6. ASSUME NEW k \in 1 .. n PROVE f[k] = B(e, k)
  <2>1. k \in Nat /\ \A i \in 1 .. k - 1 : i <= n => e[i] = f[i]
    BY <1>n, <1>5
  <2>2. B(e, k) = B(f, k)
    BY <1>s, <2>1
  <2> QED
    BY <1>4, <2>2
<1>7. e = [k \in 1 .. n |-> B(e, k)]
  <2>1. [k \in 1 .. n |-> f[k]] = [k \in 1 .. n |-> B(e, k)]
    BY <1>6
  <2> QED
    BY <2>1 DEF e
<1>8. IsMeant(d, o, e)
  BY <1>7, <1>n DEF IsMeant, B
<1> QED
  BY <1>8

\* as many parts as there are, each of them as it is replaced
LEMMA MeantUnfolds ==
  ASSUME NEW d \in Answers, NEW o \in 1 .. Len(d)
  PROVE  /\ Len(MeantParts(d, o)) = Len(d[o].parts) /\ Len(d[o].parts) \in Nat
         /\ MeantParts(d, o) \in Seq({MeantParts(d, o)[k] : k \in 1 .. Len(d[o].parts)})
         /\ \A k \in 1 .. Len(d[o].parts) : MeantParts(d, o)[k] = MeantBody(d, o, MeantParts(d, o), k)
<1> DEFINE M == MeantParts(d, o)
           n == Len(d[o].parts)
           A == {M[k] : k \in 1 .. n}
<1>1. IsMeant(d, o, M)
  BY MeantExists, MeantPartsIs
<1>2. n \in Nat /\ DOMAIN d[o].parts = 1 .. n
  <2>1. d[o].parts \in Seq(o + 1 .. Len(d))
    BY DocumentIs
  <2> QED
    BY <2>1
<1> HIDE DEF M, n
<1>3. M = [k \in 1 .. n |-> MeantBody(d, o, M, k)]
  BY <1>1, <1>2 DEF IsMeant
<1>4. \A k \in 1 .. n : M[k] = MeantBody(d, o, M, k)
  <2> DEFINE B(k) == MeantBody(d, o, M, k)
             W == [k \in 1 .. n |-> B(k)]
  <2>1. M = W
    BY <1>3
  <2> HIDE DEF B
  <2>2. \A k \in 1 .. n : W[k] = B(k)
    OBVIOUS
  <2> HIDE DEF W
  <2> QED
    BY <2>1, <2>2 DEF B
<1>5. M \in [1 .. n -> A]
  <2>1. DOMAIN M = 1 .. n
    BY <1>3
  <2>2. M = [k \in 1 .. n |-> M[k]]
    BY <1>3
  <2> QED
    BY <2>2
<1>6. M \in Seq(A) /\ Len(M) = n /\ DOMAIN M = 1 .. n
  <2> HIDE DEF A
  <2> QED
    BY <1>2, <1>5, SequenceOf
<1> QED
  BY <1>2, <1>4, <1>6 DEF M, n

\* the next one or two
LEMMA PartsGrow ==
  ASSUME NEW A, NEW s \in Seq(A), NEW c \in Nat, c + 1 <= Len(s)
  PROVE  SubSeq(s, 1, c) \o <<s[c + 1]>> = SubSeq(s, 1, c + 1)
OBVIOUS

LEMMA PartsGrowTwice ==
  ASSUME NEW A, NEW s \in Seq(A), NEW c \in Nat, c + 2 <= Len(s)
  PROVE  SubSeq(s, 1, c) \o <<s[c + 1], s[c + 2]>> = SubSeq(s, 1, c + 2)
OBVIOUS

-----------------------------------------------------------------------------
(* A part is moved to where it belongs.                                    *)

LEMMA FreedBecomes ==
  ASSUME NEW h, IsHeap(h), NEW e \in 1 .. Len(h), NEW h2, h2 = [h EXCEPT ![e].freed = TRUE]
  PROVE  IsHeap(h2) /\ Len(h2) = Len(h) /\ \A x \in 1 .. Len(h) : Alike(h2[x], h[x])
<1> DEFINE r == [h[e] EXCEPT !.freed = TRUE]
<1>1. PICK D : h \in Seq(D)
  BY DEF IsHeap
<1>2. IsRecord(h[e])
  BY DEF IsHeap, IsObject
<1>3. Alike(r, h[e])
  BY <1>2 DEF IsRecord, Alike
<1>4. h2 = [h EXCEPT ![e] = r]
  OBVIOUS
<1> HIDE DEF r
<1> DEFINE A == D \cup {r}
<1>5. h \in Seq(A) /\ r \in A
  BY <1>1
<1> HIDE DEF A
<1> DEFINE t == [h EXCEPT ![e] = r]
<1>t. t \in Seq(A) /\ Len(t) = Len(h) /\ t[e] = r /\ \A k \in 1 .. Len(h) : k # e => t[k] = h[k]
  BY <1>5, MemberChanges
<1>u. h2 = t
  BY <1>4
<1> HIDE DEF t
<1>6. Len(h2) = Len(h) /\ h2[e] = r /\ \A k \in 1 .. Len(h) : k # e => h2[k] = h[k]
  BY <1>t, <1>u
<1>7. IsHeap(h2)
  BY ReleasedIs DEF IsReleased
<1>8. \A x : Alike(h[x], h[x])
  BY DEF Alike
<1> QED
  BY <1>3, <1>6, <1>7, <1>8

LEMMA PartsBecome ==
  ASSUME NEW h, IsHeap(h), NEW o \in 1 .. Len(h), NEW os, NEW h2, h2 = [h EXCEPT ![o].parts = @ \o os]
  PROVE  /\ Len(h2) = Len(h) /\ \A x \in 1 .. Len(h) : x # o => h2[x] = h[x]
         /\ h2[o].type = h[o].type /\ h2[o].value = h[o].value /\ h2[o].class = h[o].class
         /\ h2[o].text = h[o].text /\ h2[o].parts = h[o].parts \o os
<1> DEFINE ps == h[o].parts \o os
           e == [h[o] EXCEPT !.parts = ps]
<1>1. PICK D : h \in Seq(D)
  BY DEF IsHeap
<1>2. IsRecord(h[o])
  BY DEF IsHeap, IsObject
<1>4. h2 = [h EXCEPT ![o] = e]
  OBVIOUS
<1> HIDE DEF ps
<1>3. /\ e.type = h[o].type /\ e.value = h[o].value /\ e.class = h[o].class /\ e.text = h[o].text /\ e.parts = ps
  BY <1>2 DEF IsRecord
<1> HIDE DEF e
<1> DEFINE A == D \cup {e}
<1>5. h \in Seq(A) /\ e \in A
  BY <1>1
<1> HIDE DEF A
<1> DEFINE t == [h EXCEPT ![o] = e]
<1>t. t \in Seq(A) /\ Len(t) = Len(h) /\ t[o] = e /\ \A k \in 1 .. Len(h) : k # o => t[k] = h[k]
  BY <1>5, MemberChanges
<1>u. h2 = t
  BY <1>4
<1> HIDE DEF t
<1>6. Len(h2) = Len(h) /\ h2[o] = e /\ \A k \in 1 .. Len(h) : k # o => h2[k] = h[k]
  BY <1>t, <1>u
<1> QED
  BY <1>3, <1>6 DEF ps

\* parts os were added to what the innermost frame is for
Gained(h2, os) ==
  /\ Len(h2) = Len(heap) /\ \A x \in 1 .. Len(heap) : x # Top.obj => Alike(h2[x], heap[x])
  /\ h2[Top.obj].type = heap[Top.obj].type /\ SaysSame(h2[Top.obj], heap[Top.obj])
  /\ h2[Top.obj].parts = heap[Top.obj].parts \o os

LEMMA PartsAdded ==
  ASSUME IsHeap(heap), Top.obj \in 1 .. Len(heap), NEW os, NEW h2,
         \/ h2 = Moved(heap, os)
         \/ \E e \in 1 .. Len(heap) : h2 = Moved(Released(e), os)
  PROVE  Gained(h2, os)
<1> DEFINE o == Top.obj
<1>1. CASE h2 = Moved(heap, os)
  <2>1. h2 = [heap EXCEPT ![o].parts = @ \o os]
    BY <1>1 DEF Moved
  <2>2. /\ Len(h2) = Len(heap) /\ \A x \in 1 .. Len(heap) : x # o => h2[x] = heap[x]
        /\ h2[o].type = heap[o].type /\ h2[o].value = heap[o].value /\ h2[o].class = heap[o].class
        /\ h2[o].text = heap[o].text /\ h2[o].parts = heap[o].parts \o os
    <3> HIDE DEF o
    <3>1. o \in 1 .. Len(heap)
      BY DEF o
    <3> QED
      BY <2>1, <3>1, PartsBecome
  <2> QED
    BY <2>2 DEF Gained, Alike, SaysSame
<1>2. CASE \E e \in 1 .. Len(heap) : h2 = Moved(Released(e), os)
  <2> PICK e \in 1 .. Len(heap) : h2 = Moved(Released(e), os)
    BY <1>2
  <2> DEFINE h1 == Released(e)
  <2>0. h1 = [heap EXCEPT ![e].freed = TRUE]
    BY DEF Released
  <2>1. h2 = [h1 EXCEPT ![o].parts = @ \o os]
    BY DEF Moved
  <2> HIDE DEF h1, o
  <2>2. IsHeap(h1) /\ Len(h1) = Len(heap) /\ \A x \in 1 .. Len(heap) : Alike(h1[x], heap[x])
    BY <2>0, FreedBecomes
  <2>3. /\ Len(h2) = Len(h1) /\ \A x \in 1 .. Len(h1) : x # o => h2[x] = h1[x]
        /\ h2[o].type = h1[o].type /\ h2[o].value = h1[o].value /\ h2[o].class = h1[o].class
        /\ h2[o].text = h1[o].text /\ h2[o].parts = h1[o].parts \o os
    <3>0. o \in 1 .. Len(h1) /\ IsHeap(h1)
      BY <2>2 DEF o
    <3> QED
      BY <2>1, <3>0, PartsBecome
  <2>4. Alike(h1[o], heap[o])
    BY <2>2 DEF o
  <2> QED
    BY <2>2, <2>3, <2>4 DEF Gained, Alike, SaysSame, o
<1> QED
  BY <1>1, <1>2

\* frame g goes on moving
LEMMA MovedReads ==
  ASSUME DInv, RInv, misuse = "none", mode = "reading", frames # <<>>, UNCHANGED <<wire, mode, misuse, short>>,
         ~loose', Reading, Top.step = "moving",
         NEW g, g.obj = Top.obj, g.step = "moving", Len(g.refs) = Len(Top.refs),
         frames' = [frames EXCEPT ![Len(frames)] = g], pos' = pos,
         NEW os, Gained(heap', os), FrameRead(Came, g, heap', pos)
  PROVE  SoFar'
<1> DEFINE o == Top.obj
           next == NextNode(message, o, Len(Top.refs))
<1>1. /\ o \in 1 .. Len(heap) /\ pos \in Nat /\ pos \in 1 .. Len(input) + 1
      /\ next > Len(heap)
      /\ Out(Came, pos) \/ next = Len(heap) + 1
      /\ o = Top.obj
  BY ReadingHas, ReadingTop DEF Reading
<1>2. TopBecomes(frames', g, heap', pos')
  <2>1. /\ Len(frames') = Len(frames) /\ frames' # <<>> /\ frames'[Len(frames')] = g
        /\ \A k \in 1 .. Len(frames) : k # Len(frames) => frames'[k] = frames[k]
    BY FramesBecome
  <2>2. pos' \in Nat /\ pos <= pos'
    BY <1>1
  <2> QED
    BY <2>1, <2>2 DEF TopBecomes, Gained
<1>3. NodeRead(Came, frames, heap, pos, o)
  BY NodeReadTop
<1>4. IsOpen(frames', o) /\ ~InChunks(frames', o) /\ ~InChunks(frames, o)
  BY <1>2, TopOpens
<1>5. NodeRead(Came, frames', heap', pos', o)
  <2>1. NodeSays(Came, heap, pos, o) /\ heap[o].type = Came.doc[o].type
    BY <1>3, <1>4 DEF NodeRead
  <2>2. Len(heap') = Len(heap) /\ heap'[o].type = heap[o].type /\ SaysSame(heap'[o], heap[o])
    BY DEF Gained
  <2>3. NodeSays(Came, heap', pos', o)
    <3> HIDE DEF o
    <3> QED
      BY <2>1, <2>2 DEF NodeSays, SaysSame, Begun
  <2> QED
    BY <1>4, <2>1, <2>2, <2>3 DEF NodeRead
<1>6. TopPlaced(g, heap', pos')
  <2>1. ASSUME NEW q, InPlace(Came, Top, heap, q, pos) PROVE InPlace(Came, g, heap', q, pos')
    BY <2>1 DEF InPlace
  <2> QED
    BY <1>1, <2>1 DEF TopPlaced
<1>7. pos' \in 1 .. Len(input) + 1 /\ FrameRead(Came, g, heap', pos')
  BY <1>1
<1> QED
  BY <1>2, <1>5, <1>6, <1>7, TopStepReads

-----------------------------------------------------------------------------
(* The parts of lists: references name what they were written to name.     *)

\* the frame that moves parts
MovingTop(d, o, r, ps) ==
  /\ d = message /\ o = Top.obj /\ r = Len(Top.refs) /\ ps = message[Top.obj].parts
  /\ d \in Answers /\ o \in 1 .. Len(d) /\ o \in 1 .. Len(heap) /\ r \in Nat /\ Len(ps) \in Nat /\ r <= Len(ps)
  /\ DOMAIN d = 1 .. Len(d) /\ DOMAIN ps = 1 .. Len(ps) /\ DOMAIN Top.refs = 1 .. r
  /\ heap[o].type = d[o].type
  /\ \A k \in 1 .. r : Top.refs[k] \in 1 .. Len(heap) /\ Top.refs[k] \in 1 .. Len(d)
  /\ r = Len(ps) \/ Out(Came, pos)
  /\ Top.done \in Nat /\ Top.done <= r /\ PartsAre(Came, heap, o, Top.done)
  /\ \A k \in 1 .. r : Top.refs[k] = IF d[o].type = "map" /\ k <= Top.done THEN MeantParts(d, o)[k] ELSE ps[k]

LEMMA MovingTopIs ==
  ASSUME DInv, misuse = "none", mode = "reading", Reading, frames # <<>>, Top.step = "moving"
  PROVE  MovingTop(message, Top.obj, Len(Top.refs), message[Top.obj].parts)
<1> DEFINE d == message
           o == Top.obj
           r == Len(Top.refs)
           ps == message[Top.obj].parts
<1>1. /\ d \in Answers /\ o \in 1 .. Len(d) /\ o \in 1 .. Len(heap) /\ r \in Nat /\ Len(ps) \in Nat /\ r \in 0 .. Len(ps)
      /\ heap[o].type = d[o].type /\ IsFrame(Top, Len(heap)) /\ FrameRead(Came, Top, heap, pos)
  BY ReadingTop DEF Reading, TypeOfTop
<1>2. DOMAIN d = 1 .. Len(d) /\ ps \in Seq(o + 1 .. Len(d)) /\ Len(d) \in Nat
  BY <1>1, DocumentIs
<1>3. DOMAIN Top.refs = 1 .. r /\ \A k \in 1 .. r : Top.refs[k] \in 1 .. Len(heap)
  BY InnermostIs
<1>4. Len(heap) <= Len(d) /\ Len(heap) \in Nat
  BY ReadingHas DEF Reading
<1>5. \A k \in 1 .. r : Top.refs[k] \in 1 .. Len(d)
  <2> DEFINE n == Len(heap)
             l == Len(d)
  <2>1. n <= l /\ n \in Nat /\ l \in Nat /\ \A k \in 1 .. r : Top.refs[k] \in 1 .. n
    BY <1>2, <1>3, <1>4
  <2> HIDE DEF n, l, r
  <2>2. \A k \in 1 .. r : Top.refs[k] \in 1 .. l
    BY <2>1
  <2> QED
    BY <2>2 DEF l
<1>6. /\ r = Len(ps) \/ Out(Came, pos)
      /\ Top.done <= r /\ PartsAre(Came, heap, o, Top.done)
      /\ \A k \in 1 .. r : Top.refs[k] = IF d[o].type = "map" /\ k <= Top.done THEN MeantParts(d, o)[k] ELSE ps[k]
  BY <1>1, CameIs DEF FrameRead
<1>7. Top.done \in Nat
  BY <1>1 DEF IsFrame
<1>8. DOMAIN ps = 1 .. Len(ps) /\ r <= Len(ps)
  BY <1>1, <1>2
<1> HIDE DEF ps, r, o, d
<1>9. MovingTop(d, o, r, ps)
  BY <1>1, <1>2, <1>3, <1>5, <1>6, <1>7, <1>8 DEF MovingTop, d, o, r, ps
<1> QED
  BY <1>9 DEF d, o, r, ps

\* a reference that was read is the one that was sent
LEMMA ReferenceIs ==
  ASSUME Reading, NEW e \in 1 .. Len(heap), heap[e].type = "ref"
  PROVE  message[e].type = "ref" /\ heap[e].value = message[e].value /\ message[e].value \in Int
         /\ ~cut /\ \A p : ~Out(Came, p)
<1>1. /\ message \in Answers /\ Len(heap) <= Len(message) /\ Len(heap) \in Nat
      /\ NodeRead(Came, frames, heap, pos, e) /\ Fair
  BY ReadingHas DEF Reading
<1>2. DOMAIN message = 1 .. Len(message) /\ Len(message) \in Nat
  BY <1>1, DocumentIs
<1>3. e \in 1 .. Len(message)
  BY <1>1, <1>2
<1>4. message[e].type = "ref"
  BY <1>1, CameIs DEF NodeRead
<1>5. ~cut
  <2>1. HasRefs(message)
    BY <1>2, <1>3, <1>4 DEF HasRefs
  <2> QED
    BY <1>1, <2>1 DEF Fair
<1>6. \A p : ~Out(Came, p)
  BY <1>5, CameIs DEF Out
<1>7. heap[e].value = message[e].value
  <2>1. InChunks(frames, e) => heap[e].value = message[e].value
    BY <1>1, CameIs DEF NodeRead
  <2>2. ~InChunks(frames, e) => heap[e].value = message[e].value
    BY <1>1, <1>6, CameIs DEF NodeRead, NodeSays, SaysSame
  <2> QED
    BY <2>1, <2>2
<1>8. message[e].value \in Int
  <2> DEFINE S == e + 1 .. Len(message)
  <2>1. IsNode(message[e], S)
    BY <1>1, <1>3, DocumentIs
  <2> HIDE DEF S
  <2>2. message[e].value \in Int32
    BY <1>4, <2>1, NodeIs
  <2>3. Int32 \subseteq Int
    BY DEF Int32
  <2> QED
    BY <2>2, <2>3
<1> QED
  BY <1>4, <1>5, <1>6, <1>7, <1>8

LEMMA TypeIs ==
  ASSUME Reading, NEW e \in 1 .. Len(heap)
  PROVE  heap[e].type = message[e].type
<1>1. NodeRead(Came, frames, heap, pos, e)
  BY ReadingHas
<1> QED
  BY <1>1, CameIs DEF NodeRead

LEMMA ElementMeant ==
  ASSUME DInv, misuse = "none", Reading, MovesMore("list")
  PROVE  /\ SoundElement /\ NamesElement
         /\ (IF IsRef(Element) THEN Top.refs[ListTarget] ELSE Element) = MeantParts(message, Top.obj)[Top.done + 1]
         /\ Top.done + 1 <= Len(Top.refs) /\ Top.done \in Nat /\ frames # <<>> /\ Top.step = "moving"
         /\ message[Top.obj].type = "list" /\ Element \in 1 .. Len(heap) /\ mode = "reading"
<1> DEFINE d == message
           o == Top.obj
           r == Len(Top.refs)
           ps == message[Top.obj].parts
           k == Top.done + 1
           e == Element
           M == MeantParts(d, o)
<1>1. mode = "reading" /\ frames # <<>> /\ Top.step = "moving" /\ TypeOfTop = "list" /\ k \in 1 .. r
  BY ElementIs
<1>2. MovingTop(d, o, r, ps)
  BY <1>1, MovingTopIs
<1>3. /\ d = message /\ o = Top.obj /\ r = Len(Top.refs) /\ ps = d[o].parts /\ k = Top.done + 1 /\ e = Top.refs[k]
      /\ e = Element
  BY DEF Element
<1>t. d[o].type = "list"
  BY <1>1, <1>2 DEF TypeOfTop, MovingTop
<1>4. /\ r <= Len(ps) /\ DOMAIN ps = 1 .. Len(ps) /\ DOMAIN d = 1 .. Len(d) /\ d \in Answers /\ o \in 1 .. Len(d) /\ r \in Nat
      /\ r = Len(ps) \/ Out(Came, pos)
      /\ DOMAIN Top.refs = 1 .. r /\ Top.done \in Nat /\ Len(ps) \in Nat
  BY <1>2 DEF MovingTop
<1>5. \A j \in 1 .. r : Top.refs[j] = ps[j] /\ Top.refs[j] \in 1 .. Len(heap)
  BY <1>2, <1>t DEF MovingTop
<1> HIDE DEF d, o, r, ps, k, e, M
<1>6. e = ps[k] /\ e \in 1 .. Len(heap) /\ k \in 1 .. Len(ps)
  <2> DEFINE l == Len(ps)
  <2>0. k \in 1 .. r /\ r \in Nat /\ l \in Nat /\ r <= l
    BY <1>1, <1>4
  <2> HIDE DEF l
  <2>1. k \in 1 .. l
    BY <2>0
  <2> QED
    BY <1>3, <1>5, <2>0, <2>1 DEF l
<1>7. M[k] = MeantBody(d, o, M, k)
  <2>1. k \in 1 .. Len(d[o].parts)
    BY <1>3, <1>6
  <2>2. d \in Answers /\ o \in 1 .. Len(d)
    BY <1>4
  <2>3. \A j \in 1 .. Len(d[o].parts) : M[j] = MeantBody(d, o, M, j)
    BY <2>2, MeantUnfolds DEF M
  <2> QED
    BY <2>1, <2>3
<1>8. heap[e].type = d[e].type
  BY <1>3, <1>6, TypeIs
<1>9. CASE ~IsRef(e)
  <2>1. d[e].type # "ref"
    BY <1>8, <1>9 DEF IsRef
  <2>2. ~IsReplaced(d, o, k)
    BY <1>3, <1>6, <2>1 DEF IsReplaced
  <2>3. M[k] = e
    BY <1>3, <1>6, <1>7, <2>2 DEF MeantBody
  <2>4. SoundElement /\ NamesElement
    BY <1>3, <1>9 DEF SoundElement, NamesElement
  <2>5. k <= r
    <3>1. k \in 1 .. r /\ r \in Nat
      BY <1>1, <1>4
    <3> QED
      BY <3>1
  <2> QED
    BY <1>1, <1>3, <1>4, <1>6, <1>9, <1>t, <2>3, <2>4, <2>5 DEF M
<1>10. CASE IsRef(e)
  <2>1. d[e].type = "ref" /\ heap[e].value = d[e].value /\ \A p : ~Out(Came, p)
    BY <1>3, <1>6, <1>10, ReferenceIs DEF IsRef
  <2>2. IsReplaced(d, o, k) /\ r = Len(ps)
    BY <1>3, <1>4, <1>6, <1>t, <2>1 DEF IsReplaced
  <2> DEFINE t == Names(d, o, k)
  <2>3. ListTarget = t
    BY <1>3, <1>6, <1>t, <2>1 DEF ListTarget, Names
  <2>4. t \in 1 .. Len(ps) /\ d[ps[t]].type # "ref"
    <3>1. RefsAreSound(d)
      BY <1>3 DEF Reading, Fair
    <3>a. o \in DOMAIN d
      BY <1>4
    <3>b. k \in DOMAIN ps
      BY <1>4, <1>6
    <3>2. o \in DOMAIN d /\ k \in DOMAIN ps
      BY <3>a, <3>b
    <3>3. t \in DOMAIN ps /\ (d[ps[t]].type = "ref" => d[o].type = "map" /\ t < k)
      BY <1>3, <2>2, <3>1, <3>2 DEF RefsAreSound
    <3> QED
      BY <1>4, <1>t, <3>3
  <2>5. M[k] = ps[t]
    BY <1>3, <1>7, <1>t, <2>2 DEF MeantBody
  <2> HIDE DEF t
  <2>6. t \in 1 .. r /\ Top.refs[t] = ps[t] /\ ps[t] \in 1 .. Len(heap)
    <3>1. t \in 1 .. r
      BY <2>2, <2>4
    <3> QED
      BY <1>5, <3>1
  <2>7. ~IsRef(Top.refs[t])
    <3>1. heap[ps[t]].type = d[ps[t]].type
      BY <1>3, <2>6, TypeIs
    <3> QED
      BY <2>4, <2>6, <3>1 DEF IsRef
  <2>8. SoundElement /\ NamesElement
    BY <1>4, <2>3, <2>6, <2>7 DEF SoundElement, NamesElement
  <2>9. k <= r
    <3>1. k \in 1 .. r /\ r \in Nat
      BY <1>1, <1>4
    <3> QED
      BY <3>1
  <2> QED
    BY <1>1, <1>3, <1>4, <1>6, <1>10, <1>t, <2>3, <2>5, <2>6, <2>8, <2>9 DEF M
<1> QED
  BY <1>9, <1>10

LEMMA MoveElementReads ==
  ASSUME DInv, RInv, misuse = "none", MoveElement
  PROVE  RInv'
<1> DEFINE v == IF IsRef(Element) THEN Top.refs[ListTarget] ELSE Element
           os == <<v>>
           o == Top.obj
           g == Onward(Top)
           M == MeantParts(message, o)
<1>1. /\ MovesMore("list") /\ mode = "reading" /\ mode # "idle" /\ frames # <<>> /\ pos' = pos
      /\ UNCHANGED <<wire, mode, misuse, short>> /\ UNCHANGED wire /\ short' = short
      /\ loose' = (loose \/ ~SoundElement)
      /\ frames' = [frames EXCEPT ![Len(frames)].done = @ + 1]
      /\ heap' = Moved(heap, os) \/ heap' = Moved(Released(Element), os)
  BY DEF MoveElement, MovesMore, Moves, MeetsReference
<1> SUFFICES ASSUME Fair, Fair' PROVE SoFar'
  BY <1>1, StepReads
<1>2. Reading
  BY <1>1, ReadingSo
<1>3. /\ SoundElement /\ v = M[Top.done + 1] /\ Top.done + 1 <= Len(Top.refs) /\ Top.done \in Nat
      /\ Top.step = "moving" /\ message[o].type = "list" /\ Element \in 1 .. Len(heap)
  BY <1>1, <1>2, ElementMeant
<1>4. ~loose'
  BY <1>1, <1>3, NotLoose
<1>5. Gained(heap', os)
  <2>1. IsHeap(heap) /\ o \in 1 .. Len(heap)
    BY <1>1, <1>2, ReadingTop DEF Reading
  <2> HIDE DEF os
  <2> QED
    BY <1>1, <1>3, <2>1, PartsAdded
<1>6. MovingTop(message, o, Len(Top.refs), message[o].parts)
  BY <1>1, <1>2, <1>3, MovingTopIs
<1>7. g.step = "moving" /\ g.obj = o /\ g.refs = Top.refs /\ g.done = Top.done + 1
  <2>1. IsFrameRecord(Top)
    BY <1>1, <1>2, ReadingTop DEF IsFrame
  <2> QED
    BY <1>3, <2>1, DoneChange
<1>8. frames' = [frames EXCEPT ![Len(frames)] = g]
  <2>1. Len(frames) \in 1 .. Len(frames)
    BY <1>1, <1>2, ReadingTop
  <2> QED
    BY <1>1, <2>1 DEF Onward, Top
<1> HIDE DEF g, v
<1>9. FrameRead(Came, g, heap', pos)
  <2> DEFINE r == Len(Top.refs)
             ps == message[o].parts
             c == Top.done
             A == {M[k] : k \in 1 .. Len(ps)}
  <2>1. /\ o \in 1 .. Len(message) /\ r \in Nat /\ Len(ps) \in Nat /\ r <= Len(ps) /\ message \in Answers
        /\ r = Len(ps) \/ Out(Came, pos)
        /\ c \in Nat /\ c <= r /\ PartsAre(Came, heap, o, c)
        /\ \A k \in 1 .. r : Top.refs[k] = ps[k]
    BY <1>3, <1>6 DEF MovingTop
  <2>2. M \in Seq(A) /\ Len(M) = Len(ps)
    BY <2>1, MeantUnfolds
  <2>3. SubSeq(M, 1, c) \o <<M[c + 1]>> = SubSeq(M, 1, c + 1)
    <3>1. c + 1 <= Len(M)
      <4> DEFINE l == Len(ps)
      <4>1. c \in Nat /\ l \in Nat /\ r \in Nat /\ r <= l
        BY <2>1, Zenon
      <4>2. Len(M) = l
        BY <2>2, Zenon
      <4>3. c + 1 <= r
        BY <1>3, Zenon
      <4> HIDE DEF M, A, c, ps, r, l
      <4>4. c + 1 <= l
        BY <4>1, <4>3
      <4> QED
        BY <4>2, <4>4
    <3> HIDE DEF M, A, c, ps
    <3>2. c \in Nat
      BY <2>1
    <3> QED
      BY <2>2, <3>1, <3>2, PartsGrow
  <2>4. PartsAre(Came, heap', o, c + 1)
    <3>1. heap[o].parts = SubSeq(M, 1, c)
      BY <2>1, CameIs DEF PartsAre
    <3>2. heap'[o].parts = heap[o].parts \o os
      BY <1>5 DEF Gained
    <3>3. heap'[o].parts = SubSeq(M, 1, c + 1)
      BY <1>3, <2>3, <3>1, <3>2
    <3>4. c + 1 \in 0 .. Len(ps)
      BY <1>3, <2>1
    <3> QED
      BY <3>3, <3>4, CameIs DEF PartsAre
  <2>5. g.obj = o /\ Len(g.refs) = r /\ g.step = "moving" /\ g.done = c + 1 /\ g.refs = Top.refs /\ c + 1 <= r
    BY <1>3, <1>7
  <2>6. message[o].type \notin Texts /\ message[o].type # "map"
    BY <1>3 DEF Texts
  <2> HIDE DEF r, ps, c, o, M, A
  <2>7. Came.doc[o].parts = ps
    BY CameIs DEF ps
  <2> QED
    BY <2>1, <2>4, <2>5, <2>6, <2>7, CameIs DEF FrameRead
<1>10. g.obj = Top.obj /\ g.step = "moving" /\ Len(g.refs) = Len(Top.refs)
  BY <1>7
<1> HIDE DEF os
<1> QED
  BY <1>1, <1>2, <1>3, <1>4, <1>5, <1>8, <1>9, <1>10, MovedReads

-----------------------------------------------------------------------------
(* The parts of maps.                                                      *)

LEMMA Parities ==
  ASSUME NEW c \in Nat, (c + 2) % 2 = 0
  PROVE  /\ (c + 1) % 2 # 0
         /\ \A v \in Int : 2 * (v + 1) < c + 2 => 2 * (v + 1) <= c
<1>1. c % 2 = 0
  OBVIOUS
<1>2. (c + 1) % 2 # 0
  BY <1>1
<1>3. ASSUME NEW v \in Int, 2 * (v + 1) < c + 2 PROVE 2 * (v + 1) <= c
  BY <1>1, <1>3
<1> QED
  BY <1>2, <1>3

LEMMA NamesInside ==
  ASSUME NEW r \in Nat, r % 2 = 0, NEW v \in Int
  PROVE  v \in 0 .. r \div 2 - 1 <=> 2 * (v + 1) \in 1 .. r
<1>1. r = 2 * (r \div 2) /\ r \div 2 \in Nat
  OBVIOUS
<1> DEFINE h == r \div 2
<1>2. r = 2 * h /\ h \in Nat
  BY <1>1
<1> HIDE DEF h
<1>3. v \in 0 .. h - 1 <=> 2 * (v + 1) \in 1 .. r
  BY <1>2
<1> QED
  BY <1>3 DEF h

LEMMA PairMeant ==
  ASSUME DInv, misuse = "none", Reading, MovesMore("map")
  PROVE  /\ SoundPair /\ PairKey = MeantParts(message, Top.obj)[Top.done + 1]
         /\ (IF NamesPair THEN Top.refs[MapTarget] ELSE PairValue) = MeantParts(message, Top.obj)[Top.done + 2]
         /\ Top.done + 2 <= Len(Top.refs) /\ Top.done + 2 \in 1 .. Len(Top.refs) /\ Top.done \in Nat /\ frames # <<>>
         /\ Top.step = "moving" /\ message[Top.obj].type = "map" /\ PairValue \in 1 .. Len(heap)
         /\ mode = "reading"
<1> DEFINE d == message
           o == Top.obj
           r == Len(Top.refs)
           ps == message[Top.obj].parts
           c == Top.done
           k == c + 2
           e == PairValue
           M == MeantParts(d, o)
<1>1. /\ mode = "reading" /\ frames # <<>> /\ Top.step = "moving" /\ TypeOfTop = "map" /\ k \in 1 .. r /\ c + 1 \in 1 .. r
      /\ k % 2 = 0 /\ r % 2 = 0
  BY PairIs
<1>2. MovingTop(d, o, r, ps)
  BY <1>1, MovingTopIs
<1>3. /\ d = message /\ o = Top.obj /\ r = Len(Top.refs) /\ ps = d[o].parts /\ k = c + 2 /\ e = Top.refs[k]
      /\ e = PairValue /\ c = Top.done
  BY DEF PairValue
<1>t. d[o].type = "map"
  BY <1>1, <1>2 DEF TypeOfTop, MovingTop
<1>4. /\ r <= Len(ps) /\ DOMAIN ps = 1 .. Len(ps) /\ DOMAIN d = 1 .. Len(d) /\ d \in Answers /\ o \in 1 .. Len(d) /\ r \in Nat
      /\ r = Len(ps) \/ Out(Came, pos)
      /\ DOMAIN Top.refs = 1 .. r /\ c \in Nat /\ Len(ps) \in Nat
  BY <1>2 DEF MovingTop
<1>5. \A j \in 1 .. r : Top.refs[j] = (IF j <= c THEN M[j] ELSE ps[j]) /\ Top.refs[j] \in 1 .. Len(heap)
  BY <1>2, <1>t DEF MovingTop
<1>p. PairKey = Top.refs[c + 1]
  BY DEF PairKey
<1> HIDE DEF d, o, r, ps, k, e, M, c
<1>6. /\ k <= r /\ \A j \in 1 .. r : j \in 1 .. Len(ps)
  <2> DEFINE l == Len(ps)
  <2>1. k \in 1 .. r /\ r \in Nat /\ l \in Nat /\ r <= l
    BY <1>1, <1>4
  <2> HIDE DEF l
  <2>2. k <= r /\ \A j \in 1 .. r : j \in 1 .. l
    BY <2>1
  <2> QED
    BY <2>2 DEF l
<1>7. \A j \in 1 .. r : M[j] = MeantBody(d, o, M, j)
  <2>2. d \in Answers /\ o \in 1 .. Len(d)
    BY <1>4
  <2>3. \A j \in 1 .. Len(d[o].parts) : M[j] = MeantBody(d, o, M, j)
    BY <2>2, MeantUnfolds DEF M
  <2> QED
    BY <1>3, <1>6, <2>3
<1>8. ~(k <= c) /\ ~(c + 1 <= c) /\ (c + 1) % 2 # 0 /\ \A v \in Int : 2 * (v + 1) < k => 2 * (v + 1) <= c
  <2>1. c \in Nat /\ (c + 2) % 2 = 0
    BY <1>1, <1>3, <1>4
  <2>2. /\ (c + 1) % 2 # 0
        /\ \A v \in Int : 2 * (v + 1) < c + 2 => 2 * (v + 1) <= c
    BY <2>1, Parities
  <2>3. ~(c + 2 <= c) /\ ~(c + 1 <= c)
    BY <2>1
  <2> QED
    BY <1>3, <2>2, <2>3
<1>9. PairKey = M[c + 1]
  <2>1. PairKey = ps[c + 1]
    BY <1>1, <1>5, <1>8, <1>p
  <2>2. ~IsReplaced(d, o, c + 1)
    BY <1>8, <1>t DEF IsReplaced
  <2>3. M[c + 1] = MeantBody(d, o, M, c + 1)
    BY <1>1, <1>7
  <2> QED
    BY <1>3, <2>1, <2>2, <2>3 DEF MeantBody
<1>10. e = ps[k] /\ e \in 1 .. Len(heap) /\ M[k] = MeantBody(d, o, M, k)
  BY <1>1, <1>3, <1>5, <1>7, <1>8
<1>11. heap[e].type = d[e].type
  BY <1>3, <1>10, TypeIs
<1>12. SoundPair /\ (IF NamesPair THEN Top.refs[MapTarget] ELSE e) = M[k]
  <2>1. CASE ~IsRef(e)
    <3>1. ~NamesPair
      BY <1>3, <2>1 DEF NamesPair
    <3>2. ~IsReplaced(d, o, k)
      BY <1>3, <1>10, <1>11, <2>1 DEF IsReplaced, IsRef
    <3>3. M[k] = e
      BY <1>3, <1>10, <3>2 DEF MeantBody
    <3> QED
      BY <3>1, <3>3 DEF SoundPair
  <2>2. CASE IsRef(e)
    <3> DEFINE v == d[e].value
               t == 2 * (v + 1)
    <3>1. d[e].type = "ref" /\ heap[e].value = v /\ v \in Int /\ \A p : ~Out(Came, p)
      BY <1>3, <1>10, <2>2, ReferenceIs DEF IsRef
    <3>2. r = Len(ps)
      BY <1>4, <3>1
    <3>3. Names(d, o, k) = t /\ MapTarget = t
      <4>1. Names(d, o, k) = t
        BY <1>3, <1>10, <1>t DEF Names
      <4>2. MapTarget = t
        BY <1>3, <3>1 DEF MapTarget
      <4> QED
        BY <4>1, <4>2
    <3>t. t \in Int
      BY <3>1
    <3>4. NamesPair <=> t \in 1 .. r
      <4>1. NamesPair <=> v \in 0 .. r \div 2 - 1
        BY <1>3, <2>2, <3>1 DEF NamesPair
      <4>2. r \in Nat /\ r % 2 = 0 /\ v \in Int
        BY <1>1, <1>4, <3>1
      <4> HIDE DEF v
      <4> QED
        BY <4>1, <4>2, NamesInside
    <3>5. IsReplaced(d, o, k) <=> t \in 1 .. r
      BY <1>1, <1>3, <1>4, <1>10, <1>t, <3>1, <3>2, <3>3 DEF IsReplaced
    <3>6. t < k => t <= c
      BY <1>8, <3>1
    <3> HIDE DEF t, v
    <3>7. CASE t \in 1 .. r
      <4>1. IsReplaced(d, o, k) /\ NamesPair
        BY <3>4, <3>5, <3>7
      <4>2. M[k] = IF t < k THEN M[t] ELSE ps[t]
        BY <1>3, <1>10, <1>t, <3>3, <4>1 DEF MeantBody
      <4>3. t < k <=> t <= c
        BY <1>3, <1>4, <3>6, <3>t
      <4>4. Top.refs[t] = M[k] /\ Top.refs[t] \in 1 .. Len(heap)
        BY <1>5, <3>7, <4>2, <4>3
      <4>5. t <= c \/ ~IsRef(Top.refs[t])
        <5> SUFFICES ASSUME ~(t <= c) PROVE ~IsRef(Top.refs[t])
          OBVIOUS
        <5>1. Top.refs[t] = ps[t] /\ ps[t] \in 1 .. Len(heap)
          BY <1>5, <3>7
        <5>2. d[ps[t]].type # "ref"
          <6>1. RefsAreSound(d)
            BY <1>3 DEF Reading, Fair
          <6>2. o \in DOMAIN d
            BY <1>4
          <6>3. k \in DOMAIN ps
            BY <1>1, <1>4, <1>6
          <6>4. d[ps[t]].type = "ref" => d[o].type = "map" /\ t < k
            BY <1>3, <3>3, <4>1, <6>1, <6>2, <6>3 DEF RefsAreSound
          <6> QED
            BY <4>3, <6>4
        <5>3. heap[ps[t]].type = d[ps[t]].type
          BY <1>3, <5>1, TypeIs
        <5> QED
          BY <5>1, <5>2, <5>3 DEF IsRef
      <4>6. SoundPair
        BY <1>3, <3>3, <4>5 DEF SoundPair
      <4> QED
        BY <3>3, <4>1, <4>4, <4>6
    <3>8. CASE t \notin 1 .. r
      <4>1. ~IsReplaced(d, o, k) /\ ~NamesPair
        BY <3>4, <3>5, <3>8
      <4>2. M[k] = e
        BY <1>3, <1>10, <4>1 DEF MeantBody
      <4> QED
        BY <4>1, <4>2 DEF SoundPair
    <3> QED
      BY <3>7, <3>8
  <2> QED
    BY <2>1, <2>2
<1> QED
  BY <1>1, <1>3, <1>4, <1>6, <1>9, <1>10, <1>12, <1>t DEF M

LEMMA MovePairReads ==
  ASSUME DInv, RInv, misuse = "none", MovePair
  PROVE  RInv'
<1> DEFINE v == IF NamesPair THEN Top.refs[MapTarget] ELSE PairValue
           os == <<PairKey, v>>
           o == Top.obj
           r == Len(Top.refs)
           ps == message[o].parts
           c == Top.done
           k == Top.done + 2
           g == Paired(Top, k, v)
           M == MeantParts(message, o)
<1>1. /\ MovesMore("map") /\ mode = "reading" /\ mode # "idle" /\ frames # <<>> /\ pos' = pos
      /\ UNCHANGED <<wire, mode, misuse, short>> /\ UNCHANGED wire /\ short' = short
      /\ loose' = (loose \/ ~SoundPair)
      /\ frames' = [frames EXCEPT ![Len(frames)].done = @ + 2, ![Len(frames)].refs[k] = v]
      /\ heap' = Moved(heap, os) \/ heap' = Moved(Released(PairValue), os)
  BY DEF MovePair, MovesMore, Moves, MeetsReference
<1> SUFFICES ASSUME Fair, Fair' PROVE SoFar'
  BY <1>1, StepReads
<1>2. Reading
  BY <1>1, ReadingSo
<1>3. /\ SoundPair /\ PairKey = M[c + 1] /\ v = M[k] /\ k <= r /\ k \in 1 .. r /\ c \in Nat
      /\ Top.step = "moving" /\ message[o].type = "map" /\ PairValue \in 1 .. Len(heap)
  BY <1>1, <1>2, PairMeant
<1>4. ~loose'
  BY <1>1, <1>3, NotLoose
<1>5. Gained(heap', os)
  <2>1. IsHeap(heap) /\ o \in 1 .. Len(heap)
    BY <1>1, <1>2, ReadingTop DEF Reading
  <2> HIDE DEF os
  <2> QED
    BY <1>1, <1>3, <2>1, PartsAdded
<1>6. MovingTop(message, o, r, ps)
  BY <1>1, <1>2, <1>3, MovingTopIs
<1>7. /\ IsFrameRecord(g) /\ g.step = "moving" /\ g.obj = o /\ g.done = k /\ g.refs = Replaced(Top.refs, k, v)
  <2>1. IsFrameRecord(Top)
    BY <1>1, <1>2, ReadingTop DEF IsFrame
  <2> HIDE DEF v
  <2> QED
    BY <1>3, <2>1, PairChange
<1>8. frames' = [frames EXCEPT ![Len(frames)] = g]
  <2>1. Len(frames) \in 1 .. Len(frames)
    BY <1>1, <1>2, ReadingTop
  <2> QED
    BY <1>1, <2>1 DEF Paired, Top
<1> HIDE DEF g, v
<1>9. Len(g.refs) = r /\ g.refs[k] = v /\ \A j \in 1 .. r : j # k => g.refs[j] = Top.refs[j]
  <2>1. PICK D : Top.refs \in Seq(D)
    BY <1>1, <1>2, ReadingTop DEF IsFrame
  <2> DEFINE A == D \cup {v}
             s == Top.refs
  <2>2. s \in Seq(A) /\ v \in A /\ k \in 1 .. Len(s)
    BY <1>3, <2>1
  <2> HIDE DEF A, s, k
  <2>3. HasInstead(Replaced(s, k, v), s, k, v)
    BY <2>2, ElementReplaced
  <2> QED
    BY <1>7, <2>3 DEF HasInstead, s
<1>10. FrameRead(Came, g, heap', pos)
  <2> DEFINE A == {M[j] : j \in 1 .. Len(ps)}
  <2>1. /\ o \in 1 .. Len(message) /\ r \in Nat /\ Len(ps) \in Nat /\ r <= Len(ps) /\ message \in Answers
        /\ r = Len(ps) \/ Out(Came, pos)
        /\ c \in Nat /\ c <= r /\ PartsAre(Came, heap, o, c)
        /\ \A j \in 1 .. r : Top.refs[j] = IF j <= c THEN M[j] ELSE ps[j]
    BY <1>3, <1>6 DEF MovingTop
  <2>2. M \in Seq(A) /\ Len(M) = Len(ps)
    BY <2>1, MeantUnfolds
  <2>3. SubSeq(M, 1, c) \o <<M[c + 1], M[c + 2]>> = SubSeq(M, 1, c + 2)
    <3>a. k = c + 2 /\ k <= r
      BY <1>3
    <3>b. r <= Len(ps) /\ r \in Nat /\ Len(ps) \in Nat
      BY <2>1
    <3>c. c \in Nat /\ Len(M) = Len(ps)
      BY <2>1, <2>2
    <3> HIDE DEF M, A, c, ps, r, k
    <3>1. c + 2 <= Len(M)
      BY <3>a, <3>b, <3>c
    <3>2. c \in Nat
      BY <3>c
    <3> QED
      BY <2>2, <3>1, <3>2, PartsGrowTwice
  <2>4. PartsAre(Came, heap', o, k)
    <3>1. heap[o].parts = SubSeq(M, 1, c)
      BY <2>1, CameIs DEF PartsAre
    <3>2. heap'[o].parts = heap[o].parts \o os
      BY <1>5 DEF Gained
    <3>3. heap'[o].parts = SubSeq(M, 1, k)
      BY <1>3, <2>3, <3>1, <3>2
    <3>4. k \in 0 .. Len(ps)
      BY <1>3, <2>1
    <3> QED
      BY <3>3, <3>4, CameIs DEF PartsAre
  <2>5. \A j \in 1 .. r : g.refs[j] = IF j <= k THEN M[j] ELSE ps[j]
    <3>0. Top.refs[c + 1] = M[c + 1]
      BY <1>3 DEF PairKey
    <3>c. k = c + 2 /\ c \in Nat /\ r \in Nat
      BY <2>1
    <3> HIDE DEF c, k, r, M, ps
    <3> TAKE j \in 1 .. r
    <3>1. CASE j = k
      BY <1>3, <1>9, <3>1, <3>c
    <3>2. CASE j # k
      <4>1. g.refs[j] = Top.refs[j]
        BY <1>9, <3>2
      <4>2. CASE j <= c
        BY <2>1, <3>c, <4>1, <4>2
      <4>3. CASE j > k
        BY <2>1, <3>c, <4>1, <4>3
      <4>4. CASE j = c + 1
        BY <3>0, <3>c, <4>1, <4>4
      <4> QED
        BY <3>c, <3>2, <4>2, <4>3, <4>4
    <3> QED
      BY <3>1, <3>2
  <2>6. g.obj = o /\ Len(g.refs) = r /\ g.step = "moving" /\ g.done = k /\ k <= r
    BY <1>3, <1>7, <1>9
  <2>7. message[o].type \notin Texts /\ message[o].type = "map"
    BY <1>3 DEF Texts
  <2> HIDE DEF r, ps, c, k, o, M, A
  <2>8. Came.doc[o].parts = ps
    BY CameIs DEF ps
  <2> QED
    BY <2>1, <2>4, <2>5, <2>6, <2>7, <2>8, CameIs DEF FrameRead, M
<1>11. g.obj = Top.obj /\ g.step = "moving" /\ Len(g.refs) = Len(Top.refs)
  BY <1>7, <1>9
<1> HIDE DEF os
<1> QED
  BY <1>1, <1>2, <1>3, <1>4, <1>5, <1>8, <1>10, <1>11, MovedReads

-----------------------------------------------------------------------------
(* What fails.                                                             *)

LEMMA ElementFailsReads ==
  ASSUME DInv, RInv, misuse = "none", DanglingElement \/ ElementRefused
  PROVE  RInv'
<1>1. /\ MovesMore("list") /\ mode = "reading" /\ mode # "idle" /\ mode' = "failing"
      /\ UNCHANGED wire /\ (short => short')
      /\ loose' = (loose \/ ~SoundElement)
      /\ short' \/ ~NamesElement
  <2>1. CASE DanglingElement
    <3>1. /\ MovesMore("list") /\ Fails /\ MeetsReference(SoundElement) /\ UNCHANGED wire /\ short' = short
          /\ ~NamesElement
      BY <2>1 DEF DanglingElement, NamesElement
    <3> QED
      BY <3>1 DEF MovesMore, Moves, MeetsReference, Fails
  <2>2. CASE ElementRefused
    <3>1. MovesMore("list") /\ NoMemory /\ MeetsReference(SoundElement) /\ UNCHANGED wire
      BY <2>2 DEF ElementRefused
    <3> QED
      BY <3>1 DEF MovesMore, Moves, MeetsReference, NoMemory, Fails
  <2> QED
    BY <2>1, <2>2
<1> SUFFICES ASSUME Fair, Fair' PROVE SoFar'
  BY <1>1, StepReads
<1>2. SoundElement /\ NamesElement
  BY <1>1, ReadingSo, ElementMeant
<1>3. ~loose'
  BY <1>1, <1>2, NotLoose
<1>4. short'
  BY <1>1, <1>2
<1> QED
  BY <1>1, <1>3, <1>4, FailsSo

LEMMA PairFailsReads ==
  ASSUME DInv, RInv, misuse = "none", PairRefused
  PROVE  RInv'
<1>1. /\ MovesMore("map") /\ mode = "reading" /\ mode # "idle" /\ mode' = "failing"
      /\ UNCHANGED wire /\ short'
      /\ loose' = (loose \/ ~SoundPair)
  BY DEF PairRefused, MovesMore, Moves, MeetsReference
<1> SUFFICES ASSUME Fair, Fair' PROVE SoFar'
  BY <1>1, StepReads
<1>2. SoundPair
  BY <1>1, ReadingSo, PairMeant
<1>3. ~loose'
  BY <1>1, <1>2, NotLoose
<1> QED
  BY <1>1, <1>3, FailsSo

LEMMA UnwindReads ==
  ASSUME DInv, RInv, misuse = "none", Unwind \/ ReturnNull
  PROVE  RInv'
<1>1. /\ mode = "failing" /\ mode # "idle" /\ mode' \in {"failing", "failed"} /\ UNCHANGED wire /\ short' = short
      /\ loose' = loose
  BY DEF Unwind, ReturnNull
<1> SUFFICES ASSUME Fair, Fair' PROVE SoFar'
  BY <1>1, StepReads
<1>2. ~loose'
  BY <1>1, NotLoose
<1>3. SoFar
  BY <1>1 DEF RInv
<1>4. short \/ cut
  BY <1>1, <1>3 DEF SoFar
<1>5. short' \/ cut
  BY <1>1, <1>4
<1>6. mode' \notin {"reading", "done"}
  BY <1>1
<1> QED
  BY <1>1, <1>2, <1>5, <1>6, FailsSo

LEMMA DeleteReads ==
  ASSUME DInv, RInv, misuse = "none", DeleteResult
  PROVE  RInv'
<1>1. /\ mode = "done" /\ mode # "idle" /\ mode' = "deleted" /\ UNCHANGED wire /\ short' = short
      /\ loose' = loose
      /\ misuse' # "null text"
  BY DEF DeleteResult, Frees
<1> SUFFICES ASSUME Fair, Fair' PROVE SoFar'
  BY <1>1, StepReads
<1>2. ~loose'
  BY <1>1, NotLoose
<1>6. mode' \notin {"reading", "done"} /\ mode' \notin {"failing", "failed", "hung"}
  BY <1>1
<1> QED
  BY <1>1, <1>2, <1>6, FailsSo

\* where memory was short, nothing is said of what was read
LEMMA ShortfallReads ==
  ASSUME RInv, mode # "idle", UNCHANGED wire, short'
  PROVE  RInv'
<1>1. ~Fair'
  BY DEF Fair
<1> QED
  BY <1>1, StepReads

LEMMA SpoiltReads ==
  ASSUME RInv, OpenSpoilt \/ NameFaults \/ GrowthFails
  PROVE  RInv'
<1>1. CASE OpenSpoilt
  <2>1. mode # "idle" /\ UNCHANGED wire /\ short'
    BY <1>1 DEF OpenSpoilt, OpensContainer, Reads, ReadsTag
  <2> QED
    BY <2>1, ShortfallReads
<1>2. CASE NameFaults
  <2>1. mode # "idle" /\ UNCHANGED wire /\ short'
    BY <1>2 DEF NameFaults, Reads, ReadsTag
  <2> QED
    BY <2>1, ShortfallReads
<1>3. CASE GrowthFails
  <2>1. mode # "idle" /\ UNCHANGED wire /\ short'
    BY <1>3 DEF GrowthFails, ReadsChunk
  <2> QED
    BY <2>1, ShortfallReads
<1> QED
  BY <1>1, <1>2, <1>3

LEMMA StepReadsAll ==
  ASSUME DInv, RInv, DStep
  PROVE  RInv'
<1>1. misuse = "none"
  BY DEF DStep
<1>2. CASE RefuseTag \/ ReadNull \/ ReadBoolean \/ ReadInteger \/ ReadLong \/ ReadDouble
           \/ ReadRemote \/ OpenContainer \/ OpenText
  BY <1>1, <1>2, RefuseReads, ShortReads, IntegerReads, WideReads, RemoteReads, ContainerReads, TextOpens
<1>3. CASE ChunkFails \/ ChunkHangs \/ ReadChunk \/ TextFails \/ EndOfText \/ CloseContainer
  BY <1>1, <1>3, ChunkFailsReads, ReadChunkReads, TextFailsReads, EndOfTextReads, CloseReads
<1>4. CASE MoveElement \/ DanglingElement \/ ElementRefused \/ MovePair \/ PairRefused
           \/ EndOfContainer \/ Unwind \/ ReturnNull \/ DeleteResult
  BY <1>1, <1>4, MoveElementReads, ElementFailsReads, MovePairReads, PairFailsReads,
     EndOfContainerReads, UnwindReads, DeleteReads
<1>5. CASE OpenSpoilt \/ NameFaults \/ GrowthFails
  BY <1>5, SpoiltReads
<1> QED
  BY <1>2, <1>3, <1>4, <1>5 DEF DStep

\* all of the message lies at the first byte, or what came of it
LEMMA MessageLies ==
  ASSUME NEW d \in Answers, NEW n \in 0 .. Len(Serialized(d)),
         NEW m, m.bytes = SubSeq(Serialized(d), 1, n), m.cut = (n < Len(Serialized(d))), m.doc = d
  PROVE  SubSeq(Serialized(d), 1, n) \in Seq(Byte) /\ Lies(m, Serialized(m.doc), 1)
<1> DEFINE w == Serialized(d)
<1>1. w \in Seq(Byte) /\ Len(w) \in Nat
  <2>1. 1 \in 1 .. Len(d)
    BY DocumentIs
  <2> QED
    BY <2>1, WrittenTyped DEF Serialized
<1>2. n \in 0 .. Len(w) /\ m.bytes = SubSeq(w, 1, n) /\ m.cut = (n < Len(w)) /\ m.doc = d
  OBVIOUS
<1>s. Serialized(d) = w
  OBVIOUS
<1> HIDE DEF w
<1>3. n \in Nat /\ n <= Len(w) /\ 1 <= n + 1
  BY <1>1, <1>2
<1>4. /\ SubSeq(w, 1, n) \in Seq(Byte) /\ Len(SubSeq(w, 1, n)) = n - 1 + 1
      /\ \A k \in 1 .. n - 1 + 1 : SubSeq(w, 1, n)[k] = w[1 + k - 1]
  BY <1>1, <1>3, SubSeqIs
<1>5. Len(m.bytes) = n
  BY <1>2, <1>3, <1>4
<1>6. ASSUME NEW i \in 1 .. Len(w)
      PROVE  IF 1 + i - 1 <= Len(m.bytes) THEN m.bytes[1 + i - 1] = w[i] ELSE m.cut
  <2>1. 1 + i - 1 = i /\ i \in Nat /\ n - 1 + 1 = n
    BY <1>1, <1>3
  <2>2. CASE i <= n
    <3>1. i \in 1 .. n
      BY <2>1, <2>2, <1>3
    <3>2. m.bytes[i] = w[i]
      BY <1>2, <1>4, <2>1, <3>1
    <3> QED
      BY <1>5, <2>1, <2>2, <3>2
  <2>3. CASE ~(i <= n)
    <3>1. n < Len(w)
      BY <1>1, <1>3, <2>1, <2>3
    <3> QED
      BY <1>2, <1>5, <2>1, <2>3, <3>1
  <2> QED
    BY <2>2, <2>3
<1> QED
  BY <1>2, <1>4, <1>6, <1>s DEF Lies

\* misuse stops the program
MisuseIs ==
  /\ misuse \in {"none", "freed twice", "null text"}
  /\ mode = "idle" => misuse = "none"

LEMMA AnswerReads ==
  ASSUME MisuseIs, AnswerComes
  PROVE  RInv'
<1>0. PICK d \in Answers : \E n \in 0 .. Len(Serialized(d)) : Receive(d, n)
  BY DEF AnswerComes
<1>1. PICK n \in 0 .. Len(Serialized(d)) : Receive(d, n)
  BY <1>0
<1>2. /\ mode' = "reading" /\ pos' = 1 /\ frames' = <<>> /\ heap' = <<>>
      /\ short' = FALSE /\ loose' = FALSE /\ misuse' = "none"
      /\ message' = d /\ cut' = (n < Len(Serialized(d))) /\ input' = SubSeq(Serialized(d), 1, n)
  BY <1>1 DEF Receive, Arrives, MisuseIs
<1>3. Came'.doc = d /\ Came'.bytes = input' /\ Came'.cut = cut'
  BY <1>2 DEF Came
<1> DEFINE m == Came'
<1>4. m.doc = d /\ m.bytes = SubSeq(Serialized(d), 1, n) /\ m.cut = (n < Len(Serialized(d))) /\ m.bytes = input'
  BY <1>2, <1>3
<1>m. m = Came'
  OBVIOUS
<1> HIDE DEF m
<1>5. input' \in Seq(Byte) /\ Lies(m, Serialized(m.doc), 1)
  BY <1>2, <1>4, MessageLies
<1>6. Len(heap') = 0 /\ Len(frames') = 0 /\ 1 .. 0 = {}
  BY <1>2
<1>7. 1 \in 1 .. Len(input') + 1
  BY <1>5
<1>8. Len(d) \in Nat
  BY DocumentIs
<1>9. AllRead(m, <<>>, <<>>, 1)
  <2>1. Len(<<>>) = 0 /\ 0 <= Len(d) /\ 1 .. 0 = {}
    BY <1>8
  <2>2. StackRead(m, <<>>, <<>>, 1)
    BY <2>1 DEF StackRead
  <2> QED
    BY <1>4, <2>1, <2>2 DEF AllRead, PlaceRead
<1>10. NothingYet(m, <<>>, 1)
  BY <1>5 DEF NothingYet
<1>11. MessageRead(m, frames', heap', pos', mode', result')
  BY <1>2, <1>9, <1>10 DEF MessageRead
<1>12. SoFar'
  BY <1>2, <1>7, <1>11, <1>m DEF SoFar
<1> QED
  BY <1>2, <1>5, <1>12 DEF RInv, Byte

LEMMA StillReads ==
  ASSUME RInv, UNCHANGED dvars
  PROVE  RInv'
<1>1. /\ mode' = mode /\ message' = message /\ cut' = cut /\ input' = input /\ pos' = pos /\ frames' = frames
      /\ heap' = heap /\ result' = result /\ misuse' = misuse /\ short' = short /\ loose' = loose
  BY DEF dvars
<1>2. UNCHANGED wire /\ (short => short')
  BY <1>1 DEF wire
<1>3. Came' = Came
  BY <1>2, SameMessage
<1>4. Fair' => Fair
  BY <1>2, FairBefore
<1>5. SoFar => SoFar'
  <2> SUFFICES ASSUME SoFar PROVE SoFar'
    OBVIOUS
  <2>1. ~loose'
    BY <1>1 DEF SoFar
  <2>2. ~short' /\ ~cut' => mode' \notin {"failing", "failed", "hung"} /\ misuse' # "null text"
    <3>1. ~short /\ ~cut => mode \notin {"failing", "failed", "hung"} /\ misuse # "null text"
      BY DEF SoFar
    <3> QED
      BY <1>1, <3>1
  <2>3. misuse' = "none" /\ mode' \in {"reading", "done"} =>
          pos' \in 1 .. Len(input') + 1 /\ MessageRead(Came', frames', heap', pos', mode', result')
    BY <1>1, <1>3 DEF SoFar
  <2> QED
    BY <2>1, <2>2, <2>3 DEF SoFar
<1>6. mode' = "idle" \/ (message \in Answers /\ input \in Seq(Byte) /\ (Fair => SoFar))
  BY <1>1 DEF RInv
<1> QED
  BY <1>1, <1>4, <1>5, <1>6 DEF RInv, Byte

LEMMA MisuseStays ==
  ASSUME MisuseIs, [DNext]_dvars
  PROVE  MisuseIs'
<1>1. CASE Arrives
  BY <1>1 DEF Arrives, MisuseIs
<1>2. CASE Forget
  BY <1>2 DEF Forget, MisuseIs
<1>3. CASE UNCHANGED dvars
  BY <1>3 DEF dvars, MisuseIs
<1>4. CASE DStep
  <2>1. mode' # "idle" /\ misuse = "none"
    BY <1>4, StepStays DEF DStep
  <2>2. misuse' = misuse \/ UsesNull \/ Deletes
    BY <1>4, WhoMisuses
  <2>3. CASE UsesNull
    BY <2>1, <2>3 DEF UsesNull, ChunkFails, NameFaults, GrowthFails, MisuseIs
  <2>4. CASE Deletes
    BY <2>1, <2>4 DEF Deletes, DanglingElement, ElementRefused, Unwind, DeleteResult, Frees, MisuseIs
  <2> QED
    BY <2>1, <2>2, <2>3, <2>4 DEF MisuseIs
<1> QED
  BY <1>1, <1>2, <1>3, <1>4 DEF DNext

LEMMA ReadingIsDecoding == RSpec => DSpec
<1>1. RNext => DNext
  BY DEF RNext, AnswerComes, Receive, DNext
<1> QED
  BY <1>1, PTL DEF RSpec, DSpec

LEMMA MisuseHolds == DSpec => []MisuseIs
<1>1. DInit => MisuseIs
  BY DEF DInit, MisuseIs
<1> QED
  BY <1>1, MisuseStays, PTL DEF DSpec

LEMMA RInvHolds == RSpec => []RInv
<1>1. DInit => RInv
  BY DEF DInit, RInv
<1>2. ASSUME DInv, MisuseIs, RInv, [RNext]_dvars PROVE RInv'
  <2>1. CASE AnswerComes
    BY <1>2, <2>1, AnswerReads
  <2>2. CASE DStep
    BY <1>2, <2>2, StepReadsAll
  <2>3. CASE Forget
    <3>1. mode' = "idle"
      BY <2>3 DEF Forget
    <3> QED
      BY <3>1 DEF RInv
  <2>4. CASE UNCHANGED dvars
    BY <1>2, <2>4, StillReads
  <2> QED
    BY <1>2, <2>1, <2>2, <2>3, <2>4 DEF RNext
<1> QED
  BY <1>1, <1>2, ReadingIsDecoding, DInvHolds, MisuseHolds, PTL DEF RSpec

-----------------------------------------------------------------------------
(* What is known when everything was read.                                 *)

LEMMA FieldsAre ==
  \A t, v, x, c, ps : LET y == Node(t, v, x, c, ps)
                      IN  y.type = t /\ y.value = v /\ y.text = x /\ y.class = c /\ y.parts = ps
BY DEF Node

LEMMA ReadBackIs ==
  ASSUME IsHeap(heap)
  PROVE  /\ DOMAIN ReadBack = 1 .. Len(heap) /\ Len(ReadBack) = Len(heap) /\ Len(heap) \in Nat
         /\ \A o \in 1 .. Len(heap) :
              /\ ReadBack[o] = Node(heap[o].type, heap[o].value, heap[o].text, heap[o].class, heap[o].parts)
              /\ ReadBack[o].type = heap[o].type /\ ReadBack[o].value = heap[o].value
              /\ ReadBack[o].text = heap[o].text /\ ReadBack[o].class = heap[o].class
              /\ ReadBack[o].parts = heap[o].parts
<1>1. DOMAIN heap = 1 .. Len(heap) /\ Len(heap) \in Nat
  BY HeapIs
<1> DEFINE B(o) == Node(heap[o].type, heap[o].value, heap[o].text, heap[o].class, heap[o].parts)
<1>2. ReadBack = [o \in 1 .. Len(heap) |-> B(o)]
  BY <1>1 DEF ReadBack
<1>3. \A o \in 1 .. Len(heap) :
        B(o).type = heap[o].type /\ B(o).value = heap[o].value /\ B(o).text = heap[o].text
          /\ B(o).class = heap[o].class /\ B(o).parts = heap[o].parts
  BY FieldsAre
<1>s. \A o : B(o) = Node(heap[o].type, heap[o].value, heap[o].text, heap[o].class, heap[o].parts)
  OBVIOUS
<1> HIDE DEF B
<1> DEFINE n == Len(heap)
<1>4. \A o \in 1 .. n : ReadBack[o] = B(o)
  BY <1>2
<1>5. DOMAIN ReadBack = 1 .. n
  BY <1>2
<1>n. n \in Nat /\ Len(heap) = n
  BY <1>1
<1> HIDE DEF n
<1>6. Len(ReadBack) = n
  <2>1. ReadBack = [o \in 1 .. n |-> B(o)]
    BY <1>2 DEF n
  <2> DEFINE A == {B(o) : o \in 1 .. n}
             g == [o \in 1 .. n |-> B(o)]
  <2>2. g \in [1 .. n -> A]
    OBVIOUS
  <2>3. ReadBack = g
    BY <2>1
  <2> HIDE DEF g, A
  <2> QED
    BY <1>n, <2>2, <2>3, SequenceOf
<1> QED
  BY <1>3, <1>4, <1>5, <1>6, <1>n, <1>s

DoneSo ==
  /\ message \in Answers /\ IsHeap(heap) /\ Len(heap) \in Nat /\ Len(message) \in Nat
  /\ Len(heap) <= Len(message)
  /\ \A x \in 1 .. Len(heap) :
       heap[x].type = message[x].type /\ NodeSays(Came, heap, pos, x) /\ HasParts(Came, heap, pos, x)
  /\ Finished(Came, heap, pos, result)

LEMMA DoneIs ==
  ASSUME DInv, RInv, Decoded, Fair
  PROVE  DoneSo
<1>1. mode = "done" /\ misuse = "none" /\ Sound
  BY DEF Decoded, DInv
<1>2. frames = <<>> /\ IsHeap(heap)
  BY <1>1 DEF Sound
<1>3. message \in Answers /\ SoFar
  BY <1>1 DEF RInv
<1>4. MessageRead(Came, frames, heap, pos, mode, result)
  BY <1>1, <1>3 DEF SoFar
<1>5. Len(frames) = 0 /\ 1 .. 0 = {}
  BY <1>2
<1>6. /\ Len(heap) <= Len(message) /\ \A x \in 1 .. Len(heap) : NodeRead(Came, frames, heap, pos, x)
      /\ Finished(Came, heap, pos, result)
  BY <1>1, <1>4, CameIs DEF MessageRead, AllRead
<1>7. \A x : ~IsOpen(frames, x) /\ ~InChunks(frames, x)
  BY <1>5 DEF IsOpen, InChunks
<1>8. \A x \in 1 .. Len(heap) :
        heap[x].type = message[x].type /\ NodeSays(Came, heap, pos, x) /\ HasParts(Came, heap, pos, x)
  BY <1>6, <1>7, CameIs DEF NodeRead
<1>9. Len(heap) \in Nat /\ Len(message) \in Nat
  BY <1>2, <1>3, HeapIs, DocumentIs
<1> QED
  BY <1>2, <1>3, <1>6, <1>8, <1>9 DEF DoneSo

\* the parts that node x has
LEMMA PartsSoFar ==
  ASSUME NEW h, NEW m, m.doc \in Answers, NEW p, NEW x \in 1 .. Len(m.doc), HasParts(m, h, p, x)
  PROVE  \E c \in 0 .. Len(m.doc[x].parts) :
           /\ h[x].parts = SubSeq(MeantParts(m.doc, x), 1, c)
           /\ c = Len(m.doc[x].parts) \/ (Out(m, p) /\ NextNode(m.doc, x, c) > Len(h))
BY DEF HasParts, PartsAre

LEMMA WholeIs ==
  ASSUME NEW A, NEW s \in Seq(A)
  PROVE  SubSeq(s, 1, Len(s)) = s
OBVIOUS

\* a message that is all there
LEMMA WholeReadBack ==
  ASSUME DoneSo, ~cut
  PROVE  result = 1 /\ ReadBack = Meant(message)
<1> DEFINE d == message
           n == Len(message)
<1>1. /\ d \in Answers /\ n \in Nat /\ IsHeap(heap) /\ Len(heap) \in Nat
      /\ \A x \in 1 .. Len(heap) :
           heap[x].type = d[x].type /\ NodeSays(Came, heap, pos, x) /\ HasParts(Came, heap, pos, x)
      /\ Finished(Came, heap, pos, result)
  BY DEF DoneSo
<1>2. \A p : ~Out(Came, p)
  BY CameIs DEF Out
<1>3. result = 1 /\ Len(heap) = n
  BY <1>1, <1>2, CameIs DEF Finished
<1>4. DOMAIN d = 1 .. n /\ \A o \in 1 .. n : IsNode(d[o], o + 1 .. n)
  BY <1>1, DocumentIs
<1>5. ASSUME NEW o \in 1 .. n PROVE ReadBack[o] = [d[o] EXCEPT !.parts = MeantParts(d, o)]
  <2>1. heap[o].type = d[o].type /\ SaysSame(heap[o], d[o])
    BY <1>1, <1>2, <1>3, CameIs DEF NodeSays
  <2>2. heap[o].parts = MeantParts(d, o)
    <3>1. PICK c \in 0 .. Len(d[o].parts) :
            /\ heap[o].parts = SubSeq(MeantParts(d, o), 1, c)
            /\ c = Len(d[o].parts) \/ (Out(Came, pos) /\ NextNode(d, o, c) > Len(heap))
      <4>1. Came.doc = d /\ Came.doc \in Answers /\ o \in 1 .. Len(Came.doc) /\ HasParts(Came, heap, pos, o)
        BY <1>1, <1>3, CameIs
      <4> QED
        BY <4>1, PartsSoFar
    <3>2. c = Len(d[o].parts)
      BY <1>2, <3>1
    <3>3. Len(MeantParts(d, o)) = Len(d[o].parts)
          /\ MeantParts(d, o) \in Seq({MeantParts(d, o)[k] : k \in 1 .. Len(d[o].parts)})
      BY <1>1, MeantUnfolds
    <3> DEFINE M == MeantParts(d, o)
    <3>4. heap[o].parts = SubSeq(M, 1, Len(M))
      BY <3>1, <3>2, <3>3
    <3>5. \E A : M \in Seq(A)
      BY <3>3
    <3> HIDE DEF M
    <3>6. SubSeq(M, 1, Len(M)) = M
      BY <3>5, WholeIs
    <3> QED
      BY <3>4, <3>6 DEF M
  <2>3. ReadBack[o] = Node(heap[o].type, heap[o].value, heap[o].text, heap[o].class, heap[o].parts)
    BY <1>1, <1>3, ReadBackIs
  <2>4. d[o] = Node(d[o].type, d[o].value, d[o].text, d[o].class, d[o].parts)
    BY <1>4, NodeIs
  <2>6. ReadBack[o] = Node(d[o].type, d[o].value, d[o].text, d[o].class, MeantParts(d, o))
    BY <2>1, <2>2, <2>3, Zenon DEF SaysSame
  <2>7. [d[o] EXCEPT !.parts = MeantParts(d, o)]
          = Node(d[o].type, d[o].value, d[o].text, d[o].class, MeantParts(d, o))
    <3> DEFINE y == d[o]
               q == MeantParts(d, o)
    <3>1. y = Node(y.type, y.value, y.text, y.class, y.parts)
      BY <2>4
    <3> HIDE DEF y, q
    <3>2. [y EXCEPT !.parts = q] = Node(y.type, y.value, y.text, y.class, q)
      BY <3>1 DEF Node
    <3> QED
      BY <3>2 DEF y, q
  <2> QED
    BY <2>6, <2>7, Zenon
<1>6. DOMAIN ReadBack = 1 .. n
  BY <1>1, <1>3, ReadBackIs
<1> DEFINE E(o) == [d[o] EXCEPT !.parts = MeantParts(d, o)]
<1>7. Meant(message) = [o \in 1 .. n |-> E(o)]
  BY <1>4 DEF Meant
<1>8. \A o \in 1 .. n : ReadBack[o] = E(o)
  BY <1>5
<1>9. ReadBack = [o \in 1 .. n |-> ReadBack[o]]
  <2> DEFINE B(o) == Node(heap[o].type, heap[o].value, heap[o].text, heap[o].class, heap[o].parts)
  <2>1. ReadBack = [o \in DOMAIN heap |-> B(o)]
    BY DEF ReadBack
  <2> HIDE DEF B
  <2> QED
    BY <1>6, <2>1
<1> HIDE DEF E
<1>10. ReadBack = Meant(message)
  BY <1>7, <1>8, <1>9
<1> QED
  BY <1>3, <1>10

(***************************************************************************)
(* As long as no allocation has failed, a message that is all there, with  *)
(* sound references and no character that is missed, is read as the        *)
(* document it was written from, whatever the documents are.               *)
(***************************************************************************)
THEOREM DecodingReadsWhatWasSent == RSpec => []DecodedIsSent
<1>1. ASSUME DInv, RInv, MisuseIs, MisuseNeedsCause PROVE DecodedIsSent
  <2> SUFFICES ASSUME mode # "idle", ~short, Readable(message), RefsAreSound(message)
               PROVE  /\ loose => cut /\ HasRefs(message)
                      /\ ~cut =>
                           /\ mode \notin {"failing", "failed", "hung"} /\ misuse = "none"
                           /\ Decoded => result = 1 /\ ReadBack = Meant(message)
    BY DEF DecodedIsSent
  <2>1. (cut => ~HasRefs(message)) => Fair
    BY DEF Fair
  <2>2. Fair => SoFar
    BY <1>1 DEF RInv
  <2>3. loose => cut /\ HasRefs(message)
    BY <2>1, <2>2 DEF SoFar
  <2>4. ASSUME ~cut
        PROVE  /\ mode \notin {"failing", "failed", "hung"} /\ misuse = "none"
               /\ Decoded => result = 1 /\ ReadBack = Meant(message)
    <3>1. Fair
      BY <2>1, <2>4
    <3>2. mode \notin {"failing", "failed", "hung"} /\ misuse # "null text" /\ ~loose
      BY <2>2, <2>4, <3>1 DEF SoFar
    <3>3. misuse # "freed twice"
      BY <1>1, <2>4, <3>2 DEF MisuseNeedsCause
    <3>4. misuse = "none"
      BY <1>1, <3>2, <3>3 DEF MisuseIs
    <3>5. Decoded => result = 1 /\ ReadBack = Meant(message)
      BY <1>1, <2>4, <3>1, DoneIs, WholeReadBack
    <3> QED
      BY <3>2, <3>4, <3>5
  <2> QED
    BY <2>3, <2>4
<1> QED
  BY <1>1, ReadingIsDecoding, DInvHolds, RInvHolds, MisuseHolds, MisuseHasCause, PTL

-----------------------------------------------------------------------------
(* A message that is cut and has no references.                            *)

LEMMA NoneReplaced ==
  ASSUME NEW d \in Answers, ~HasRefs(d), NEW o \in 1 .. Len(d)
  PROVE  /\ \A k \in 1 .. Len(d[o].parts) : ~IsReplaced(d, o, k)
         /\ MeantParts(d, o) = d[o].parts
<1> DEFINE ps == d[o].parts
           M == MeantParts(d, o)
<1>1. \A k \in 1 .. Len(d[o].parts) : ~IsReplaced(d, o, k)
  <2> SUFFICES ASSUME NEW k \in 1 .. Len(d[o].parts) PROVE ~IsReplaced(d, o, k)
    OBVIOUS
  <2>1. d[o].parts[k] \in 1 .. Len(d) /\ DOMAIN d = 1 .. Len(d)
    BY PartIs, DocumentIs
  <2>2. d[d[o].parts[k]].type # "ref"
    BY <2>1 DEF HasRefs
  <2> QED
    BY <2>2 DEF IsReplaced
<1>2. /\ Len(M) = Len(ps) /\ Len(ps) \in Nat
      /\ M \in Seq({M[k] : k \in 1 .. Len(ps)})
      /\ \A k \in 1 .. Len(ps) : M[k] = MeantBody(d, o, M, k)
  BY MeantUnfolds
<1>3. \A k \in 1 .. Len(ps) : M[k] = ps[k]
  BY <1>1, <1>2 DEF MeantBody
<1>4. ps \in Seq(o + 1 .. Len(d))
  BY DocumentIs
<1> HIDE DEF ps, M
<1>5. \A k \in 1 .. Len(M) : M[k] = ps[k]
  BY <1>2, <1>3
<1>6. \E A, B : M \in Seq(A) /\ ps \in Seq(B)
  BY <1>2, <1>4
<1>7. PICK A : M \in Seq(A)
  BY <1>6
<1>8. PICK B : ps \in Seq(B)
  BY <1>6
<1>9. M = ps
  BY <1>2, <1>5, <1>7, <1>8
<1> QED
  BY <1>1, <1>9 DEF M, ps

LEMMA NothingMeant ==
  ASSUME NEW d \in Answers, ~HasRefs(d)
  PROVE  RefsAreSound(d)
<1>1. DOMAIN d = 1 .. Len(d)
  BY DocumentIs
<1>2. \A o \in 1 .. Len(d) : DOMAIN d[o].parts = 1 .. Len(d[o].parts)
  BY DocumentIs
<1>3. \A o \in 1 .. Len(d) : \A k \in 1 .. Len(d[o].parts) : ~IsReplaced(d, o, k)
  BY NoneReplaced
<1> QED
  BY <1>1, <1>2, <1>3 DEF RefsAreSound

\* the first c parts of each node were read
LEMMA PartsCame ==
  ASSUME DoneSo, ~HasRefs(message), NEW o \in 1 .. Len(heap)
  PROVE  /\ o \in 1 .. Len(message) /\ Len(message[o].parts) \in Nat
         /\ \E c \in 0 .. Len(message[o].parts) :
              /\ heap[o].parts = SubSeq(message[o].parts, 1, c)
              /\ Len(heap[o].parts) = c /\ DOMAIN heap[o].parts = 1 .. c
              /\ \A k \in 1 .. c : heap[o].parts[k] = message[o].parts[k]
              /\ \A k \in 1 .. Len(message[o].parts) : k > c => message[o].parts[k] > Len(heap)
<1> DEFINE ps == message[o].parts
<1>1. /\ message \in Answers /\ Len(heap) \in Nat /\ Len(message) \in Nat /\ Len(heap) <= Len(message)
      /\ HasParts(Came, heap, pos, o)
  BY DEF DoneSo
<1>2. o \in 1 .. Len(message)
  BY <1>1
<1>3. PICK c \in 0 .. Len(ps) :
        /\ heap[o].parts = SubSeq(MeantParts(message, o), 1, c)
        /\ c = Len(ps) \/ (Out(Came, pos) /\ NextNode(message, o, c) > Len(heap))
  <2>1. Came.doc = message /\ Came.doc \in Answers /\ o \in 1 .. Len(Came.doc)
    BY <1>1, <1>2, CameIs
  <2> QED
    BY <1>1, <2>1, PartsSoFar
<1>4. MeantParts(message, o) = ps
  BY <1>1, <1>2, NoneReplaced
<1>5. ps \in Seq(o + 1 .. Len(message)) /\ Len(ps) \in Nat
  BY <1>1, <1>2, DocumentIs
<1>6. /\ \A k \in 1 .. Len(ps) : ps[k] = NextNode(message, o, k - 1)
      /\ \A k \in 0 .. Len(ps) : NextNode(message, o, k) \in o + 1 .. Len(message) + 1
  BY <1>1, <1>2, NextIs
<1>7. \A j \in Nat : \A k \in Nat :
        j <= k /\ k <= Len(ps) => NextNode(message, o, j) <= NextNode(message, o, k)
  BY <1>1, <1>2, NextRises
<1>8. \A k \in 1 .. Len(ps) : k > c => ps[k] > Len(heap)
  <2> SUFFICES ASSUME NEW k \in 1 .. Len(ps), k > c PROVE ps[k] > Len(heap)
    OBVIOUS
  <2> DEFINE nx(j) == NextNode(message, o, j)
             r == Len(ps)
  <2>r. r \in Nat /\ k \in 1 .. r /\ c \in 0 .. r
    BY <1>5
  <2> HIDE DEF r
  <2>1. c \in Nat /\ k - 1 \in Nat /\ c <= k - 1 /\ k - 1 <= r /\ c # r /\ k - 1 \in 0 .. r
    BY <2>r
  <2>2. nx(c) > Len(heap)
    BY <1>3, <2>1 DEF r
  <2>3. nx(c) <= nx(k - 1)
    BY <1>7, <2>1 DEF r
  <2>4. nx(c) \in o + 1 .. Len(message) + 1 /\ nx(k - 1) \in o + 1 .. Len(message) + 1
    BY <1>6, <2>1, <2>r DEF r
  <2>5. ps[k] = nx(k - 1)
    BY <1>6
  <2> HIDE DEF nx
  <2> QED
    BY <1>1, <1>2, <2>2, <2>3, <2>4, <2>5
<1>9. heap[o].parts = SubSeq(ps, 1, c)
  BY <1>3, <1>4
<1> HIDE DEF ps
<1>10. /\ Len(SubSeq(ps, 1, c)) = c /\ DOMAIN SubSeq(ps, 1, c) = 1 .. c
       /\ \A k \in 1 .. c : SubSeq(ps, 1, c)[k] = ps[k]
  BY <1>5
<1> QED
  BY <1>2, <1>3, <1>5, <1>8, <1>9, <1>10 DEF ps

\* all nodes but the last one say what was sent
LEMMA SaysWhatCame ==
  ASSUME DoneSo, NEW o \in 1 .. Len(heap)
  PROVE  /\ heap[o].type = message[o].type
         /\ o # Len(heap) => SaysSame(heap[o], message[o])
         /\ Begun(heap[o], message[o])
<1>1. heap[o].type = message[o].type /\ NodeSays(Came, heap, pos, o)
  BY DEF DoneSo
<1>2. SaysSame(heap[o], message[o]) \/ (o = Len(heap) /\ Begun(heap[o], message[o]))
  BY <1>1, CameIs DEF NodeSays
<1>3. SaysSame(heap[o], message[o]) => Begun(heap[o], message[o])
  BY DEF SaysSame, Begun
<1> QED
  BY <1>1, <1>2, <1>3

LEMMA BeginsSo ==
  ASSUME DoneSo, ~HasRefs(message)
  PROVE  Begins(ReadBack, message)
<1> DEFINE R == ReadBack
           d == message
<1>1. d \in Answers /\ IsHeap(heap) /\ Len(heap) \in Nat /\ Len(heap) <= Len(d) /\ Len(d) \in Nat
  BY DEF DoneSo
<1>2. /\ DOMAIN R = 1 .. Len(heap) /\ Len(R) = Len(heap)
      /\ \A o \in 1 .. Len(heap) : /\ R[o].type = heap[o].type /\ R[o].value = heap[o].value
                                   /\ R[o].text = heap[o].text /\ R[o].class = heap[o].class
                                   /\ R[o].parts = heap[o].parts
  BY <1>1, ReadBackIs
<1>3. ASSUME NEW o \in 1 .. Len(heap)
      PROVE  /\ R[o].type = d[o].type
             /\ IsPrefix(R[o].parts, d[o].parts)
             /\ \A k \in DOMAIN d[o].parts : k > Len(R[o].parts) => d[o].parts[k] > Len(R)
             /\ IF o = Len(R) THEN Begun(R[o], d[o])
                ELSE R[o].value = d[o].value /\ R[o].text = d[o].text /\ R[o].class = d[o].class
  <2>1. /\ R[o].type = heap[o].type /\ R[o].value = heap[o].value
        /\ R[o].text = heap[o].text /\ R[o].class = heap[o].class /\ R[o].parts = heap[o].parts
    BY <1>2
  <2>2. /\ heap[o].type = d[o].type
        /\ o # Len(heap) => SaysSame(heap[o], d[o])
        /\ Begun(heap[o], d[o])
    BY SaysWhatCame
  <2>3. o \in 1 .. Len(d) /\ Len(d[o].parts) \in Nat
    BY PartsCame
  <2>4. PICK c \in 0 .. Len(d[o].parts) :
          /\ heap[o].parts = SubSeq(d[o].parts, 1, c)
          /\ Len(heap[o].parts) = c
          /\ \A k \in 1 .. Len(d[o].parts) : k > c => d[o].parts[k] > Len(heap)
    BY PartsCame
  <2>5. d[o].parts \in Seq(o + 1 .. Len(d)) /\ DOMAIN d[o].parts = 1 .. Len(d[o].parts)
    <3>1. d[o].parts \in Seq(o + 1 .. Len(d))
      BY <1>1, <2>3, DocumentIs
    <3> QED
      BY <3>1
  <2>6. IsPrefix(heap[o].parts, d[o].parts)
    <3>1. IsPrefix(SubSeq(d[o].parts, 1, c), d[o].parts)
      BY <2>5, PartIsPrefix
    <3> QED
      BY <2>4, <3>1
  <2>7. Begun(R[o], d[o])
    BY <2>1, <2>2, Zenon DEF Begun
  <2>8. o # Len(R) => R[o].value = d[o].value /\ R[o].text = d[o].text /\ R[o].class = d[o].class
    BY <1>2, <2>1, <2>2 DEF SaysSame
  <2>9. \A k \in DOMAIN d[o].parts : k > Len(R[o].parts) => d[o].parts[k] > Len(R)
    <3> SUFFICES ASSUME NEW k \in DOMAIN d[o].parts, k > Len(R[o].parts) PROVE d[o].parts[k] > Len(R)
      OBVIOUS
    <3>1. k \in 1 .. Len(d[o].parts) /\ k > c
      BY <2>1, <2>4, <2>5
    <3>2. d[o].parts[k] > Len(heap)
      BY <2>4, <3>1
    <3> QED
      BY <1>2, <3>2
  <2>10. IsPrefix(R[o].parts, d[o].parts) /\ R[o].type = d[o].type
    BY <2>1, <2>2, <2>6
  <2> QED
    BY <2>7, <2>8, <2>9, <2>10
<1> HIDE DEF R, d
<1>4. Len(R) <= Len(d)
  BY <1>1, <1>2
<1>5. Begins(R, d)
  BY <1>2, <1>3, <1>4 DEF Begins
<1> QED
  BY <1>5 DEF R, d

\* a decision that was read is one that was sent
LEMMA DecisionIs ==
  ASSUME DoneSo, ~HasRefs(message), NEW o \in 1 .. Len(heap), NEW k \in DecisionsOf(ReadBack, o)
  PROVE  /\ k \in DecisionsOf(message, o)
         /\ ReadBack[o].parts[k] = message[o].parts[k] /\ message[o].parts[k] \in 1 .. Len(heap)
         /\ o # Len(heap)
<1> DEFINE R == ReadBack
           d == message
           n == Len(heap)
           a == d[o].parts[k - 1]
           b == d[o].parts[k]
<1>1. d \in Answers /\ IsHeap(heap) /\ n \in Nat /\ n <= Len(d) /\ Len(d) \in Nat
  BY DEF DoneSo
<1>2. \A x \in 1 .. n : /\ R[x] = Node(heap[x].type, heap[x].value, heap[x].text, heap[x].class, heap[x].parts)
                        /\ R[x].parts = heap[x].parts
  BY <1>1, ReadBackIs
<1>3. PICK c \in 0 .. Len(d[o].parts) :
        /\ Len(heap[o].parts) = c /\ DOMAIN heap[o].parts = 1 .. c
        /\ \A j \in 1 .. c : heap[o].parts[j] = d[o].parts[j]
  BY PartsCame
<1>4. o \in 1 .. Len(d) /\ Len(d[o].parts) \in Nat
  BY PartsCame
<1>5. k \in DOMAIN R[o].parts /\ k % 2 = 0 /\ R[R[o].parts[k - 1]] = Key("decision")
  BY DEF DecisionsOf
<1>6. k \in 1 .. c /\ k % 2 = 0
  BY <1>2, <1>3, <1>5
<1>7. k - 1 \in 1 .. c /\ k - 1 \in 1 .. Len(d[o].parts) /\ k \in 1 .. Len(d[o].parts)
      /\ k - 1 \in Nat /\ k \in Nat /\ k - 1 - 1 \in 0 .. Len(d[o].parts) /\ k - 1 \in 0 .. Len(d[o].parts)
      /\ k # 0 /\ k # 1
  BY <1>4, <1>6
<1>8. R[o].parts[k] = b /\ R[o].parts[k - 1] = a
  BY <1>2, <1>3, <1>6, <1>7
<1>9. heap[o].parts \in Seq(o + 1 .. n)
  BY <1>1 DEF IsHeap, IsObject
<1>10. heap[o].parts[k] = b /\ b \in o + 1 .. n
  <2> DEFINE A == o + 1 .. n
             s == heap[o].parts
  <2>1. s \in Seq(A) /\ k \in DOMAIN s /\ s[k] = b
    BY <1>3, <1>6, <1>9
  <2> HIDE DEF A, s, b
  <2>2. s[k] \in A
    BY <2>1
  <2> QED
    BY <2>1, <2>2 DEF A, s
<1>11. /\ \A j \in 1 .. Len(d[o].parts) :
            d[o].parts[j] = NextNode(d, o, j - 1) /\ d[o].parts[j] \in o + 1 .. Len(d)
       /\ \A j \in 1 .. Len(d[o].parts) : NextNode(d, o, j - 1) < NextNode(d, o, j)
  BY <1>1, <1>4, NextIs
<1>12. a < b /\ a \in o + 1 .. Len(d)
  <2> DEFINE i == k - 1
             nx(j) == NextNode(d, o, j)
  <2>1. i \in 1 .. Len(d[o].parts) /\ k \in 1 .. Len(d[o].parts) /\ i = k - 1
    BY <1>7
  <2>2. a = nx(i - 1) /\ a \in o + 1 .. Len(d) /\ b = nx(k - 1)
    BY <1>11, <2>1
  <2>3. nx(i - 1) < nx(i)
    BY <1>11, <2>1
  <2> QED
    BY <2>1, <2>2, <2>3
<1> HIDE DEF a, b
<1>13. b \in 1 .. n /\ a \in 1 .. n /\ a # n /\ o # n
  BY <1>1, <1>4, <1>10, <1>12
<1>14. d[a] = Key("decision")
  <2>1. R[a] = Key("decision") /\ R[a] = Node(heap[a].type, heap[a].value, heap[a].text, heap[a].class, heap[a].parts)
    BY <1>2, <1>5, <1>8, <1>13
  <2>2. heap[a].type = d[a].type /\ SaysSame(heap[a], d[a])
    BY <1>13, SaysWhatCame
  <2>3. Key("decision") = Node("string", 0, Name("decision"), <<>>, <<>>)
    BY DEF Key, String
  <2>4. /\ heap[a].type = "string" /\ heap[a].value = 0 /\ heap[a].text = Name("decision")
        /\ heap[a].class = <<>>
    BY <2>1, <2>3, FieldsAre
  <2>5. d[a].type = "string" /\ d[a].value = 0 /\ d[a].text = Name("decision") /\ d[a].class = <<>>
    BY <2>2, <2>4 DEF SaysSame
  <2>6. d[a] = Node(d[a].type, d[a].value, d[a].text, d[a].class, d[a].parts) /\ d[a].parts = <<>>
    <3>1. a \in 1 .. Len(d)
      BY <1>1, <1>13
    <3>2. IsNode(d[a], a + 1 .. Len(d))
      BY <1>1, <3>1, DocumentIs
    <3> DEFINE S == a + 1 .. Len(d)
    <3>3. IsNode(d[a], S)
      BY <3>2
    <3> HIDE DEF S
    <3>4. d[a].type \notin {"list", "map"}
      BY <2>5
    <3> QED
      BY <3>3, <3>4, NodeIs
  <2> QED
    BY <2>3, <2>5, <2>6
<1>15. k \in DecisionsOf(d, o)
  <2>1. k \in DOMAIN d[o].parts
    <3>1. d[o].parts \in Seq(o + 1 .. Len(d))
      BY <1>1, <1>4, DocumentIs
    <3> QED
      BY <1>7, <3>1
  <2> QED
    BY <1>6, <1>14, <2>1 DEF DecisionsOf, a
<1> QED
  BY <1>8, <1>13, <1>15 DEF b

LEMMA MaxOfOne == \A k \in Int : Max({k}) = k
BY DEF Max

LEMMA PermitsSo ==
  ASSUME DoneSo, ~HasRefs(message), Permits(ReadBack), DecidesOnce(message)
  PROVE  Permits(message)
<1> DEFINE R == ReadBack
           d == message
           n == Len(heap)
<1>1. d \in Answers /\ IsHeap(heap) /\ n \in Nat /\ n <= Len(d) /\ Len(d) \in Nat /\ DOMAIN d = 1 .. Len(d)
  <2>1. d \in Answers /\ IsHeap(heap) /\ n \in Nat /\ n <= Len(d) /\ Len(d) \in Nat
    BY DEF DoneSo
  <2> QED
    BY <2>1, DocumentIs
<1>2. /\ DOMAIN R = 1 .. n
      /\ \A x \in 1 .. n : R[x].type = heap[x].type /\ R[x].value = heap[x].value /\ R[x].class = heap[x].class
  BY <1>1, ReadBackIs
<1>3. PICK o \in 1 .. n : IsResult(R[o]) /\ DecisionOf(R, o) = PERMIT
  BY <1>2 DEF Permits
<1>4. DecisionsOf(R, o) # {}
  BY <1>3 DEF DecisionOf, PERMIT
<1>5. PICK k : k \in DecisionsOf(R, o)
  BY <1>4
<1>6. ASSUME NEW j \in DecisionsOf(R, o)
      PROVE  /\ j \in DecisionsOf(d, o) /\ R[o].parts[j] = d[o].parts[j] /\ d[o].parts[j] \in 1 .. n
             /\ o # n
  BY DecisionIs
<1>7. k \in DecisionsOf(d, o) /\ R[o].parts[k] = d[o].parts[k] /\ d[o].parts[k] \in 1 .. n /\ o # n
  BY <1>5, <1>6
<1>8. IsResult(d[o])
  <2>1. heap[o].type = d[o].type /\ SaysSame(heap[o], d[o])
    BY <1>7, SaysWhatCame
  <2>2. heap[o].type = "map" /\ heap[o].class = Name("result")
    BY <1>2, <1>3 DEF IsResult
  <2> QED
    BY <2>1, <2>2 DEF IsResult, SaysSame
<1>9. o \in DOMAIN d
  BY <1>1
<1>10. \A j \in DecisionsOf(d, o) : j = k
  BY <1>7, <1>8, <1>9 DEF DecidesOnce
<1>11. DecisionsOf(d, o) = {k} /\ DecisionsOf(R, o) = {k}
  BY <1>5, <1>6, <1>7, <1>10
<1>12. k \in Int
  <2>1. k \in DOMAIN d[o].parts
    BY <1>7 DEF DecisionsOf
  <2>2. d[o].parts \in Seq(o + 1 .. Len(d))
    BY <1>1, <1>9, DocumentIs
  <2> QED
    BY <2>1, <2>2
<1>13. DecisionOf(R, o) = R[R[o].parts[k]].value /\ DecisionOf(d, o) = d[d[o].parts[k]].value
  BY <1>11, <1>12, MaxOfOne DEF DecisionOf
<1> DEFINE b == d[o].parts[k]
<1>14. b \in 1 .. n /\ R[o].parts[k] = b
  BY <1>7
<1>15. R[b].value = 1 /\ DecisionOf(d, o) = d[b].value
  BY <1>3, <1>13, <1>14 DEF PERMIT
<1> HIDE DEF b
<1>16. heap[b].value = 1 /\ Begun(heap[b], d[b])
  BY <1>2, <1>14, <1>15, SaysWhatCame
<1>17. d[b].value = 1
  BY <1>16 DEF Begun
<1> QED
  BY <1>8, <1>9, <1>15, <1>17 DEF Permits, PERMIT

(***************************************************************************)
(* With memory for all of it, what is read from the first bytes of a       *)
(* message is a beginning of it, and no answer that was sent becomes a     *)
(* permit, whatever the documents are and wherever the message is cut.     *)
(***************************************************************************)
THEOREM TruncationIsSafe == RSpec => []TruncationNeverPermits
<1>1. ASSUME DInv, RInv PROVE TruncationNeverPermits
  <2> SUFFICES ASSUME Decoded, ~short, cut, Readable(message), ~HasRefs(message)
               PROVE  /\ Begins(ReadBack, message)
                      /\ Permits(ReadBack) /\ DecidesOnce(message) => Permits(message)
    BY DEF TruncationNeverPermits
  <2>1. message \in Answers
    BY <1>1 DEF RInv, Decoded
  <2>2. RefsAreSound(message)
    BY <2>1, NothingMeant
  <2>3. Fair
    BY <2>2 DEF Fair
  <2>4. DoneSo
    BY <1>1, <2>3, DoneIs
  <2> QED
    BY <2>4, BeginsSo, PermitsSo
<1> QED
  BY <1>1, ReadingIsDecoding, DInvHolds, RInvHolds, PTL

=============================================================================
