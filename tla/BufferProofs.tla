---------------------------- MODULE BufferProofs ----------------------------
(***************************************************************************)
(* What holds of a BUFFER for any bytes, sizes and number of operations:   *)
(* the order of its positions, the bounds of its array, and the queue of   *)
(* bytes that it implements.                                               *)
(***************************************************************************)
EXTENDS Buffer, SequenceTheorems, TLAPS

(***************************************************************************)
(* The array is the one size speaks of, unless it was lost.  Each kind of  *)
(* fact has a name of its own: an operation disturbs few of them.          *)
(***************************************************************************)
PositionsOK == /\ size \in Nat /\ wpos \in Nat /\ rpos \in Nat
               /\ PositionsOrdered
ArrayOK == /\ data \in {Null} \cup Arrays(size)
           /\ ~failed => data \in Arrays(size)
GotOK   == got \in Seq(Octets \cup {Unset})
StateOK == /\ exists \in BOOLEAN /\ failed \in BOOLEAN /\ stray \in BOOLEAN
           /\ InBounds

BufferInv == PositionsOK /\ ArrayOK /\ GotOK /\ StateOK

LEMMA NullIsArray == Null \in Arrays(0)
BY DEF Null, Arrays

LEMMA EmptyGotOK == got' = <<>> => GotOK'
BY DEF GotOK

\* The array after growth is large enough, and keeps what it held.
LEMMA RoomProperties ==
  ASSUME BufferInv, NEW n \in Nat, Resize(n)
  PROVE  /\ size' \in Nat /\ wpos + n <= size' /\ size <= size'
         /\ Room(n) \in {Null} \cup Arrays(size')
         /\ ~failed => /\ Room(n) \in Arrays(size')
                       /\ \A k \in 0 .. size - 1 : Room(n)[k] = data[k]
<1> USE DEF BufferInv, PositionsOK, PositionsOrdered
<1>1. CASE Fits(n)
  <2>1. size' = size /\ Room(n) = data /\ wpos + n <= size
    BY <1>1 DEF Fits, Resize, Room
  <2> QED
    BY <2>1 DEF ArrayOK
<1>2. CASE ~Fits(n)
  <2>1. /\ NewSize(n) \in Nat /\ wpos + n <= NewSize(n) /\ size <= NewSize(n)
        /\ size' = NewSize(n)
    BY <1>2 DEF Fits, NewSize, Resize
  <2>2. Room(n) = [k \in 0 .. NewSize(n) - 1 |-> IF k \in DOMAIN data THEN data[k] ELSE Unset]
    BY <1>2 DEF Room
  <2>3. \A k \in DOMAIN data : data[k] \in Octets \cup {Unset}
    BY DEF ArrayOK, Arrays, Null
  <2>4. Room(n) \in Arrays(size')
    BY <2>1, <2>2, <2>3 DEF Arrays
  <2>5. ~failed => \A k \in 0 .. size - 1 : Room(n)[k] = data[k]
    BY <2>1, <2>2 DEF ArrayOK, Arrays
  <2> QED
    BY <2>1, <2>4, <2>5
<1> QED
  BY <1>1, <1>2

\* Storing bytes in an array changes its content, not its size.
LEMMA StoredType ==
  ASSUME NEW s \in Nat, NEW p \in Nat, NEW bs \in Seq(Octets), NEW a
  PROVE  /\ a \in Arrays(s) => Stored(a, p, bs) \in Arrays(s)
         /\ a = Null => Stored(a, p, bs) = Null
<1>1. ASSUME a \in Arrays(s) PROVE Stored(a, p, bs) \in Arrays(s)
  <2>1. DOMAIN a = 0 .. s - 1 /\ \A k \in DOMAIN a : a[k] \in Octets \cup {Unset}
    BY <1>1 DEF Arrays
  <2>2. \A k \in DOMAIN bs : bs[k] \in Octets
    OBVIOUS
  <2> QED
    BY <2>1, <2>2 DEF Arrays, Stored
<1>2. ASSUME a = Null PROVE Stored(a, p, bs) = Null
  BY <1>2 DEF Null, Stored
<1> QED
  BY <1>1, <1>2

-----------------------------------------------------------------------------
(* One lemma per operation: what it does to the four parts.                *)

LEMMA GrowthFailsKeeps ==
  ASSUME BufferInv, NEW n \in Nat, GrowthFails(n)
  PROVE  BufferInv'
<1>1. PositionsOK'
  BY DEF BufferInv, GrowthFails, positions, PositionsOK, PositionsOrdered
<1>2. ArrayOK'
  BY DEF GrowthFails, ArrayOK
<1>3. GotOK'
  BY EmptyGotOK DEF GrowthFails
<1>4. StateOK'
  BY DEF BufferInv, GrowthFails, StateOK, InBounds
<1> QED
  BY <1>1, <1>2, <1>3, <1>4 DEF BufferInv

\* Cells below size are those of the array, unless it was lost.
LEMMA AccessIsInBounds ==
  ASSUME StateOK, failed' = failed, NEW s \in Nat, NEW a, NEW cells, Access(cells, a),
         cells \subseteq 0 .. s - 1, ~failed => a \in Arrays(s), UNCHANGED exists
  PROVE  StateOK'
<1>1. ~failed => cells \subseteq DOMAIN a
  BY DEF Arrays
<1>2. stray' \in BOOLEAN /\ (stray' => failed')
  BY <1>1 DEF Access, StateOK, InBounds
<1> QED
  BY <1>2 DEF StateOK, InBounds

LEMMA CreateKeeps ==
  ASSUME BufferInv, NEW n \in 0 .. MaxSize, CreateBuffer(n)
  PROVE  BufferInv'
<1>1. size' \in Nat /\ wpos' = 0 /\ rpos' = 0
  BY SizeAssumption DEF CreateBuffer
<1>2. PositionsOK'
  BY <1>1 DEF PositionsOK, PositionsOrdered
<1>3. data' \in Arrays(size')
  BY DEF CreateBuffer, Arrays
<1>4. ArrayOK'
  BY <1>3 DEF ArrayOK
<1>5. GotOK'
  BY EmptyGotOK DEF CreateBuffer
<1>6. StateOK'
  BY DEF CreateBuffer, StateOK, InBounds
<1> QED
  BY <1>2, <1>4, <1>5, <1>6 DEF BufferInv

LEMMA DeleteKeeps ==
  ASSUME BufferInv, DeleteBuffer
  PROVE  BufferInv'
<1>1. PositionsOK'
  BY DEF DeleteBuffer, PositionsOK, PositionsOrdered
<1>2. ArrayOK'
  BY NullIsArray DEF DeleteBuffer, ArrayOK
<1>3. GotOK'
  BY EmptyGotOK DEF DeleteBuffer
<1>4. StateOK'
  BY DEF DeleteBuffer, StateOK, InBounds
<1> QED
  BY <1>1, <1>2, <1>3, <1>4 DEF BufferInv

LEMMA WriteKeeps ==
  ASSUME BufferInv, NEW bs \in Seq(Octets), Write(bs)
  PROVE  BufferInv'
<1> DEFINE n == Len(bs)
           room == Room(n)
<1>n. n \in Nat
  OBVIOUS
<1>1. CASE GrowthFails(n)
  BY <1>n, <1>1, GrowthFailsKeeps
<1>2. CASE /\ Resize(n)
           /\ Access(wpos .. wpos + n - 1, room)
           /\ data' = Stored(room, wpos, bs)
           /\ wpos' = wpos + n
           /\ got' = <<>>
           /\ UNCHANGED <<exists, rpos, failed>>
  <2>1. wpos \in Nat /\ rpos \in Nat /\ rpos <= wpos
    BY DEF BufferInv, PositionsOK, PositionsOrdered
  <2>2. /\ size' \in Nat /\ wpos + n <= size'
        /\ room \in {Null} \cup Arrays(size')
        /\ ~failed => room \in Arrays(size')
    BY <1>n, <1>2, RoomProperties
  <2>3. PositionsOK'
    BY <1>n, <1>2, <2>1, <2>2 DEF PositionsOK, PositionsOrdered
  <2>4. ArrayOK'
    BY <1>2, <2>1, <2>2, StoredType DEF ArrayOK
  <2>5. GotOK'
    BY <1>2, EmptyGotOK
  <2>6. wpos .. wpos + n - 1 \subseteq 0 .. size' - 1
    BY <1>n, <2>1, <2>2
  <2>7. StateOK'
    BY <1>2, <2>2, <2>6, AccessIsInBounds DEF BufferInv
  <2> QED
    BY <2>3, <2>4, <2>5, <2>7 DEF BufferInv
<1> HIDE DEF n, room
<1> QED
  BY <1>1, <1>2 DEF Write, n, room

LEMMA ReadKeeps ==
  ASSUME BufferInv, NEW n \in Nat, Read(n)
  PROVE  BufferInv'
<1> DEFINE m == IF n > wpos - rpos THEN wpos - rpos ELSE n
<1>1. /\ size \in Nat /\ wpos \in Nat /\ rpos \in Nat
      /\ rpos <= wpos /\ wpos <= size
  BY DEF BufferInv, PositionsOK, PositionsOrdered
<1>2. m \in Nat /\ rpos + m <= wpos
  BY <1>1
<1>3. /\ Access(rpos .. rpos + m - 1, data)
      /\ got' = [k \in 1 .. m |-> IF data = Null THEN Unset ELSE data[rpos + k - 1]]
      /\ rpos' = rpos + m
      /\ UNCHANGED <<exists, data, size, wpos, failed>>
  BY DEF Read
<1> HIDE DEF m
<1>4. PositionsOK'
  BY <1>1, <1>2, <1>3 DEF PositionsOK, PositionsOrdered
<1>5. ArrayOK /\ ArrayOK'
  BY <1>3 DEF BufferInv, ArrayOK
<1>6. ASSUME NEW k \in 1 .. m, data # Null PROVE data[rpos + k - 1] \in Octets \cup {Unset}
  <2>1. rpos + k - 1 \in 0 .. size - 1
    BY <1>1, <1>2
  <2> QED
    BY <1>5, <1>6, <2>1 DEF ArrayOK, Arrays
<1>7. GotOK'
  BY <1>2, <1>3, <1>6 DEF GotOK
<1>8. rpos .. rpos + m - 1 \subseteq 0 .. size - 1
  BY <1>1, <1>2
<1>9. StateOK'
  BY <1>1, <1>3, <1>5, <1>8, AccessIsInBounds DEF BufferInv, ArrayOK
<1> QED
  BY <1>4, <1>5, <1>7, <1>9 DEF BufferInv

\* The cells 0 .. w - 1 can be shifted by one in an array of more than w.
LEMMA ShiftedIndices ==
  ASSUME NEW s \in Nat, NEW w \in Nat, w + 1 <= s
  PROVE  /\ 0 .. w \subseteq 0 .. s - 1
         /\ \A k \in 0 .. s - 1 : k = 0 \/ k - 1 \in 0 .. s - 1
<1>1. \A k \in 0 .. w : k \in Int /\ 0 <= k /\ k <= s - 1
  OBVIOUS
<1>2. \A k \in 0 .. s - 1 : k = 0 \/ (k - 1 \in Int /\ 0 <= k - 1 /\ k - 1 <= s - 1)
  OBVIOUS
<1> QED
  BY <1>1, <1>2

LEMMA UngetcKeeps ==
  ASSUME BufferInv, NEW c \in Octets, Ungetc(c)
  PROVE  BufferInv'
<1>1. /\ size \in Nat /\ wpos \in Nat /\ rpos \in Nat
      /\ rpos <= wpos /\ wpos <= size
  BY DEF BufferInv, PositionsOK, PositionsOrdered
<1>c. <<c>> \in Seq(Octets)
  OBVIOUS
<1>2. CASE /\ rpos > 0
           /\ Access({rpos - 1}, data)
           /\ data' = Stored(data, rpos - 1, <<c>>)
           /\ rpos' = rpos - 1
           /\ got' = <<>>
           /\ UNCHANGED <<exists, size, wpos, failed>>
  <2>1. PositionsOK' /\ rpos - 1 \in Nat
    BY <1>1, <1>2 DEF PositionsOK, PositionsOrdered
  <2>2. ArrayOK'
    BY <1>1, <1>2, <1>c, <2>1, StoredType DEF BufferInv, ArrayOK
  <2>3. {rpos - 1} \subseteq 0 .. size - 1
    BY <1>1, <1>2
  <2>4. StateOK'
    BY <1>1, <1>2, <2>3, AccessIsInBounds DEF BufferInv, ArrayOK
  <2> QED
    BY <1>2, <2>1, <2>2, <2>4, EmptyGotOK DEF BufferInv
<1>3. CASE /\ rpos = 0
           /\ Resize(1)
           /\ Access(0 .. wpos, Room(1))
           /\ data' = [k \in DOMAIN Room(1) |->
                         IF k = 0 THEN c
                         ELSE IF k <= wpos THEN Room(1)[k - 1] ELSE Room(1)[k]]
           /\ wpos' = wpos + 1
           /\ got' = <<>>
           /\ UNCHANGED <<exists, rpos, failed>>
  <2> DEFINE room == Room(1)
  <2>1. /\ size' \in Nat /\ wpos + 1 <= size'
        /\ room \in {Null} \cup Arrays(size')
        /\ ~failed => room \in Arrays(size')
    BY <1>3, RoomProperties
  <2>2. data' = [k \in DOMAIN room |->
                   IF k = 0 THEN c ELSE IF k <= wpos THEN room[k - 1] ELSE room[k]]
    BY <1>3
  <2> HIDE DEF room
  <2>n. size' \in Nat /\ wpos + 1 <= size'
    BY <2>1
  <2>3. PositionsOK'
    BY <1>1, <1>3, <2>n DEF PositionsOK, PositionsOrdered
  <2>4. ASSUME room \in Arrays(size') PROVE data' \in Arrays(size')
    <3>1. DOMAIN room = 0 .. size' - 1 /\ \A k \in 0 .. size' - 1 : room[k] \in Octets \cup {Unset}
      BY <2>n, <2>4 DEF Arrays
    <3>2. \A k \in 0 .. size' - 1 : k = 0 \/ k - 1 \in 0 .. size' - 1
      BY <1>1, <2>n, ShiftedIndices
    <3> QED
      BY <2>2, <3>1, <3>2 DEF Arrays
  <2>5. ASSUME room = Null PROVE data' = Null
    BY <2>2, <2>5 DEF Null
  <2>6. ArrayOK'
    BY <1>3, <2>1, <2>4, <2>5 DEF ArrayOK
  <2>7. 0 .. wpos \subseteq 0 .. size' - 1
    BY <1>1, <2>n, ShiftedIndices
  <2>8. StateOK'
    BY <1>3, <2>1, <2>7, AccessIsInBounds DEF BufferInv, room
  <2> QED
    BY <1>3, <2>3, <2>6, <2>8, EmptyGotOK DEF BufferInv
<1>4. CASE GrowthFails(1)
  BY <1>4, GrowthFailsKeeps
<1> QED
  BY <1>2, <1>3, <1>4 DEF Ungetc

LEMMA RewindKeeps ==
  ASSUME BufferInv, Rewind
  PROVE  BufferInv'
<1>1. PositionsOK'
  BY DEF BufferInv, Rewind, PositionsOK, PositionsOrdered
<1>2. ArrayOK'
  BY DEF BufferInv, Rewind, ArrayOK
<1>3. GotOK'
  BY EmptyGotOK DEF Rewind
<1>4. StateOK'
  BY DEF BufferInv, Rewind, StateOK, InBounds
<1> QED
  BY <1>1, <1>2, <1>3, <1>4 DEF BufferInv

LEMMA ResetKeeps ==
  ASSUME BufferInv, Reset
  PROVE  BufferInv'
<1>1. size \in Nat /\ PositionsOK'
  BY DEF BufferInv, Reset, PositionsOK, PositionsOrdered
<1>2. ArrayOK'
  <2>1. data \in Arrays(size) => data' \in Arrays(size)
    BY DEF Reset, Arrays
  <2>2. data = Null => data' = Null
    BY DEF Reset, Null
  <2> QED
    BY <2>1, <2>2 DEF BufferInv, ArrayOK, Reset
<1>3. GotOK'
  BY EmptyGotOK DEF Reset
<1>4. StateOK'
  <2>1. Access(0 .. size - 1, data) /\ UNCHANGED <<exists, failed>>
    BY DEF Reset
  <2> QED
    BY <1>1, <2>1, AccessIsInBounds DEF BufferInv, ArrayOK
<1> QED
  BY <1>1, <1>2, <1>3, <1>4 DEF BufferInv

LEMMA BufferInvariant == BufferSpec => []BufferInv
<1>1. BufferInit => BufferInv
  <2> SUFFICES ASSUME BufferInit PROVE BufferInv
    OBVIOUS
  <2>1. ArrayOK
    BY NullIsArray DEF BufferInit, ArrayOK
  <2>2. PositionsOK
    BY DEF BufferInit, PositionsOK, PositionsOrdered
  <2>s. StateOK
    BY DEF BufferInit, StateOK, InBounds
  <2>3. GotOK
    BY DEF BufferInit, GotOK
  <2> QED
    BY <2>1, <2>2, <2>s, <2>3 DEF BufferInv
<1>2. BufferInv /\ [BufferNext]_bufferVars => BufferInv'
  <2> SUFFICES ASSUME BufferInv, [BufferNext]_bufferVars PROVE BufferInv'
    OBVIOUS
  <2>1. ASSUME NEW n \in 0 .. MaxSize, CreateBuffer(n) PROVE BufferInv'
    BY <2>1, CreateKeeps
  <2>2. CASE DeleteBuffer
    BY <2>2, DeleteKeeps
  <2>3. ASSUME NEW bs \in Writes, Write(bs) PROVE BufferInv'
    <3>1. bs \in Seq(Octets)
      BY WriteAssumption DEF Writes
    <3> QED
      BY <2>3, <3>1, WriteKeeps
  <2>4. ASSUME NEW c \in Octets, Putc(c) PROVE BufferInv'
    <3>1. <<c>> \in Seq(Octets)
      OBVIOUS
    <3> QED
      BY <2>4, <3>1, WriteKeeps DEF Putc
  <2>5. ASSUME NEW c \in Octets, Ungetc(c) PROVE BufferInv'
    BY <2>5, UngetcKeeps
  <2>6. ASSUME NEW n \in 0 .. MaxWrite, Read(n) PROVE BufferInv'
    BY <2>6, WriteAssumption, ReadKeeps
  <2>7. CASE Getc
    BY <2>7, ReadKeeps DEF Getc
  <2>8. CASE Rewind
    BY <2>8, RewindKeeps
  <2>9. CASE Reset
    BY <2>9, ResetKeeps
  <2>10. CASE UNCHANGED bufferVars
    BY <2>10 DEF BufferInv, PositionsOK, PositionsOrdered, ArrayOK, GotOK, StateOK, InBounds, bufferVars, positions
  <2> QED
    BY <2>1, <2>2, <2>3, <2>4, <2>5, <2>6, <2>7, <2>8, <2>9, <2>10 DEF BufferNext
<1> QED
  BY <1>1, <1>2, PTL DEF BufferSpec

-----------------------------------------------------------------------------
(***************************************************************************)
(* The type invariant holds of every buffer.                               *)
(***************************************************************************)
THEOREM BufferTypeCorrect == BufferSpec => []TypeOK
<1>1. BufferInv => TypeOK
  BY DEF BufferInv, TypeOK, PositionsOK, ArrayOK, GotOK, StateOK
<1> QED
  BY <1>1, BufferInvariant, PTL

(***************************************************************************)
(* The unsigned subtractions of buffer.c:93, 172 and 271 never wrap.       *)
(***************************************************************************)
THEOREM PositionsStayOrdered == BufferSpec => []PositionsOrdered
<1>1. BufferInv => PositionsOrdered
  BY DEF BufferInv, PositionsOK
<1> QED
  BY <1>1, BufferInvariant, PTL

(***************************************************************************)
(* Unless a realloc() failed before, no operation reads or writes outside  *)
(* of the array, for buffers, chunks and runs of any length.               *)
(***************************************************************************)
THEOREM AccessesInBounds == BufferSpec => []InBounds
<1>1. BufferInv => InBounds
  BY DEF BufferInv, StateOK
<1> QED
  BY <1>1, BufferInvariant, PTL

-----------------------------------------------------------------------------
(* The cells of an array as a sequence, and how sequences of cells that    *)
(* follow each other are taken apart and put together.                     *)

Values == Octets \cup {Unset}
Slice(d, p, q) == [k \in 1 .. q - p |-> d[p + k - 1]]

\* d holds values in its cells below s
Holds(d, s) == \A k \in 0 .. s - 1 : d[k] \in Values

\* b is what the cells p .. q - 1 of d hold
IsSlice(b, d, p, q) ==
  /\ b \in Seq(Values) /\ Len(b) = q - p
  /\ \A k \in 1 .. q - p : b[k] = d[p + k - 1]

LEMMA SliceIsSeq ==
  ASSUME NEW s \in Nat, NEW d, Holds(d, s), NEW p \in Nat, NEW q \in Nat, p <= q, q <= s
  PROVE  IsSlice(Slice(d, p, q), d, p, q)
<1>1. ASSUME NEW k \in 1 .. q - p PROVE d[p + k - 1] \in Values
  <2>1. p + k - 1 \in 0 .. s - 1
    OBVIOUS
  <2> QED
    BY <2>1 DEF Holds
<1>2. q - p \in Nat
  OBVIOUS
<1> HIDE DEF Values
<1> QED
  BY <1>1, <1>2 DEF Slice, IsSlice

LEMMA EmptySlice == ASSUME NEW d, NEW p \in Nat PROVE Slice(d, p, p) = <<>>
<1>1. p - p = 0
  OBVIOUS
<1> QED
  BY <1>1 DEF Slice

\* Slices are equal when the cells are.
LEMMA SameSlice ==
  ASSUME NEW d, NEW e, NEW p \in Nat, NEW q \in Nat,
         \A k \in p .. q - 1 : d[k] = e[k]
  PROVE  Slice(d, p, q) = Slice(e, p, q)
<1>1. \A k \in 1 .. q - p : p + k - 1 \in p .. q - 1
  OBVIOUS
<1> QED
  BY <1>1 DEF Slice

\* What comes after a slice, as a sequence b, makes it longer.
LEMMA SliceThen ==
  ASSUME NEW s \in Nat, NEW d, Holds(d, s), NEW p \in Nat, NEW q \in Nat, NEW r \in Nat,
         p <= q, q <= r, r <= s,
         NEW b, IsSlice(b, d, q, r)
  PROVE  Slice(d, p, q) \o b = Slice(d, p, r)
<1> DEFINE a == Slice(d, p, q)
           c == Slice(d, p, r)
<1>b. b \in Seq(Values) /\ Len(b) = r - q /\ \A k \in 1 .. r - q : b[k] = d[q + k - 1]
  BY DEF IsSlice
<1>a. IsSlice(a, d, p, q)
  BY SliceIsSeq
<1>c. IsSlice(c, d, p, r)
  <2>1. p <= r
    OBVIOUS
  <2> QED
    BY <2>1, SliceIsSeq
<1> HIDE DEF a, c
<1>1. a \in Seq(Values) /\ Len(a) = q - p /\ \A k \in 1 .. q - p : a[k] = d[p + k - 1]
  BY <1>a DEF IsSlice
<1>2. c \in Seq(Values) /\ Len(c) = r - p /\ \A k \in 1 .. r - p : c[k] = d[p + k - 1]
  BY <1>c DEF IsSlice
<1>3. /\ a \o b \in Seq(Values) /\ Len(a \o b) = Len(a) + Len(b)
      /\ \A k \in 1 .. Len(a) + Len(b) : (a \o b)[k] = IF k <= Len(a) THEN a[k] ELSE b[k - Len(a)]
  <2>1. a \in Seq(Values) /\ b \in Seq(Values)
    BY <1>1, <1>b
  <2> QED
    BY <2>1, ConcatProperties, Zenon
<1>4. Len(a) + Len(b) = r - p /\ r - p \in Nat
  BY <1>1, <1>b
<1>5. ASSUME NEW k \in 1 .. r - p PROVE (a \o b)[k] = c[k]
  <2>1. (a \o b)[k] = IF k <= q - p THEN a[k] ELSE b[k - (q - p)]
    BY <1>1, <1>3, <1>4
  <2>2. CASE k <= q - p
    <3>1. k \in 1 .. q - p
      BY <2>2
    <3> QED
      BY <1>1, <1>2, <2>1, <2>2, <3>1
  <2>3. CASE ~(k <= q - p)
    <3> DEFINE i == k - (q - p)
    <3>1. i \in 1 .. r - q /\ q + i - 1 = p + k - 1
      BY <2>3
    <3>2. (a \o b)[k] = b[i] /\ c[k] = d[p + k - 1]
      BY <1>2, <2>1, <2>3
    <3> HIDE DEF i
    <3> QED
      BY <1>b, <3>1, <3>2
  <2> QED
    BY <2>2, <2>3
<1>6. Len(a \o b) = Len(c) /\ \A k \in 1 .. Len(a \o b) : (a \o b)[k] = c[k]
  BY <1>2, <1>3, <1>4, <1>5
<1>7. a \o b = c
  <2>1. a \o b \in Seq(Values) /\ c \in Seq(Values)
    BY <1>2, <1>3
  <2> QED
    BY <1>6, <2>1, SeqEqual, Zenon
<1> QED
  BY <1>7 DEF a, c

LEMMA SlicesConcat ==
  ASSUME NEW s \in Nat, NEW d, Holds(d, s), NEW p \in Nat, NEW q \in Nat, NEW r \in Nat,
         p <= q, q <= r, r <= s
  PROVE  Slice(d, p, q) \o Slice(d, q, r) = Slice(d, p, r)
<1>1. IsSlice(Slice(d, q, r), d, q, r)
  BY SliceIsSeq
<1> QED
  BY <1>1, SliceThen

\* A subsequence of a slice is a slice.
IsPart(d, p, q, m, n, u, v) == SubSeq(Slice(d, p, q), m, n) = Slice(d, u, v)

LEMMA SubSlice ==
  ASSUME NEW s \in Nat, NEW d, Holds(d, s), NEW p \in Nat, NEW q \in Nat, p <= q, q <= s,
         NEW m \in Nat, NEW n \in Nat, 1 <= m, m <= n + 1, n <= q - p,
         NEW u \in Nat, NEW v \in Nat, u = p + m - 1, v = p + n
  PROVE  IsPart(d, p, q, m, n, u, v)
<1> DEFINE a == Slice(d, p, q)
           b == SubSeq(a, m, n)
           c == Slice(d, u, v)
<1>a. IsSlice(a, d, p, q)
  BY SliceIsSeq
<1>c. IsSlice(c, d, u, v)
  <2>1. u <= v /\ v <= s
    OBVIOUS
  <2> QED
    BY <2>1, SliceIsSeq
<1> HIDE DEF a, c
<1>1. a \in Seq(Values) /\ Len(a) = q - p /\ \A k \in 1 .. q - p : a[k] = d[p + k - 1]
  BY <1>a DEF IsSlice
<1>2. c \in Seq(Values) /\ Len(c) = v - u /\ \A k \in 1 .. v - u : c[k] = d[u + k - 1]
  BY <1>c DEF IsSlice
<1>3. v - u = n - m + 1 /\ v - u \in Nat
  OBVIOUS
<1>4. \A k \in m .. n : a[k] \in Values
  <2>1. \A k \in m .. n : k \in 1 .. Len(a)
    BY <1>1
  <2> QED
    BY <1>1, <2>1
<1>5. /\ b \in Seq(Values) /\ Len(b) = v - u
      /\ \A k \in 1 .. v - u : b[k] = a[m + k - 1]
  <2>1. m \in Int /\ n \in Int
    OBVIOUS
  <2>2. /\ b \in Seq(Values) /\ Len(b) = IF m <= n THEN n - m + 1 ELSE 0
        /\ \A k \in 1 .. n - m + 1 : b[k] = a[m + k - 1]
    BY <1>4, <2>1, SubSeqProperties
  <2>3. Len(b) = v - u
    BY <1>3, <2>2
  <2> QED
    BY <1>3, <2>2, <2>3
<1> HIDE DEF b
<1>6. ASSUME NEW k \in 1 .. v - u PROVE b[k] = c[k]
  <2>1. m + k - 1 \in 1 .. q - p /\ p + (m + k - 1) - 1 = u + k - 1
    BY <1>3
  <2>2. a[m + k - 1] = d[p + (m + k - 1) - 1]
    BY <1>1, <2>1
  <2> QED
    BY <1>2, <1>5, <2>1, <2>2
<1>7. b = c
  <2>1. /\ b \in Seq(Values) /\ c \in Seq(Values) /\ Len(b) = Len(c)
        /\ \A k \in 1 .. Len(b) : b[k] = c[k]
    BY <1>2, <1>5, <1>6
  <2> QED
    BY <2>1, SeqEqual, Zenon
<1> QED
  BY <1>7 DEF a, b, c, IsPart

\* A slice, split at position t.
LEMMA SplitSlice ==
  ASSUME NEW s \in Nat, NEW d, Holds(d, s), NEW p \in Nat, NEW q \in Nat, p <= q, q <= s,
         NEW t \in Nat, p <= t, t <= q
  PROVE  /\ SubSeq(Slice(d, p, q), 1, t - p) = Slice(d, p, t)
         /\ SubSeq(Slice(d, p, q), t - p + 1, q - p) = Slice(d, t, q)
<1>1. PICK m \in Nat, n \in Nat, f \in Nat, one \in Nat :
        m = t - p /\ n = q - p /\ f = t - p + 1 /\ one = 1
  OBVIOUS
<1>2. IsPart(d, p, q, one, m, p, t)
  <2>1. 1 <= one /\ one <= m + 1 /\ m <= q - p /\ p = p + one - 1 /\ t = p + m
    BY <1>1
  <2> QED
    BY <1>1, <2>1, SubSlice
<1>3. IsPart(d, p, q, f, n, t, q)
  <2>1. 1 <= f /\ f <= n + 1 /\ n <= q - p /\ t = p + f - 1 /\ q = p + n
    BY <1>1
  <2> QED
    BY <1>1, <2>1, SubSlice
<1> QED
  BY <1>1, <1>2, <1>3 DEF IsPart

-----------------------------------------------------------------------------
(* The bytes that were read and those that were not, as the queue of bytes *)
(* sees them, and how each operation of the buffer changes them.           *)

Done   == Cells(0, rpos)
Todo   == Cells(rpos, wpos)
Answer == IF failed THEN <<>> ELSE got

LEMMA WorkingQueue ==
  ~failed => Done = Slice(data, 0, rpos) /\ Todo = Slice(data, rpos, wpos) /\ Answer = got
BY DEF Done, Todo, Answer, Cells, Slice

LEMMA BrokenQueue ==
  failed => Done = <<>> /\ Todo = <<>> /\ Answer = <<>>
BY DEF Done, Todo, Answer, Cells

LEMMA WorkingQueueNext ==
  ~failed' => /\ Done' = Slice(data', 0, rpos') /\ Todo' = Slice(data', rpos', wpos')
              /\ Answer' = got'
BY DEF Done, Todo, Answer, Cells, Slice

LEMMA BrokenQueueNext ==
  failed' => Done' = <<>> /\ Todo' = <<>> /\ Answer' = <<>>
BY DEF Done, Todo, Answer, Cells

LEMMA ArrayHolds == ASSUME NEW s \in Nat, NEW d \in Arrays(s) PROVE Holds(d, s)
BY DEF Arrays, Holds, Values

\* The facts about a buffer that works on which the lemmas below rest.
LEMMA WorkingBuffer ==
  ASSUME BufferInv, ~failed
  PROVE  /\ size \in Nat /\ wpos \in Nat /\ rpos \in Nat /\ rpos <= wpos /\ wpos <= size
         /\ data \in Arrays(size) /\ Holds(data, size)
<1>1. size \in Nat /\ wpos \in Nat /\ rpos \in Nat /\ rpos <= wpos /\ wpos <= size
  BY DEF BufferInv, PositionsOK, PositionsOrdered
<1>2. data \in Arrays(size)
  BY DEF BufferInv, ArrayOK
<1> QED
  BY <1>1, <1>2, ArrayHolds


LEMMA CreateOpens ==
  ASSUME NEW n \in Nat, CreateBuffer(n)
  PROVE  Queue!Open
<1>1. ~failed' /\ rpos' = 0 /\ wpos' = 0 /\ got' = <<>>
  BY DEF CreateBuffer
<1>2. Done' = <<>> /\ Todo' = <<>> /\ Answer' = <<>>
  BY <1>1, WorkingQueueNext, EmptySlice
<1> QED
  BY <1>1, <1>2 DEF CreateBuffer, Queue!Open, Queue!Clear, Done, Todo, Answer

LEMMA DeleteCloses ==
  ASSUME DeleteBuffer
  PROVE  Queue!Close
<1>1. ~failed' /\ rpos' = 0 /\ wpos' = 0 /\ got' = <<>>
  BY DEF DeleteBuffer
<1>2. Done' = <<>> /\ Todo' = <<>> /\ Answer' = <<>>
  BY <1>1, WorkingQueueNext, EmptySlice
<1> QED
  BY <1>1, <1>2 DEF DeleteBuffer, Queue!Close, Queue!Clear, Done, Todo, Answer

LEMMA GrowthFailsBreaks ==
  ASSUME exists, NEW n \in Nat, GrowthFails(n)
  PROVE  Queue!Break
<1>1. failed' /\ exists' = exists
  BY DEF GrowthFails
<1>2. Done' = <<>> /\ Todo' = <<>> /\ Answer' = <<>>
  BY <1>1, BrokenQueueNext
<1>3. exists' = TRUE /\ failed' = TRUE
  BY DEF GrowthFails
<1> QED
  BY <1>2, <1>3 DEF Queue!Break, Queue!Clear, Done, Todo, Answer

\* Once the buffer is broken, no step that keeps it broken shows.
LEMMA BrokenStutters ==
  ASSUME failed, UNCHANGED <<exists, failed>>
  PROVE  UNCHANGED <<exists, failed, Done, Todo, Answer>>
BY BrokenQueue, BrokenQueueNext

\* b is the array a, of s cells, with the bytes bs from p on.
StoredIn(b, a, s, p, bs) ==
  /\ \A k \in 0 .. s - 1 : k < p => b[k] = a[k]
  /\ \A k \in 0 .. s - 1 : k >= p + Len(bs) => b[k] = a[k]
  /\ \A k \in 0 .. s - 1 : k >= p /\ k < p + Len(bs) => b[k] = bs[k - p + 1]

LEMMA StoredCells ==
  ASSUME NEW s \in Nat, NEW a \in Arrays(s), NEW p \in Nat, NEW bs \in Seq(Octets)
  PROVE  StoredIn(Stored(a, p, bs), a, s, p, bs)
<1>1. DOMAIN a = 0 .. s - 1 /\ Len(bs) \in Nat /\ DOMAIN bs = 1 .. Len(bs)
  BY LenProperties DEF Arrays
<1>2. \A k \in 0 .. s - 1 :
        Stored(a, p, bs)[k] = IF k - p + 1 \in DOMAIN bs THEN bs[k - p + 1] ELSE a[k]
  BY <1>1 DEF Stored
<1> HIDE DEF Stored
<1>3. \A k \in 0 .. s - 1 : k - p + 1 \in DOMAIN bs <=> k >= p /\ k < p + Len(bs)
  BY <1>1
<1> QED
  BY <1>1, <1>2, <1>3 DEF StoredIn

LEMMA BytesAreValues == ASSUME NEW bs \in Seq(Octets) PROVE bs \in Seq(Values)
<1>1. Octets \subseteq Values
  BY DEF Values
<1> HIDE DEF Values
<1> QED
  BY <1>1, SeqMonotonic

LEMMA SameFront ==
  ASSUME NEW d, NEW e, NEW p \in Nat, \A k \in 0 .. p - 1 : d[k] = e[k]
  PROVE  Slice(d, 0, p) = Slice(e, 0, p)
<1>1. \A q \in Nat : q = 0 => \A k \in q .. p - 1 : d[k] = e[k]
  OBVIOUS
<1>2. \A q \in Nat : q = 0 => Slice(d, q, p) = Slice(e, q, p)
  <2> SUFFICES ASSUME NEW q \in Nat, q = 0 PROVE Slice(d, q, p) = Slice(e, q, p)
    OBVIOUS
  <2>1. \A k \in q .. p - 1 : d[k] = e[k]
    BY <1>1
  <2> QED
    BY <2>1, SameSlice
<1>3. 0 \in Nat
  OBVIOUS
<1> QED
  BY <1>2, <1>3, Zenon

\* b has the cells of a below q, then the bytes bs.
Followed(a, b, p, q, bs) ==
  /\ Slice(b, 0, p) = Slice(a, 0, p)
  /\ Slice(b, p, q + Len(bs)) = Slice(a, p, q) \o bs

\* Bytes stored behind those of array a, in the array room that replaced it.
LEMMA PutCells ==
  ASSUME NEW s \in Nat, NEW t \in Nat, s <= t, NEW a \in Arrays(s), NEW room \in Arrays(t),
         \A k \in 0 .. s - 1 : room[k] = a[k],
         NEW p \in Nat, NEW q \in Nat, p <= q, q <= s,
         NEW bs \in Seq(Octets), q + Len(bs) <= t
  PROVE  Followed(a, Stored(room, q, bs), p, q, bs)
<1> DEFINE n == Len(bs)
           b == Stored(room, q, bs)
<1>1. n \in Nat /\ q + n \in Nat /\ q <= q + n
  OBVIOUS
<1>2. b \in Arrays(t) /\ Holds(b, t)
  BY StoredType, ArrayHolds
<1>s. StoredIn(b, room, t, q, bs)
  BY StoredCells
<1>4. q + n <= t
  OBVIOUS
<1> HIDE DEF b
<1>3. /\ \A k \in 0 .. t - 1 : k < q => b[k] = room[k]
      /\ \A k \in 0 .. t - 1 : k >= q /\ k < q + n => b[k] = bs[k - q + 1]
  BY <1>s DEF StoredIn
<1> HIDE DEF n
<1>5. \A k \in 0 .. q - 1 : b[k] = a[k]
  <2>1. \A k \in 0 .. q - 1 : k \in 0 .. t - 1 /\ k \in 0 .. s - 1 /\ k < q
    OBVIOUS
  <2> QED
    BY <1>3, <2>1
<1>6. IsSlice(bs, b, q, q + n)
  <2>1. bs \in Seq(Values)
    BY BytesAreValues
  <2>2. Len(bs) = (q + n) - q
    BY <1>1 DEF n
  <2>3. ASSUME NEW k \in 1 .. (q + n) - q PROVE bs[k] = b[q + k - 1]
    <3> DEFINE m == q + k - 1
    <3>1. m \in 0 .. t - 1 /\ m >= q /\ m < q + n /\ m - q + 1 = k
      BY <1>1, <1>4
    <3> HIDE DEF m
    <3>2. b[m] = bs[k]
      BY <1>3, <3>1
    <3> QED
      BY <3>2 DEF m
  <2> QED
    BY <2>1, <2>2, <2>3 DEF IsSlice
<1>7. Slice(b, 0, p) = Slice(a, 0, p)
  <2>1. \A k \in 0 .. p - 1 : k \in 0 .. q - 1
    OBVIOUS
  <2>2. \A k \in 0 .. p - 1 : b[k] = a[k]
    BY <1>5, <2>1
  <2>3. p \in Nat
    OBVIOUS
  <2> QED
    BY <2>2, <2>3, SameFront, Zenon
<1>8. Slice(b, p, q) = Slice(a, p, q)
  <2>1. \A k \in p .. q - 1 : k \in 0 .. q - 1
    OBVIOUS
  <2>2. \A k \in p .. q - 1 : b[k] = a[k]
    BY <1>5, <2>1
  <2> QED
    BY <2>2, SameSlice
<1>9. Slice(b, p, q) \o bs = Slice(b, p, q + n)
  BY <1>1, <1>2, <1>4, <1>6, SliceThen
<1> QED
  BY <1>7, <1>8, <1>9 DEF n, b, Followed

\* The step of buffer_write that stores the bytes.
Stores(bs) ==
  /\ Resize(Len(bs))
  /\ Access(wpos .. wpos + Len(bs) - 1, Room(Len(bs)))
  /\ data' = Stored(Room(Len(bs)), wpos, bs)
  /\ wpos' = wpos + Len(bs)
  /\ got' = <<>>
  /\ UNCHANGED <<exists, rpos, failed>>

LEMMA StoresPuts ==
  ASSUME BufferInv, exists, ~failed, NEW bs \in Seq(Octets), Stores(bs)
  PROVE  Queue!Put(bs)
<1> DEFINE n == Len(bs)
           room == Room(n)
<1>1. /\ wpos \in Nat /\ rpos \in Nat /\ rpos <= wpos /\ wpos <= size /\ size \in Nat
      /\ data \in Arrays(size)
  BY WorkingBuffer
<1>2. n \in Nat
  OBVIOUS
<1>3. /\ Resize(n) /\ data' = Stored(room, wpos, bs) /\ wpos' = wpos + n
      /\ got' = <<>> /\ rpos' = rpos /\ ~failed' /\ UNCHANGED <<exists, failed>>
  BY DEF Stores
<1>4. /\ size' \in Nat /\ wpos + n <= size' /\ size <= size'
      /\ room \in Arrays(size') /\ \A k \in 0 .. size - 1 : room[k] = data[k]
  BY <1>2, <1>3, RoomProperties
<1> HIDE DEF room
<1>5. /\ Slice(data', 0, rpos) = Slice(data, 0, rpos)
      /\ Slice(data', rpos, wpos + n) = Slice(data, rpos, wpos) \o bs
  <2>1. PICK t \in Nat : t = size'
    BY <1>4
  <2>2. /\ size <= t /\ wpos + Len(bs) <= t /\ room \in Arrays(t)
        /\ \A k \in 0 .. size - 1 : room[k] = data[k]
    BY <1>4, <2>1
  <2>3. Followed(data, Stored(room, wpos, bs), rpos, wpos, bs)
    BY <1>1, <2>2, PutCells
  <2> QED
    BY <1>3, <2>3 DEF Followed
<1> HIDE DEF n
<1>6. Done' = Done /\ Todo' = Todo \o bs /\ Answer' = <<>>
  BY <1>3, <1>5, WorkingQueue, WorkingQueueNext
<1> QED
  BY <1>3, <1>6 DEF Queue!Put, Queue!Works, Done, Todo, Answer

LEMMA WriteIsPut ==
  ASSUME BufferInv, NEW bs \in Seq(Octets), Write(bs)
  PROVE  \/ Queue!Put(bs) \/ Queue!Break
         \/ UNCHANGED <<exists, failed, Done, Todo, Answer>>
<1>1. exists /\ (Stores(bs) \/ GrowthFails(Len(bs)))
  BY DEF Write, Stores
<1>2. GrowthFails(Len(bs)) => Queue!Break
  BY <1>1, GrowthFailsBreaks
<1>3. Stores(bs) /\ failed => UNCHANGED <<exists, failed, Done, Todo, Answer>>
  <2>1. Stores(bs) => UNCHANGED <<exists, failed>>
    BY DEF Stores
  <2> QED
    BY <2>1, BrokenStutters
<1>4. Stores(bs) /\ ~failed => Queue!Put(bs)
  BY <1>1, StoresPuts
<1> QED
  BY <1>1, <1>2, <1>3, <1>4

LEMMA ReadIsTake ==
  ASSUME BufferInv, NEW n \in Nat, Read(n)
  PROVE  \/ Queue!Take(n)
         \/ UNCHANGED <<exists, failed, Done, Todo, Answer>>
<1>1. exists /\ UNCHANGED <<exists, failed, data, size, wpos>>
  BY DEF Read
<1>2. CASE failed
  BY <1>1, <1>2, BrokenStutters
<1>3. CASE ~failed
  <2> DEFINE m == IF n > wpos - rpos THEN wpos - rpos ELSE n
             l == IF n < Len(Todo) THEN n ELSE Len(Todo)
  <2>1. /\ size \in Nat /\ wpos \in Nat /\ rpos \in Nat /\ rpos <= wpos /\ wpos <= size
        /\ Holds(data, size)
    BY <1>3, WorkingBuffer
  <2>2. data # Null \/ m = 0
    <3>1. CASE wpos = rpos
      BY <2>1, <3>1
    <3>2. CASE wpos # rpos
      <4>1. 0 \in 0 .. size - 1
        BY <2>1, <3>2
      <4>2. data \in Arrays(size)
        BY <1>3, WorkingBuffer
      <4> QED
        BY <4>1, <4>2 DEF Null, Arrays
    <3> QED
      BY <3>1, <3>2
  <2>3. /\ m \in Nat /\ rpos + m <= wpos /\ rpos + m \in Nat /\ m <= wpos - rpos
        /\ 0 <= m /\ wpos - rpos \in Nat /\ wpos - rpos <= wpos - rpos
    BY <2>1
  <2>4. /\ got' = [k \in 1 .. m |-> IF data = Null THEN Unset ELSE data[rpos + k - 1]]
        /\ rpos' = rpos + m
    BY DEF Read
  <2>5. IsSlice(Slice(data, rpos, wpos), data, rpos, wpos)
    BY <2>1, SliceIsSeq
  <2>6. l = m /\ Len(Todo) = wpos - rpos
    BY <1>3, <2>1, <2>5, WorkingQueue DEF IsSlice
  <2> HIDE DEF m, l
  <2>7. got' = Slice(data, rpos, rpos + m)
    <3>1. (rpos + m) - rpos = m
      BY <2>1, <2>3
    <3>2. got' = [k \in 1 .. m |-> data[rpos + k - 1]]
      BY <2>2, <2>3, <2>4
    <3> QED
      BY <3>1, <3>2 DEF Slice
  <2>8. Slice(data, 0, rpos) \o Slice(data, rpos, rpos + m) = Slice(data, 0, rpos + m)
    <3>1. 0 <= rpos /\ rpos <= rpos + m /\ rpos + m <= size
      BY <2>1, <2>3
    <3> QED
      BY <2>1, <2>3, <3>1, SlicesConcat
  <2>9. PICK r \in Nat : r = rpos + m
    BY <2>3
  <2>10. /\ SubSeq(Slice(data, rpos, wpos), 1, m) = Slice(data, rpos, rpos + m)
         /\ SubSeq(Slice(data, rpos, wpos), m + 1, wpos - rpos) = Slice(data, rpos + m, wpos)
    <3>1. rpos <= r /\ r <= wpos /\ r - rpos = m
      BY <2>1, <2>3, <2>9
    <3>2. /\ SubSeq(Slice(data, rpos, wpos), 1, r - rpos) = Slice(data, rpos, r)
          /\ SubSeq(Slice(data, rpos, wpos), r - rpos + 1, wpos - rpos) = Slice(data, r, wpos)
      BY <2>1, <3>1, SplitSlice, SMTT(30)
    <3> QED
      BY <2>9, <3>1, <3>2
  <2>11. /\ Done = Slice(data, 0, rpos) /\ Todo = Slice(data, rpos, wpos)
         /\ Done' = Slice(data, 0, rpos + m) /\ Todo' = Slice(data, rpos + m, wpos)
         /\ Answer' = got'
    BY <1>1, <1>3, <2>4, WorkingQueue, WorkingQueueNext
  <2>12. /\ Answer' = SubSeq(Todo, 1, m)
         /\ Todo' = SubSeq(Todo, m + 1, Len(Todo))
         /\ Done' = Done \o Answer'
    BY <2>6, <2>7, <2>8, <2>10, <2>11
  <2>13. Queue!Take(n)
    <3>1. /\ Answer' = SubSeq(Todo, 1, l)
          /\ Todo' = SubSeq(Todo, l + 1, Len(Todo))
      BY <2>6, <2>12
    <3> QED
      BY <1>1, <1>3, <2>12, <3>1 DEF Queue!Take, Queue!Works, Done, Todo, Answer, l
  <2> QED
    BY <2>13
<1> QED
  BY <1>2, <1>3

\* The array b that holds c at position p, and then what a holds from q on.
Preceded(a, b, p, q, w, v, c) == Slice(b, p, v) = <<c>> \o Slice(a, q, w)

LEMMA PushedCells ==
  ASSUME NEW s \in Nat, NEW a, Holds(a, s), NEW t \in Nat, NEW b, Holds(b, t),
         NEW p \in Nat, NEW q \in Nat, NEW w \in Nat, NEW v \in Nat, q <= w, w <= s, v <= t,
         v - p = w - q + 1, NEW c \in Values,
         b[p] = c, \A k \in 1 .. w - q : b[p + k] = a[q + k - 1]
  PROVE  Preceded(a, b, p, q, w, v, c)
<1>1. PICK f \in Nat : f = p + 1 /\ p <= f /\ f <= v
  OBVIOUS
<1>2. IsSlice(<<c>>, b, p, f)
  <2>1. <<c>> \in Seq(Values) /\ Len(<<c>>) = 1 /\ <<c>>[1] = c
    OBVIOUS
  <2>2. f - p = 1 /\ \A k \in 1 .. 1 : k = 1 /\ p + k - 1 = p
    BY <1>1
  <2> QED
    BY <2>1, <2>2 DEF IsSlice
<1>3. Slice(b, p, f) = <<c>>
  <2>1. IsSlice(Slice(b, p, f), b, p, f)
    BY <1>1, SliceIsSeq
  <2>2. /\ Slice(b, p, f) \in Seq(Values) /\ <<c>> \in Seq(Values)
        /\ Len(Slice(b, p, f)) = Len(<<c>>)
        /\ \A k \in 1 .. Len(Slice(b, p, f)) : Slice(b, p, f)[k] = <<c>>[k]
    BY <1>2, <2>1 DEF IsSlice
  <2> QED
    BY <2>2, SeqEqual, Zenon
<1>4. Slice(b, f, v) = Slice(a, q, w)
  <2>1. IsSlice(Slice(b, f, v), b, f, v) /\ IsSlice(Slice(a, q, w), a, q, w)
    BY <1>1, SliceIsSeq
  <2>2. v - f = w - q /\ w - q \in Nat
    BY <1>1
  <2>3. \A k \in 1 .. w - q : f + k - 1 = p + k
    BY <1>1
  <2>4. /\ Slice(b, f, v) \in Seq(Values) /\ Slice(a, q, w) \in Seq(Values)
        /\ Len(Slice(b, f, v)) = w - q /\ Len(Slice(a, q, w)) = w - q
    BY <2>1, <2>2 DEF IsSlice
  <2>5. ASSUME NEW k \in 1 .. w - q PROVE Slice(b, f, v)[k] = Slice(a, q, w)[k]
    <3>1. Slice(b, f, v)[k] = b[p + k]
      BY <2>1, <2>2, <2>3 DEF IsSlice
    <3>2. Slice(a, q, w)[k] = a[q + k - 1]
      BY <2>1 DEF IsSlice
    <3> QED
      BY <3>1, <3>2
  <2>6. /\ Len(Slice(b, f, v)) = Len(Slice(a, q, w))
        /\ \A k \in 1 .. Len(Slice(b, f, v)) : Slice(b, f, v)[k] = Slice(a, q, w)[k]
    BY <2>4, <2>5
  <2> QED
    BY <2>4, <2>6, SeqEqual, Zenon
<1>5. Slice(b, p, f) \o Slice(b, f, v) = Slice(b, p, v)
  <2>1. f \in Nat /\ p <= f /\ f <= v /\ v <= t
    BY <1>1
  <2>2. IsSlice(Slice(b, f, v), b, f, v)
    BY <2>1, SliceIsSeq
  <2> QED
    BY <2>1, <2>2, SliceThen
<1> QED
  BY <1>3, <1>4, <1>5 DEF Preceded

\* The two steps of buffer_ungetc that succeed.
PutsOver(c) ==
  /\ rpos > 0
  /\ Access({rpos - 1}, data)
  /\ data' = Stored(data, rpos - 1, <<c>>)
  /\ rpos' = rpos - 1
  /\ got' = <<>>
  /\ UNCHANGED <<exists, size, wpos, failed>>

Shifts(c) ==
  /\ rpos = 0
  /\ wpos < MaxLength
  /\ Resize(1)
  /\ Access(0 .. wpos, Room(1))
  /\ data' = [k \in DOMAIN Room(1) |->
                IF k = 0 THEN c
                ELSE IF k <= wpos THEN Room(1)[k - 1] ELSE Room(1)[k]]
  /\ wpos' = wpos + 1
  /\ got' = <<>>
  /\ UNCHANGED <<exists, rpos, failed>>

LEMMA PutsOverPushesBack ==
  ASSUME BufferInv, exists, ~failed, NEW c \in Octets, PutsOver(c)
  PROVE  Queue!PushBack(c)
<1>1. /\ wpos \in Nat /\ rpos \in Nat /\ rpos <= wpos /\ wpos <= size /\ size \in Nat
      /\ data \in Arrays(size) /\ Holds(data, size)
  BY WorkingBuffer
<1>2. PICK p \in Nat : p = rpos - 1 /\ rpos = p + 1
  BY <1>1 DEF PutsOver
<1>3. PICK b : b = Stored(data, p, <<c>>)
  OBVIOUS
<1>4. /\ data' = b /\ rpos' = p /\ wpos' = wpos /\ got' = <<>>
      /\ ~failed' /\ UNCHANGED <<exists, failed>>
  BY <1>2, <1>3 DEF PutsOver
<1>5. <<c>> \in Seq(Octets) /\ Len(<<c>>) = 1 /\ <<c>>[1] = c
  OBVIOUS
<1>6. Holds(b, size)
  BY <1>1, <1>3, <1>5, StoredType, ArrayHolds
<1>7. PICK bs \in Seq(Octets) : bs = <<c>>
  BY <1>5
<1>b. /\ \A k \in 0 .. size - 1 : k < p => b[k] = data[k]
      /\ \A k \in 0 .. size - 1 : k >= p + 1 => b[k] = data[k]
      /\ \A k \in 0 .. size - 1 : k >= p /\ k < p + 1 => b[k] = bs[k - p + 1]
  <2>1. StoredIn(b, data, size, p, bs)
    BY <1>1, <1>3, <1>7, StoredCells
  <2> QED
    BY <1>5, <1>7, <2>1 DEF StoredIn
<1>a. p \in 0 .. size - 1 /\ p >= p /\ p < p + 1 /\ p - p + 1 = 1
  BY <1>1, <1>2
<1>8. b[p] = c
  BY <1>5, <1>7, <1>b, <1>a
<1>9. \A k \in 1 .. wpos - rpos : b[p + k] = data[rpos + k - 1]
  <2> SUFFICES ASSUME NEW k \in 1 .. wpos - rpos PROVE b[p + k] = data[rpos + k - 1]
    OBVIOUS
  <2>1. p + k \in 0 .. size - 1 /\ p + k >= p + 1 /\ p + k = rpos + k - 1
    BY <1>1, <1>2
  <2> QED
    BY <1>b, <2>1
<1>10. Slice(b, p, wpos) = <<c>> \o Slice(data, rpos, wpos)
  <2>1. wpos - p = wpos - rpos + 1 /\ c \in Values
    BY <1>1, <1>2 DEF Values
  <2>2. Preceded(data, b, p, rpos, wpos, wpos, c)
    BY <1>1, <1>6, <1>8, <1>9, <2>1, PushedCells
  <2> QED
    BY <2>2 DEF Preceded
<1>11. Slice(b, 0, p) = SubSeq(Done, 1, Len(Done) - 1) /\ Done # <<>>
  <2>1. PICK z \in Nat : z = 0 /\ z <= rpos /\ z <= p /\ p <= rpos /\ rpos <= size
    BY <1>1, <1>2
  <2>2. Slice(b, z, p) = Slice(data, z, p)
    <3>1. \A k \in z .. p - 1 : k \in 0 .. size - 1 /\ k < p
      BY <1>1, <1>2, <2>1
    <3>2. \A k \in z .. p - 1 : b[k] = data[k]
      BY <1>b, <3>1
    <3> QED
      BY <2>1, <3>2, SameSlice
  <2>3. SubSeq(Slice(data, z, rpos), 1, p - z) = Slice(data, z, p)
    BY <1>1, <2>1, SplitSlice
  <2>4. IsSlice(Slice(data, z, rpos), data, z, rpos)
    BY <1>1, <2>1, SliceIsSeq
  <2>5. Done = Slice(data, z, rpos)
    BY <2>1, WorkingQueue
  <2>6. Len(Done) = rpos /\ Done \in Seq(Values) /\ Len(Done) - 1 = p - z
    <3>1. rpos - z = rpos /\ rpos - 1 = p - z
      BY <1>1, <1>2, <2>1
    <3> QED
      BY <2>4, <2>5, <3>1 DEF IsSlice
  <2>7. Done # <<>>
    BY <1>1, <1>2, <2>6, EmptySeq
  <2> QED
    BY <2>1, <2>2, <2>3, <2>5, <2>6, <2>7
<1>12. Todo' = <<c>> \o Todo /\ Done' = SubSeq(Done, 1, Len(Done) - 1) /\ Answer' = <<>>
  BY <1>4, <1>10, <1>11, WorkingQueue, WorkingQueueNext
<1> QED
  BY <1>4, <1>11, <1>12 DEF Queue!PushBack, Queue!Works, Done, Todo, Answer

LEMMA ShiftsPushesBack ==
  ASSUME BufferInv, exists, ~failed, NEW c \in Octets, Shifts(c)
  PROVE  Queue!PushBack(c)
<1> DEFINE room == Room(1)
<1>1. /\ wpos \in Nat /\ wpos <= size /\ size \in Nat
      /\ data \in Arrays(size) /\ Holds(data, size)
  BY WorkingBuffer
<1>2. /\ Resize(1) /\ wpos' = wpos + 1 /\ got' = <<>> /\ rpos = 0 /\ rpos' = 0
      /\ ~failed' /\ UNCHANGED <<exists, failed>>
  BY DEF Shifts
<1>3. PICK b : b = [k \in DOMAIN room |->
                      IF k = 0 THEN c ELSE IF k <= wpos THEN room[k - 1] ELSE room[k]]
  OBVIOUS
<1>4. data' = b
  BY <1>3 DEF Shifts
<1>5. PICK t \in Nat : /\ t = size' /\ wpos + 1 <= t /\ size <= t
                       /\ room \in Arrays(t) /\ \A k \in 0 .. size - 1 : room[k] = data[k]
  BY <1>2, RoomProperties
<1>a. wpos \in Nat /\ wpos <= size /\ size \in Nat /\ wpos + 1 <= t /\ size <= t
  BY <1>1, <1>5
<1> HIDE DEF room
<1>6. \A k \in 0 .. t - 1 :
        b[k] = IF k = 0 THEN c ELSE IF k <= wpos THEN room[k - 1] ELSE room[k]
  BY <1>3, <1>5 DEF Arrays
<1>7. Holds(b, t)
  <2>1. \A k \in 0 .. t - 1 : room[k] \in Values
    BY <1>5, ArrayHolds DEF Holds
  <2>2. \A k \in 0 .. t - 1 : k = 0 \/ k - 1 \in 0 .. t - 1
    BY <1>1, <1>5, ShiftedIndices
  <2>3. c \in Values
    BY DEF Values
  <2> QED
    BY <1>6, <2>1, <2>2, <2>3 DEF Holds
<1>8. PICK z \in Nat : z = 0 /\ z + 1 = 1 /\ z <= wpos
  BY <1>1
<1>9. b[z] = c
  <2>1. z \in 0 .. t - 1
    BY <1>a, <1>8
  <2> QED
    BY <1>6, <1>8, <2>1
<1>10. \A k \in 1 .. wpos - z : b[z + k] = data[z + k - 1]
  <2> SUFFICES ASSUME NEW k \in 1 .. wpos PROVE b[k] = data[k - 1]
    BY <1>1, <1>8
  <2>1. k \in 0 .. t - 1 /\ k # 0 /\ k <= wpos /\ k - 1 \in 0 .. size - 1
    BY <1>a
  <2>2. b[k] = room[k - 1]
    BY <1>6, <2>1
  <2> QED
    BY <1>5, <2>1, <2>2
<1>11. Slice(b, z, wpos + 1) = <<c>> \o Slice(data, z, wpos)
  <2>1. PICK v \in Nat : v = wpos + 1 /\ v <= t /\ v - z = wpos - z + 1
    BY <1>1, <1>5, <1>8
  <2>2. c \in Values
    BY DEF Values
  <2>3. Preceded(data, b, z, z, wpos, v, c)
    BY <1>1, <1>7, <1>8, <1>9, <1>10, <2>1, <2>2, PushedCells
  <2> QED
    BY <2>1, <2>3 DEF Preceded
<1>12. Done = <<>> /\ Done' = <<>>
  BY <1>2, <1>8, EmptySlice, WorkingQueue, WorkingQueueNext
<1>13. Todo' = <<c>> \o Todo /\ Answer' = <<>>
  BY <1>2, <1>4, <1>8, <1>11, WorkingQueue, WorkingQueueNext
<1> QED
  BY <1>2, <1>12, <1>13 DEF Queue!PushBack, Queue!Works, Done, Todo, Answer

LEMMA UngetcIsPushBack ==
  ASSUME BufferInv, NEW c \in Octets, Ungetc(c)
  PROVE  \/ Queue!PushBack(c) \/ Queue!Break
         \/ UNCHANGED <<exists, failed, Done, Todo, Answer>>
<1>1. exists /\ (PutsOver(c) \/ Shifts(c) \/ GrowthFails(1))
  BY DEF Ungetc, PutsOver, Shifts
<1>2. GrowthFails(1) => Queue!Break
  <2>1. PICK n \in Nat : n = 1
    OBVIOUS
  <2>2. GrowthFails(n) => Queue!Break
    BY <1>1, GrowthFailsBreaks
  <2> QED
    BY <2>1, <2>2
<1>3. (PutsOver(c) \/ Shifts(c)) /\ failed => UNCHANGED <<exists, failed, Done, Todo, Answer>>
  <2>1. PutsOver(c) \/ Shifts(c) => UNCHANGED <<exists, failed>>
    BY DEF PutsOver, Shifts
  <2> QED
    BY <2>1, BrokenStutters
<1>4. (PutsOver(c) \/ Shifts(c)) /\ ~failed => Queue!PushBack(c)
  BY <1>1, PutsOverPushesBack, ShiftsPushesBack
<1> QED
  BY <1>1, <1>2, <1>3, <1>4

LEMMA RewindIsRewind ==
  ASSUME BufferInv, Rewind
  PROVE  \/ Queue!Rewind
         \/ UNCHANGED <<exists, failed, Done, Todo, Answer>>
<1>1. /\ exists /\ rpos' = 0 /\ got' = <<>>
      /\ UNCHANGED <<exists, failed, data, size, wpos>>
  BY DEF Rewind
<1>2. CASE failed
  BY <1>1, <1>2, BrokenStutters
<1>3. CASE ~failed
  <2>1. /\ wpos \in Nat /\ rpos \in Nat /\ rpos <= wpos /\ wpos <= size /\ size \in Nat
        /\ Holds(data, size)
    BY <1>3, WorkingBuffer
  <2>2. PICK z \in Nat : z = 0 /\ z <= rpos
    BY <2>1
  <2>3. Slice(data, z, rpos) \o Slice(data, rpos, wpos) = Slice(data, z, wpos)
    BY <2>1, <2>2, SlicesConcat
  <2>4. Slice(data, z, z) = <<>>
    BY EmptySlice
  <2>5. Todo' = Done \o Todo /\ Done' = <<>> /\ Answer' = <<>>
    BY <1>1, <1>3, <2>2, <2>3, <2>4, WorkingQueue, WorkingQueueNext
  <2> QED
    BY <1>1, <1>3, <2>5 DEF Queue!Rewind, Queue!Works, Done, Todo, Answer
<1> QED
  BY <1>2, <1>3

LEMMA ResetIsReset ==
  ASSUME Reset
  PROVE  \/ Queue!Reset
         \/ UNCHANGED <<exists, failed, Done, Todo, Answer>>
<1>1. exists /\ rpos' = 0 /\ wpos' = 0 /\ got' = <<>> /\ UNCHANGED <<exists, failed>>
  BY DEF Reset
<1>2. CASE failed
  BY <1>1, <1>2, BrokenStutters
<1>3. CASE ~failed
  <2>1. PICK z \in Nat : z = 0
    OBVIOUS
  <2>2. Slice(data', z, z) = <<>>
    BY EmptySlice
  <2>3. Todo' = <<>> /\ Done' = <<>> /\ Answer' = <<>>
    BY <1>1, <1>3, <2>1, <2>2, WorkingQueueNext
  <2> QED
    BY <1>1, <1>3, <2>3 DEF Queue!Reset, Queue!Works, Queue!Clear, Done, Todo, Answer
<1> QED
  BY <1>2, <1>3

(***************************************************************************)
(* Whatever the bytes, the sizes and the order of the operations, a BUFFER *)
(* is a queue of bytes with push-back and rewind until a realloc() fails:  *)
(* growth, shifts and positions never change, drop or repeat a byte.       *)
(***************************************************************************)
THEOREM BufferIsByteQueue == BufferSpec => IsByteQueue
<1>1. BufferInit => Queue!Init
  <2> SUFFICES ASSUME BufferInit PROVE Queue!Init
    OBVIOUS
  <2>1. ~failed /\ ~exists /\ rpos = 0 /\ wpos = 0 /\ got = <<>> /\ exists = FALSE /\ failed = FALSE
    BY DEF BufferInit
  <2>2. Done = <<>> /\ Todo = <<>> /\ Answer = <<>>
    BY <2>1, EmptySlice, WorkingQueue
  <2> QED
    BY <2>1, <2>2 DEF Queue!Init, Done, Todo, Answer
<1>2. BufferInv /\ [BufferNext]_bufferVars => [Queue!Next]_(Queue!vars)
  <2> SUFFICES ASSUME BufferInv, [BufferNext]_bufferVars
               PROVE  Queue!Next \/ UNCHANGED <<exists, failed, Done, Todo, Answer>>
    BY DEF Queue!vars, Done, Todo, Answer
  <2>1. ASSUME NEW n \in 0 .. MaxSize, CreateBuffer(n) PROVE Queue!Next
    <3>1. n \in Nat
      OBVIOUS
    <3> QED
      BY <2>1, <3>1, CreateOpens DEF Queue!Next
  <2>2. CASE DeleteBuffer
    BY <2>2, DeleteCloses DEF Queue!Next
  <2>3. ASSUME NEW bs \in Writes \cup {<<c>> : c \in Octets}, Write(bs)
        PROVE  Queue!Next \/ UNCHANGED <<exists, failed, Done, Todo, Answer>>
    <3>1. bs \in Seq(Octets)
      <4>1. CASE bs \in Writes
        BY <4>1, WriteAssumption DEF Writes
      <4>2. CASE \E c \in Octets : bs = <<c>>
        BY <4>2
      <4> QED
        BY <4>1, <4>2
    <3>2. Queue!Put(bs) => Queue!Next
      BY DEF Queue!Next
    <3>3. Queue!Break => Queue!Next
      BY DEF Queue!Next
    <3> QED
      BY <2>3, <3>1, <3>2, <3>3, WriteIsPut
  <2>4. ASSUME NEW c \in Octets, Putc(c)
        PROVE  Queue!Next \/ UNCHANGED <<exists, failed, Done, Todo, Answer>>
    BY <2>3, <2>4 DEF Putc
  <2>5. ASSUME NEW c \in Octets, Ungetc(c)
        PROVE  Queue!Next \/ UNCHANGED <<exists, failed, Done, Todo, Answer>>
    <3>1. Queue!PushBack(c) => Queue!Next
      BY DEF Queue!Next
    <3>2. Queue!Break => Queue!Next
      BY DEF Queue!Next
    <3> QED
      BY <2>5, <3>1, <3>2, UngetcIsPushBack
  <2>6. ASSUME NEW n \in (0 .. MaxWrite) \cup {1}, Read(n)
        PROVE  Queue!Next \/ UNCHANGED <<exists, failed, Done, Todo, Answer>>
    <3>1. n \in Nat
      BY WriteAssumption
    <3>2. Queue!Take(n) => Queue!Next
      BY DEF Queue!Next
    <3> QED
      BY <2>6, <3>1, <3>2, ReadIsTake
  <2>7. CASE Getc
    BY <2>6, <2>7 DEF Getc
  <2>8. CASE Rewind
    BY <2>8, RewindIsRewind DEF Queue!Next
  <2>9. CASE Reset
    BY <2>9, ResetIsReset DEF Queue!Next
  <2>10. CASE UNCHANGED bufferVars
    BY <2>10 DEF bufferVars, positions, Done, Todo, Answer, Cells
  <2> QED
    BY <2>1, <2>2, <2>3, <2>4, <2>5, <2>6, <2>7, <2>8, <2>9, <2>10 DEF BufferNext
<1> QED
  BY <1>1, <1>2, BufferInvariant, PTL DEF BufferSpec, IsByteQueue, Queue!Spec
=============================================================================
