------------------------------- MODULE Buffer -------------------------------
(***************************************************************************)
(* The memory buffer of src/util/buffer.c that libcurl, base64 and Hessian *)
(* write to and read from: one array that grows, a write and a read        *)
(* position.  A failed realloc() frees the array and leaves the size and   *)
(* the positions as they are.  An operation on a NULL buffer changes       *)
(* nothing; a creation that fails leaves no buffer.                        *)
(***************************************************************************)
EXTENDS Integers, Sequences

CONSTANTS
  Octets,
  Unset,       \* content of memory nobody has written to
  InitialSize, \* BUFFER_INITIAL_SIZE
  MaxSize,     \* bound: largest size asked for at creation
  MaxWrite,    \* bound: bytes of one buffer_write or buffer_read
  MaxLength    \* bound: bytes in the buffer

ASSUME UnsetAssumption == Unset \notin Octets
ASSUME SizeAssumption  == InitialSize \in Nat /\ MaxSize \in Nat
ASSUME WriteAssumption == MaxWrite \in Nat /\ MaxLength \in Nat

VARIABLES
  exists,  \* is there a buffer?
  data,    \* the array: the cells that can be accessed; none when data is NULL
  size,
  wpos,
  rpos,
  got,     \* the bytes the last read returned
  failed,  \* has a realloc() failed in the life of this buffer?
  stray    \* has a cell of this buffer been accessed that is not there?

positions == <<size, wpos, rpos>>
bufferVars == <<exists, data, positions, got, failed, stray>>

Null == [k \in {} |-> Unset]
Arrays(n) == [0 .. n - 1 -> Octets \cup {Unset}]
Writes == UNION {[1 .. n -> Octets] : n \in 0 .. MaxWrite}

TypeOK ==
  /\ exists \in BOOLEAN
  /\ size \in Nat /\ wpos \in Nat /\ rpos \in Nat
  /\ data \in {Null} \cup Arrays(size)
  /\ got \in Seq(Octets \cup {Unset})
  /\ failed \in BOOLEAN
  /\ stray \in BOOLEAN

BufferInit ==
  /\ exists = FALSE
  /\ data = Null
  /\ size = 0 /\ wpos = 0 /\ rpos = 0
  /\ got = <<>>
  /\ failed = FALSE
  /\ stray = FALSE

-----------------------------------------------------------------------------
\* buffer_create(n): at least two bytes.  calloc() zeroes them; nobody can
\* read a byte before it is written, so what they hold does not matter.
CreateBuffer(n) ==
  /\ ~exists
  /\ exists' = TRUE
  /\ size' = IF n < 2 THEN InitialSize ELSE n
  /\ data' = [k \in 0 .. size' - 1 |-> Unset]
  /\ wpos' = 0
  /\ rpos' = 0
  /\ got' = <<>>
  /\ failed' = FALSE
  /\ stray' = FALSE

DeleteBuffer ==
  /\ exists
  /\ exists' = FALSE
  /\ data' = Null
  /\ size' = 0 /\ wpos' = 0 /\ rpos' = 0
  /\ got' = <<>>
  /\ failed' = FALSE
  /\ stray' = FALSE

-----------------------------------------------------------------------------
(* buffer_ensure_capacity, called by everything that adds n bytes.         *)

Fits(n) == n <= size - wpos

\* Mutant of NewSize: the policy alone decides, however many bytes are needed.
NewSize_PolicyOnly(n) == size + (size \div 2) + 1

\* the larger of the size that is needed and of the increase policy's
NewSize(n) ==
  LET needed == size + (n - (size - wpos))
      policy == size + (size \div 2) + 1
  IN  IF policy > needed THEN policy ELSE needed

\* the array after n more bytes have been made room for
Room(n) ==
  IF Fits(n) THEN data
  ELSE [k \in 0 .. NewSize(n) - 1 |-> IF k \in DOMAIN data THEN data[k] ELSE Unset]

GrowthFails(n) ==
  /\ ~Fits(n)
  /\ data' = Null
  /\ failed' = TRUE
  /\ got' = <<>>
  /\ UNCHANGED <<exists, positions, stray>>

\* size follows the array that Room(n) returned
Resize(n) == size' = IF Fits(n) THEN size ELSE NewSize(n)

Access(cells, array) == stray' = (stray \/ ~(cells \subseteq DOMAIN array))

\* array with the bytes bs stored from position p on
Stored(array, p, bs) ==
  [k \in DOMAIN array |-> IF k - p + 1 \in DOMAIN bs THEN bs[k - p + 1] ELSE array[k]]

-----------------------------------------------------------------------------
\* buffer_write
Write(bs) ==
  /\ exists
  /\ wpos + Len(bs) <= MaxLength
  /\ \/ /\ Resize(Len(bs))
        /\ Access(wpos .. wpos + Len(bs) - 1, Room(Len(bs)))
        /\ data' = Stored(Room(Len(bs)), wpos, bs)
        /\ wpos' = wpos + Len(bs)
        /\ got' = <<>>
        /\ UNCHANGED <<exists, rpos, failed>>
     \/ GrowthFails(Len(bs))

\* buffer_putc: one byte, stored the same way
Putc(c) == Write(<<c>>)

\* buffer_read: never more than what is unread
Read(n) ==
  /\ exists
  /\ LET m == IF n > wpos - rpos THEN wpos - rpos ELSE n
     IN  /\ Access(rpos .. rpos + m - 1, data)
         /\ got' = [k \in 1 .. m |-> IF data = Null THEN Unset ELSE data[rpos + k - 1]]
         /\ rpos' = rpos + m
  /\ UNCHANGED <<exists, data, size, wpos, failed>>

\* buffer_getc: one byte, or BUFFER_EOF
Getc == Read(1)

\* Mutant of Ungetc: at the start of the buffer the first byte is overwritten.
Ungetc_NoShift(c) ==
  /\ exists
  /\ LET p == IF rpos = 0 THEN 0 ELSE rpos - 1
     IN  data' = Stored(data, p, <<c>>) /\ rpos' = p
  /\ got' = <<>>
  /\ UNCHANGED <<exists, size, wpos, failed, stray>>

\* buffer_ungetc: over the byte read last, or in front of all bytes, which
\* are first shifted by one
Ungetc(c) ==
  /\ exists
  /\ \/ /\ rpos > 0
        /\ Access({rpos - 1}, data)
        /\ data' = Stored(data, rpos - 1, <<c>>)
        /\ rpos' = rpos - 1
        /\ got' = <<>>
        /\ UNCHANGED <<exists, size, wpos, failed>>
     \/ /\ rpos = 0
        /\ wpos < MaxLength
        /\ Resize(1)
        /\ Access(0 .. wpos, Room(1))
        /\ data' = [k \in DOMAIN Room(1) |->
                      IF k = 0 THEN c
                      ELSE IF k <= wpos THEN Room(1)[k - 1] ELSE Room(1)[k]]
        /\ wpos' = wpos + 1
        /\ got' = <<>>
        /\ UNCHANGED <<exists, rpos, failed>>
     \/ rpos = 0 /\ wpos < MaxLength /\ GrowthFails(1)

\* buffer_rewind
Rewind ==
  /\ exists
  /\ rpos' = 0
  /\ got' = <<>>
  /\ UNCHANGED <<exists, data, size, wpos, failed, stray>>

\* buffer_reset, which also clears all bytes the size promises
Reset ==
  /\ exists
  /\ Access(0 .. size - 1, data)
  /\ data' = [k \in DOMAIN data |-> Unset]
  /\ rpos' = 0
  /\ wpos' = 0
  /\ got' = <<>>
  /\ UNCHANGED <<exists, size, failed>>

BufferNext ==
  \/ \E n \in 0 .. MaxSize : CreateBuffer(n)
  \/ DeleteBuffer
  \/ \E bs \in Writes : Write(bs)
  \/ \E c \in Octets : Putc(c) \/ Ungetc(c)
  \/ \E n \in 0 .. MaxWrite : Read(n)
  \/ Getc
  \/ Rewind
  \/ Reset

BufferSpec == BufferInit /\ [][BufferNext]_bufferVars

-----------------------------------------------------------------------------
(***************************************************************************)
(* The subtractions size - wpos and wpos - rpos, of unsigned numbers in    *)
(* the code, never wrap, whatever operations come together.                *)
(***************************************************************************)
PositionsOrdered == rpos <= wpos /\ wpos <= size

(***************************************************************************)
(* As long as no realloc() failed, no operation leaves the array, however  *)
(* writes, growth, push-back and shifts by one follow each other.          *)
(***************************************************************************)
InBounds == stray => failed

Cells(first, last) ==
  IF failed THEN <<>> ELSE [k \in 1 .. last - first |-> data[first + k - 1]]

Queue == INSTANCE ByteQueue WITH
  Bytes  <- Octets,
  open   <- exists,
  Chunks <- Writes \cup {<<c>> : c \in Octets},
  Counts <- (0 .. MaxWrite) \cup {1},
  broken <- failed,
  done   <- Cells(0, rpos),
  todo   <- Cells(rpos, wpos),
  got    <- IF failed THEN <<>> ELSE got

(***************************************************************************)
(* The buffer is a queue of bytes with push-back and rewind (ByteQueue)    *)
(* until it runs out of memory.                                            *)
(***************************************************************************)
IsByteQueue == Queue!Spec
=============================================================================
