----------------------------- MODULE ByteQueue -----------------------------
(***************************************************************************)
(* What a BUFFER promises as long as its memory holds: bytes come out in   *)
(* the order they were put in, a byte pushed back comes out next, rewind   *)
(* makes every byte since the last reset readable again.                   *)
(***************************************************************************)
EXTENDS Naturals, Sequences

CONSTANTS
  Bytes,
  Chunks,  \* the sequences of bytes that are put in at once
  Counts   \* the numbers of bytes that are asked for at once

VARIABLES
  open,    \* is there a buffer?
  broken,  \* has it run out of memory?  Then nothing is promised any more.
  done,    \* the bytes that have been read
  todo,    \* the bytes that have not
  got      \* what the last read returned

vars == <<open, broken, done, todo, got>>

Init == open = FALSE /\ broken = FALSE /\ done = <<>> /\ todo = <<>> /\ got = <<>>

Clear == done' = <<>> /\ todo' = <<>> /\ got' = <<>>

Open  == ~open /\ open' = TRUE /\ broken' = FALSE /\ Clear
Close == open /\ open' = FALSE /\ broken' = FALSE /\ Clear
Break == open /\ open' = TRUE /\ broken' = TRUE /\ Clear

Works == open /\ ~broken /\ UNCHANGED <<open, broken>>

Put(bs) ==
  /\ Works
  /\ todo' = todo \o bs
  /\ got' = <<>>
  /\ UNCHANGED done

\* up to n bytes, fewer only if there are fewer
Take(n) ==
  /\ Works
  /\ LET m == IF n < Len(todo) THEN n ELSE Len(todo)
     IN  /\ got'  = SubSeq(todo, 1, m)
         /\ todo' = SubSeq(todo, m + 1, Len(todo))
  /\ done' = done \o got'

\* The byte read last is replaced by c, which becomes the next to read; before
\* anything was read, c goes in front.
PushBack(c) ==
  /\ Works
  /\ todo' = <<c>> \o todo
  /\ done' = IF done = <<>> THEN <<>> ELSE SubSeq(done, 1, Len(done) - 1)
  /\ got' = <<>>

Rewind ==
  /\ Works
  /\ todo' = done \o todo
  /\ done' = <<>>
  /\ got' = <<>>

Reset == Works /\ Clear

Next ==
  \/ Open \/ Close \/ Break
  \/ \E bs \in Chunks : Put(bs)
  \/ \E n \in Counts : Take(n)
  \/ \E c \in Bytes : PushBack(c)
  \/ Rewind \/ Reset

Spec == Init /\ [][Next]_vars
=============================================================================
