---------------------------- MODULE ElementList ----------------------------
(***************************************************************************)
(* What a linkedlist_t promises: a sequence that grows at its end, any     *)
(* element of which can be looked up or taken out, and whose elements can  *)
(* be deleted, each of them once however often it was added.               *)
(***************************************************************************)
EXTENDS Integers, Sequences

CONSTANTS
  Elements,
  NULL,
  Indices   \* the indices asked for, some of them out of range

OK == 0      \* LLIST_OK
ERROR == -1  \* LLIST_ERROR

VARIABLES
  open,      \* is there a list?
  crashed,   \* has the program been stopped?
  elements,  \* what was added and not removed
  answer,    \* what the last operation returned
  deleted    \* what the last operation applied the delete function to

vars == <<open, crashed, elements, answer, deleted>>

Init ==
  /\ open = FALSE
  /\ crashed = FALSE
  /\ elements = <<>>
  /\ answer = NULL
  /\ deleted = <<>>

Has(i) == i \in 0 .. Len(elements) - 1
At(i) == elements[i + 1]
Without(i) == SubSeq(elements, 1, i) \o SubSeq(elements, i + 2, Len(elements))

Answers(a) == answer' = a /\ deleted' = <<>> /\ crashed' = crashed

Open  == ~open /\ open' = TRUE /\ Answers(NULL) /\ UNCHANGED elements
Close == open /\ open' = FALSE /\ elements' = <<>> /\ Answers(OK)

Add(e) == elements' = Append(elements, e) /\ Answers(OK)
AddFails == UNCHANGED elements /\ Answers(ERROR)
Length == UNCHANGED elements /\ Answers(Len(elements))
Get(i) == UNCHANGED elements /\ Answers(IF Has(i) THEN At(i) ELSE NULL)

Remove(i) ==
  /\ elements' = IF Has(i) THEN Without(i) ELSE elements
  /\ Answers(IF Has(i) THEN At(i) ELSE NULL)

\* each distinct element once, in some order
DeleteElements ==
  /\ UNCHANGED <<crashed, elements>>
  /\ answer' = OK
  /\ {deleted'[k] : k \in DOMAIN deleted'} = {elements[k] : k \in DOMAIN elements}
  /\ \A j, k \in DOMAIN deleted' : deleted'[j] = deleted'[k] => j = k

\* out of memory where nobody checks it
Crash == crashed' = TRUE /\ UNCHANGED <<elements, answer, deleted>>

Operation ==
  \/ \E e \in Elements : Add(e)
  \/ AddFails \/ Length \/ DeleteElements \/ Crash
  \/ \E i \in Indices : Get(i) \/ Remove(i)

Next ==
  /\ ~crashed
  /\ Open \/ Close \/ (open /\ UNCHANGED open /\ Operation)

Spec == Init /\ [][Next]_vars
=============================================================================
