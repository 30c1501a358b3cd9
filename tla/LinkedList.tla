----------------------------- MODULE LinkedList -----------------------------
(***************************************************************************)
(* The list of src/util/linkedlist.c in which every owner keeps what it    *)
(* owns: nodes linked from a head to a tail, and a count of them.  A node  *)
(* is an address; the heap is the set of addresses that are allocated,     *)
(* and a freed address may be handed out again.                            *)
(***************************************************************************)
EXTENDS Integers, Sequences

CONSTANTS
  Nodes,     \* the addresses of list nodes (a bound on the length)
  Elements,
  NULL,
  Indices    \* bound: the indices asked for, some of them out of range

ASSUME NullAssumption  == NULL \notin Nodes \cup Elements
ASSUME IndexAssumption == Indices \subseteq Int

OK == 0      \* LLIST_OK
ERROR == -1  \* LLIST_ERROR

VARIABLES
  open,      \* is there a list?
  head,
  tail,
  length,
  heap,      \* the nodes that are allocated
  next,      \* next and element of every node, allocated or not
  element,
  answer,    \* what the last operation returned
  deleted,   \* what the last operation applied the delete function to
  fault      \* the misuse of memory that stopped the program, if any

list == <<open, head, tail, length>>
nodes == <<heap, next, element>>
listVars == <<list, nodes, answer, deleted, fault>>

ListInit ==
  /\ open = FALSE
  /\ head = NULL /\ tail = NULL
  /\ length = 0
  /\ heap = {}
  /\ next = [n \in Nodes |-> NULL]
  /\ element = [n \in Nodes |-> NULL]
  /\ answer = NULL
  /\ deleted = <<>>
  /\ fault = "none"

Answers(a) == answer' = a /\ deleted' = <<>> /\ UNCHANGED fault

Successor(n) == IF n \in Nodes THEN next[n] ELSE NULL
Content(n) == IF n \in Nodes THEN element[n] ELSE NULL

\* the node i steps after the head; a walk that leaves the list ends in NULL
Walk(i) ==
  LET at[j \in 0 .. i] == IF j = 0 THEN head ELSE Successor(at[j - 1])
  IN  at[i]

\* the loops give up when they meet NULL before they have made i steps
CutShort(i) == \E j \in 0 .. i - 1 : Walk(j) = NULL

Touches(ns) == fault' = IF ns \subseteq heap THEN fault ELSE "dead_node"

-----------------------------------------------------------------------------
\* llist_create
Create ==
  /\ ~open
  /\ open' = TRUE
  /\ head' = NULL /\ tail' = NULL
  /\ length' = 0
  /\ Answers(NULL)
  /\ UNCHANGED nodes

\* llist_add: at the end, in a new node
Add(e) ==
  /\ open
  /\ \E n \in Nodes \ heap :
       /\ heap' = heap \cup {n}
       /\ element' = [element EXCEPT ![n] = e]
       /\ tail' = n
       /\ \/ /\ head = NULL
             /\ head' = n
             /\ next' = [next EXCEPT ![n] = NULL]
             /\ UNCHANGED fault
          \/ /\ head # NULL
             /\ Touches({tail})
             /\ next' = [next EXCEPT ![n] = NULL, ![tail] = n]
             /\ UNCHANGED head
  /\ length' = length + 1
  /\ answer' = OK
  /\ deleted' = <<>>
  /\ UNCHANGED open

AddFails == open /\ Answers(ERROR) /\ UNCHANGED <<list, nodes>>

\* llist_length
Length == open /\ Answers(length) /\ UNCHANGED <<list, nodes>>

\* Mutant of InRange: one too far.
InRange_OffByOne(i) == 0 <= i /\ i <= length

InRange(i) == 0 <= i /\ i < length

\* llist_get and llist_remove with an index that is not there
OutOfRange(i) ==
  /\ open
  /\ ~InRange(i) \/ CutShort(i)
  /\ Answers(NULL)
  /\ UNCHANGED <<list, nodes>>

\* llist_get
Get(i) ==
  /\ open
  /\ InRange(i) /\ ~CutShort(i)
  /\ Touches({Walk(j) : j \in 0 .. i})
  /\ answer' = Content(Walk(i))
  /\ deleted' = <<>>
  /\ UNCHANGED <<list, nodes>>

\* Mutant of Remove: the tail is left on the node that is freed.
Remove_TailStays(i) ==
  /\ open
  /\ InRange(i) /\ ~CutShort(i)
  /\ LET current == Walk(i)
     IN  /\ head' = IF current = head THEN next[current] ELSE head
         /\ next' = IF current = head THEN next
                    ELSE [next EXCEPT ![Walk(i - 1)] = next[current]]
         /\ answer' = element[current]
         /\ heap' = heap \ {current}
  /\ length' = length - 1
  /\ deleted' = <<>>
  /\ UNCHANGED <<open, tail, element, fault>>

\* llist_remove: the node at i is unlinked and freed
Remove(i) ==
  /\ open
  /\ InRange(i) /\ ~CutShort(i)
  /\ Touches({Walk(j) : j \in 0 .. i})
  /\ LET current == Walk(i)
         previous == IF i = 0 THEN NULL ELSE Walk(i - 1)
     IN  /\ head' = IF current = head THEN Successor(current) ELSE head
         /\ next' = IF current = head THEN next
                    ELSE [next EXCEPT ![previous] = Successor(current)]
         /\ tail' = IF current = tail THEN previous ELSE tail
         /\ answer' = Content(current)
         /\ heap' = heap \ {current}
  /\ length' = length - 1
  /\ deleted' = <<>>
  /\ UNCHANGED <<open, element>>

\* Mutant of Distinct: every element is passed on, added twice or not.
Distinct_All == [k \in 1 .. length |-> Content(Walk(k - 1))]

\* the elements in the order of the list, each where it is met first
Distinct ==
  LET elt(k) == Content(Walk(k))
      met[k \in 0 .. length] ==
        IF k = 0 THEN <<>>
        ELSE IF \E j \in DOMAIN met[k - 1] : met[k - 1][j] = elt(k - 1) THEN met[k - 1]
        ELSE Append(met[k - 1], elt(k - 1))
  IN  met[length]

\* llist_delete_elements: the array of distinct elements is not checked, which
\* matters when there is an element to put in it
DeleteElements ==
  /\ open
  /\ \/ /\ Touches({Walk(j) : j \in 0 .. length - 1})
        /\ deleted' = IF fault' = "none" THEN Distinct ELSE <<>>
        /\ answer' = OK
     \/ /\ length > 0
        /\ fault' = "null_array"
        /\ UNCHANGED <<answer, deleted>>
  /\ UNCHANGED <<list, nodes>>

\* llist_delete: every node from the head on is freed, the elements are not
Delete ==
  /\ open
  /\ LET reached == {n \in Nodes : \E j \in 0 .. length : Walk(j) = n}
     IN  Touches(reached) /\ heap' = heap \ reached
  /\ open' = FALSE
  /\ head' = NULL /\ tail' = NULL
  /\ length' = 0
  /\ answer' = OK
  /\ deleted' = <<>>
  /\ UNCHANGED <<next, element>>

ListNext ==
  /\ fault = "none"
  /\ \/ Create \/ Length \/ AddFails \/ DeleteElements \/ Delete
     \/ \E e \in Elements : Add(e)
     \/ \E i \in Indices : Get(i) \/ Remove(i) \/ OutOfRange(i)

ListSpec == ListInit /\ [][ListNext]_listVars

-----------------------------------------------------------------------------
(***************************************************************************)
(* The list in memory is one chain: from the head to NULL, through each    *)
(* allocated node once, as many as length says, ending at the tail that    *)
(* the next llist_add writes to.  No node leaks when nodes are removed     *)
(* from anywhere and the list is deleted.                                  *)
(***************************************************************************)
IsOneChain ==
  fault = "none" =>
    /\ {Walk(j) : j \in 0 .. length - 1} = heap
    /\ \A j, k \in 0 .. length : Walk(j) = Walk(k) => j = k
    /\ Walk(length) = NULL
    /\ tail = IF length = 0 THEN NULL ELSE Walk(length - 1)

(***************************************************************************)
(* No operation follows a pointer to a node that has been freed: not the   *)
(* tail after the last node was removed, not previous after the first.     *)
(***************************************************************************)
NeverTouchesDeadNode == fault # "dead_node"

Sequence == INSTANCE ElementList WITH
  crashed  <- fault # "none",
  elements <- IF open THEN [k \in 1 .. length |-> Content(Walk(k - 1))] ELSE <<>>

(***************************************************************************)
(* Through its operations the list is a sequence of elements: order,       *)
(* answers and what is deleted are those of ElementList.                   *)
(***************************************************************************)
IsElementList == Sequence!Spec
=============================================================================
