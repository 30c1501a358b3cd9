# A TLA+ verification of the Argus PEP client library (argus-pep-api-c)

The library asks an Argus PEP daemon for an authorization decision. An application
creates a *handle*, sets options, registers plugins, builds an XACML request, calls
`pep_authorize`, and reads the XACML response. The library is sequential C: what is hard
in it is not concurrency inside a call but *failure* (every `calloc`, `realloc` and libcurl
call can fail, and most functions have one hand-written exit per failure), *ownership*
(who frees which object, after which sequence of calls), *stale pointers* (what libcurl and
the handle keep from one call to the next), data structures written by hand, and state
shared by threads that each have a handle of their own.

All paths below are relative to the repository.

## 1. Inventory

| component | source | state | operations | interacts with |
|---|---|---|---|---|
| PEP handle | `src/src/argus/pep.c`, `pep.h`, `pip.h`, `oh.h` | `struct pep_handle`: curl handle, header list, two plugin lists, option strings and flags; static `n_pep_clients`, `VERSION_BUFFER` | `pep_initialize`, `pep_addpip`, `pep_addobligationhandler`, `pep_setoption`, `pep_destroy`, `pep_version` | plugins (callbacks), libcurl (shares option strings), linked lists, log |
| authorization call | `pep.c` `pep_authorize` | four buffers, libcurl's READDATA/WRITEDATA, `*request`, `*response` | one function, 16 stages, 14 error exits | everything else |
| XACML objects | `src/src/argus/{request,response,subject,resource,action,environment,attribute,result,status,obligation,attributeassignment}.c` | trees of heap objects owned through pointers and lists | create, add, set, get, relinquish, delete | linked lists |
| marshalling | `src/src/argus/io.c` | none of its own | request and response to and from Hessian | XACML objects, Hessian, buffers |
| Hessian | `src/src/hessian/*.c` | typed objects, lists and maps with back references | create, serialize, deserialize, delete | buffers, linked lists |
| profile adapters | `src/src/argus/profiles.c` | none | a PIP and an obligation handler that translate between two XACML profiles | XACML objects, called by `pep_authorize` |
| buffer | `src/src/util/buffer.c` | bytes, capacity, read and write positions | create, write, putc, read, getc, ungetc, rewind, reset, delete | libcurl callbacks, Hessian, base64 |
| linked list | `src/src/util/linkedlist.c` | nodes, head, tail, length | create, add, get, remove, delete_elements, delete | every owner of objects |
| base64 | `src/src/util/base64.c` | none | encode with line breaks, decode | buffers |
| log | `src/src/util/log.c` | process-wide level, output and handler | set*, log_* | set through any handle, used by every function |
| error strings | `src/src/argus/error.c` | none | a table look-up | |
| example program | `src/src/example` | | | |

**What is hard, and what makes each component correct**

* *PEP handle.* `init()` and `destroy()` of each plugin must balance over every sequence of
  calls and failures; a failing `pep_initialize` must give back what it took; libcurl must
  hold the strings the handle holds, whatever is set again and whichever allocation fails;
  `pep_destroy` must terminate.
* *Authorization call.* On all exits: each buffer freed exactly once, none used by libcurl
  after the call; each request object owned once while PIPs, the answer and the handlers
  exchange it; the return code says whether there is a response; plugins run in order and
  once; the call returns although the daemon may never answer.
* *Buffer.* First in, first out across growth, push-back, rewind and reset;
  `rpos <= wpos <= size`; no access outside the allocation; what a failed growth leaves.
* *Linked list.* The chain of nodes is the sequence of elements that were added and not
  removed; `delete_elements` deletes each distinct element once.
* *Base64.* Decoding an encoding gives the bytes back, line breaks included.
* *Threads.* Handles are private, but the client counter, the version string and the log
  settings are process-wide and unsynchronised, although `pep.h:37` promises thread safety: ids
  should be unique, the version string whole, and a log handler called only if there is one.
* *XACML objects.* Each object is deleted once, whatever was added, replaced, cleared or
  relinquished.
* *Hessian, marshalling.* What is written is read back; references resolve to live objects;
  a missing decision is never a permit.
* *Profile adapters.* Attributes are translated completely and once.

## 2. Plan

Ordered by importance; a later module only uses earlier ones.

| # | module | composes | abstract specification | state |
|---|---|---|---|---|
| 1 | `PepHandle` | | | done, proved |
| 2 | `PepAuthorize` | extends `PepHandle` | `PepCall` | done, proved |
| 3 | `Buffer` | | `ByteQueue` | done, proved |
| 4 | `LinkedList` | | `ElementList` | done, proved |
| 5 | `Base64` | | decode after encode is the identity | done, proved |
| 6 | `PepThreads` | | | done; what it shows is that the library is not thread safe |
| 7 | `XacmlObjects` | | | done, proved |
| 8 | `Unmarshalling` | extends `XacmlObjects` | `XacmlObjects` | done, proved |
| 9 | `RequestMarshalling` | | the request, field by field | done, proved |
| 10 | `HessianWire`, `HessianWriting`, `HessianDecoding` | | | done, proved |
| 11 | `HessianReading` | extends `HessianWriting` and `HessianDecoding` | the document that was written: a message that is whole is read as it, one that is cut as a beginning of it | done, proved |
| 12 | `HessianExchange` | extends `RequestMarshalling` and `HessianReading` | | done, by its parts |
| 13 | `ProfileAdapters` | | the attributes and accounts that should be added | done, proved |

Every safety property the passing runs check is a theorem now. Six runs show properties that
the repository's text promises and the code violates. What is left to model checking is
liveness, and what is left out of the models is in section 6.

## 3. The modules and the code

**`PepHandle`** (`pep.c`, all but `pep_authorize`). `handle` is "none", "live", or "dying"
inside `pep_destroy`; `held` and `leaked` are its allocations; `option` and `curl` are, for
each string option, the address the handle keeps and the address libcurl was last given, so
that a stale pointer in libcurl is a difference between the two; `pips` and `ohs` are the two
plugin lists; `owed` counts, per plugin, `init()` calls that `destroy()` has not answered,
and `lost` those of a plugin that `llist_add` refused. Every operation is one action with all
its failures, except `pep_destroy`, which takes one step per plugin it calls back.
`CurlCopies` distinguishes the libcurl the comment at `pep.c:79` worries about (which keeps
pointers to option strings) from newer ones.

**`PepAuthorize`** (`pep_authorize`) extends it with the stages of one call, `pc`, and the
state the call owns: the four `BUFFER` pointers, what libcurl's READDATA and WRITEDATA point
to, the request (which PIPs, the answer and handlers replace), the response, and the history
(`plan`, `ran`) of plugins called. Each stage is one action whose disjuncts are its error
exits; each exit names the buffers it deletes. The daemon answers anything (`Answered`),
never answers (`TimesOut` then ends the call, if libcurl has a timeout), or the transfer
fails. **`PepCall`** is what the call promises: PIPs in order, one exchange, handlers in
order, and a return code that says how far it got. The refinement `CallImplemented` hides
everything else.

**`Buffer`** (`util/buffer.c`) keeps the array as a function on its accessible cells, `size`,
`wpos`, `rpos`. **`ByteQueue`**, which it implements while no `realloc` has failed, has the
bytes read and the bytes to read.

**`LinkedList`** (`util/linkedlist.c`) keeps a heap of node addresses with `next` and
`element`, `head`, `tail` and `length`; addresses are reused. **`ElementList`**, which it
implements operation by operation and answer by answer, is a sequence.

**`Base64`** (`util/base64.c`): `base64_encode_l` block by block with its count of characters
in the line, a transfer that may insert characters, and `base64_decode` character by
character.

**`PepThreads`** (`pep.c`, `util/log.c`): threads that each have a handle, and what they share
without a lock: `n_pep_clients`, `VERSION_BUFFER` and its flag, log level and handler. A
statement that reads and then writes shared state is two steps, and nothing keeps the threads
apart, as the library asks for no care when it promises to be "multi-thread safe" (`pep.h:37`).
The three properties are what that promise means for each of the three, and each is violated.

**`XacmlObjects`** (`request.c` … `attributeassignment.c`): `kind` says what an address
holds, `list` and `child` the lists and pointers of each object, `text` what each string
pointer is (NULL, its own copy, or a string that was freed), `ours` the objects the
application has to delete. Deleting an object deletes the tree below it (`Tree`), and `fault`
records an object or a string that is freed twice. The application is a legal one: it gives
away and deletes what it owns, an object goes to one owner (perhaps several times into one
list), and no object is put below itself.

**`Unmarshalling`** (the second half of `io.c`) is one such application. `stack` has one frame
per unmarshal function that has not returned: the object it fills and what it is reading.
The message is not a value of the model but is chosen as it is read, so that every map, well
or badly formed, with keys that come twice, to any depth, is covered. `Refuse` stands for each
of the early returns, and `Unwind` for the deletions each caller makes on the way out.

**`RequestMarshalling`** (the first half of `io.c`): one frame of `stack` per marshal function
that has not returned. The seven functions differ in the fields they write (`FieldsOf`) and in
what a missing field means (`Optional`, `Unchecked`, `Lists`, `Children`), and are otherwise
the same steps: create the map; for each field create the string or list, or call the function
of the child; create the key; add the pair. `own` says of each variable of a call whether what
it points to is its own or was given to a map or list; `Exit` is an error exit that deletes
some of the variables, and `Destroys` what `hessian_delete` does then, including the two
allocations that a destructor makes itself. `CallerFails` lets each caller fail in turn.

**`HessianWire`** (`hessian/*.c`) defines the nodes of documents and their tags. A document is the
sequence of its nodes in the order in which they are written, and the parts of a list or map are
numbers of nodes that follow it, so that a node has the same number in the document and in the
heap of the reader. **`HessianWriting`** defines the bytes: lengths, chunks of `ChunkSize`
characters, UTF-8.
**`HessianDecoding`** reads bytes back, and knows nothing of the document they come from:
`frames` has one entry per object being read, `heap` the objects with what they point to, so
that references, objects freed twice and objects nobody reaches are visible. A list or map
reads into its temporary `refs` and then moves the parts, resolving references on the way
(`MoveElement`, `MovePair`), as `list.c` and `map.c` do; `loose` remembers whether one of them
named itself, another reference or nothing. The end of the
input is a byte like any other, which is what `buffer_getc` makes of it: every loop that does
not test for it is taken as written.

A text is read into two temporary buffers, one for a chunk (`utf8_bgets`) and one for all of it
(`hessian_string_deserialize`, `hessian_binary_deserialize`), and nobody looks whether these
can grow. `OutgrowsBuffer` says when one of them has to: the first when a character has several
bytes (`Swells`), the second when the text is larger than the buffer was at first (`Room`:
`SmallRoom`, 32 in the code, or a chunk). `GrowthFails` is the chunk that is read without
memory for it: the text so far and the chunk may be gone, or say what the memory said that was
got later (`Garbage`), or be read or written through NULL, which stops the program; and the
reading goes on. The class of a list, map or remote is read by the same `utf8_bgets`
(`OpenSpoilt`, `NamesAt`, `NameFaults`).

**`HessianReading`** puts the two together: `Receive` is `Arrives` with the bytes of a document, all
of them or the first ones, and `RSpec` reads any of `Answers` again and again. It states what
documents are (`IsDocument`), what their references mean (`Meant`), and what was read
(`ReadBack`). **`HessianExchange`** adds the requests: one that was marshalled is serialized and
read by the peer, which is external and taken to read as this code does, as the repository's
tests do; or the peer sends an answer, whole or cut after any byte.

**`ProfileAdapters`** (`profiles.c`): the PIP and the obligation handler, loop by loop, with
identifiers as sequences of segments because `strncmp` compares prefixes. The application may
ask again with the request the PIP has changed. `getpwnam_r` and `getgrnam_r` are external:
they know some names, and may fail for those too.

| action | code |
|---|---|
| `PepHandle!InitializeSucceeds`, `InitializeFails` | `pep_initialize`, with `init_pep_defaults`, `init_curl_defaults` |
| `AddPip`, `AddObligationHandler` | `pep_addpip`, `pep_addobligationhandler` |
| `SetString`, `SetFlag`, `SetTimeout` | the groups of cases of `pep_setoption` and their `set_curl_*` |
| `DestroyBegin`, `DestroyPip`, `DestroyPipList`, `DestroyOh`, `DestroyEnd` | `pep_destroy` |
| `PepAuthorize!Enter` … `Leave` | the stages of `pep_authorize`, in order |
| `XacmlObjects!Create*`, `Set*`, `*Add*`, `Unset*`, `Relinquish*`, `Delete` | the function of that name |
| `Unmarshalling!*Keys` | the loop over the map in `xacml_*_unmarshal` |
| `Enter`, `Leave`, `*Keeps` | call and return of `xacml_*_unmarshal`, and the add or set that follows |
| `RequestMarshalling!CreateMap` … `Return` | the statements of `xacml_*_marshal`, by what they create or add |
| `KeyFails`, `AddFails`, `NullLost`, `CallerFails` | the error exits behind `hessian_map_add` and behind a child's call |
| `HessianDecoding!Read*`, `OpenContainer`, `CloseContainer` | `hessian_deserialize`, and `hessian_*_deserialize` of each class |
| `HessianWriting!Opening`, `WrittenText`, `WrittenBytes`, `WrittenLeaf`, `Written` | `hessian_serialize`, and `hessian_*_serialize` of each class |
| `OpenText`, `ReadChunk`, `EndOfText` | `hessian_string_deserialize`, also of XML, and `hessian_binary_deserialize` |
| `MoveElement`, `DanglingElement`, `ElementRefused`, `MovePair`, `PairRefused`, `EndOfContainer` | the second loop of `hessian_list_deserialize` and `hessian_map_deserialize` |
| `ProfileAdapters!BeginPip` … `AddProfileId` | `authzinterop2gridwn_pip_process` |
| `BeginHandler` … `EndOfHandler` | `gridwn2authzinterop_oh_process` |

`PROJECT.json` maps every definition to its lines.

## 4. What the runs show

| run | shows |
|---|---|
| `handle` | over any sequence of operations and handles: plugins are destroyed as often as initialised, except those `llist_add` refused; only the HTTP header list can leak; a string the handle keeps is the one libcurl has; `pep_destroy` returns |
| `authorize` | on every exit of several calls in a row, mixed with option changes: buffers freed exactly once and none used by libcurl after its call; one owner per request; the code tells whether there is a response; the request goes to the current endpoint; `PepCall` is implemented; the call returns although the daemon may be silent |
| `util` | a buffer's accesses are inside its array until a `realloc` fails, and it is first in first out with push-back and rewind; a list is one chain from head to tail, never touches a dead node, and implements a sequence; base64 comes back, with foreign characters, and its lines are full |
| `xacml` | objects: one owner each, none deleted twice, none forgotten, over all twelve kinds. Unmarshalling: a legal application on all paths, nothing survives an error, what is returned owns all that was created |
| `hessian` | requests are marshalled with allocations that fail anywhere, and read back by the peer; answers in every class, with chunks and references, come whole or cut after any byte: each marshal function deletes what its variables own, once; only the lack of memory, or an attribute without an id, makes marshalling fail; what is sent is the whole request; as long as there is memory, what is read is what was sent, or a beginning of it in which no decision becomes a permit; memory is misused, and objects are lost, for stated causes only; the reading ends |
| `profiles` | the built-in plugins, called again and again: each pass adds the copies of what is to be copied (under either id, for a list of FQANs) and no copy of a copy, one profile id, no account the answer does not name, no crash without one of four causes |
| `strings_freed_once` | **violated**: `xacml_subject_setcategory(s,NULL)` (`subject.c:55`) and `xacml_resource_setcontent(r,NULL)` (`resource.c:84`) free the string and keep the pointer |
| `utf8` | **violated**: a first byte of 0xD0 to 0xDF (all Cyrillic and Arabic letters) is missed at `string.c:274`, so a text with one is not read as it was written, although `string.c:253` promises that number of UTF-8 characters |
| `fqan_ids` | **violated**: the copy of a list of VOMS FQANs gets the id of the primary one (`profiles.c:155`), although `profiles.c:98-102` and `profiles.h:132-134` name two ids for the two attributes |
| `unique_ids` | **violated**: two threads in `n_pep_clients++` (`pep.c:759`) get the same id |
| `handler_not_null` | **violated**: a log handler is set to NULL, as `pep.h:148` allows, between its check and its call (`log.c:108`) |
| `version_whole` | **violated**: the version string is written (`pep.c:107`) while another thread reads it |

The last three contradict `pep.h:37`, "Version 2.X of the PEP client C API is multi-thread
safe." Their configurations, `MCUniqueIds.cfg`, `MCHandlerNotNull.cfg` and `MCVersionWhole.cfg`, are
of the module `MCPepThreads`; `MCTextsComeBack.cfg` (`utf8`) is of `MCHessian`,
`MCStringsFreedOnce.cfg` of `MCXacml`, and `MCPromisedIds.cfg` (`fqan_ids`) of
`MCProfileAdapters`.

`MCUtil` and `MCXacml` check components that do not interact in one run: a behaviour is one of
base64, of a buffer or of a list (`part`); of an application that handles objects, or of one
that asks for responses (`asks`). Each runs as it would alone, and the others stay as they began.

**Bounds.** Two PIPs and one handler (or one of each), lists of two, so that order, repetition
and the empty list occur; one string option with two addresses (`authorize`), two options
(`handle`), so that an address is reused while another is live; two requests, the
application's and the response's, which are all that exist at a time; `MaxOwed` caps the unmatched `init()` calls of a
plugin. Buffers of two or three cells with writes of up to three bytes force growth by need
and by policy at a length of five. Lists of four nodes have a first, a last and two middle
ones; two elements make duplicates. Seven bytes of input cover every length modulo three and
texts of up to three blocks, with line sizes of one and two blocks, between them, the default
and none. Two threads suffice for the three races. Of five addresses an
application that handles objects uses four at a time (`MaxLive`): chains of four, an owner of two
next to another tree, and every pair of kinds, with an address that is free for the next. `MaxTexts`
= 1 follows one string at a time, since strings of different fields do not interact. Five
objects let unmarshalling fail five deep (response, result, status, code, subcode), and four
deep with a sibling or a key that comes twice.

`MCHessian` has chunks of two characters and texts of up to three, so that there are texts of
no chunk, of one that is full, and of two, with characters of one to four bytes on either side
of the boundary. `SmallRoom` is three bytes, so that texts of one chunk outgrow their buffer, as
those in several chunks do. What memory says (`MCGarbage`) is nothing or a byte that no text
consists of; a zero byte before the end, which would hide the chunks that follow, is left out.
Lists of up to three references and nulls and maps of two values contain every
pattern of references forward, backward, to itself and outside; every answer is cut after each
of its bytes. One request has every function, field and kind of missing field, and attributes
at two depths. `MCProfileAdapters` makes three calls (`MaxCalls`), of which the
second and third find copies, with room for two groups (`NGroupsMax`) and obligations of up to
three.

Symmetry is used for interchangeable addresses, requests and threads, in runs without
liveness properties only.

**Deadlock** is checked except where the program stops: the end of the decoder, a crash in
`llist_delete_elements`, and memory freed twice or read through NULL; in `profiles` also after
the last call, and in `hessian` in the loop over a binary that was cut (`hung`).

**Fairness.** `PepAuthorize`: the thread that called goes on (`Compute`), which takes plugins
to return; and libcurl enforces CURLOPT_TIMEOUT (`TimesOut`), which `pep.c:848` always gives
it, positive. Nothing is assumed of the daemon or of the transfer. `PepHandle`: `pep_destroy`
goes on, with `destroy()` of plugins returning. `HessianExchange`: the thread that reads goes
on (`WF_vars(Decode)`); nothing is assumed of the peer. All other specifications are safety only.

## 5. What is proved

For every value of the constants (TLAPS), from the named assumptions in the modules. These say
that addresses are not NULL, that the two kinds of plugins differ, that bounds are natural
numbers, that the default line size of base64 is not 0, and, for marshalling and the adapters,
that what the application, the daemon and the password file hand over has the types of its
structs:

* **Handle** (`PepProofs`, first part): types, the timeout that is never 0 among them; `CurlMirrorsOptions`; `OnlyHeadersLeak`,
  from an invariant that says what is `held` at each point of the handle's life; and
  `OwedIsListedOrLost`, from the same invariant, which adds that no plugin in a list is beyond
  the place `pep_destroy` has come to. It counts the places of a plugin in a list, so the
  lemmas behind it say what `Append` and `Tail` do to the cardinality of those places.
* **Call** (`PepProofs`, second part): types; that a step of the call keeps the
  handle's invariant (`CallKeepsHandle`), so that the properties of the handle hold between
  calls and during them; `BuffersReleased` and `NoFault`, from
  `BuffersByStage`, which says for every stage which of the four buffers is live — the
  property itself speaks only of the end of a call; `RequestsOwnedOnce` and
  `ResponseMatchesCode`, from `OwnerInv`, which adds when a response and its request exist;
  `EndpointIsCurrent`, with either kind of libcurl, from `CurlMirrorsOptions`.
* **Call implements `PepCall`** (same module): initial states map to initial states and
  each step to a step or a stutter. `PlanInv` says that the plan is the enabled PIPs, the
  exchange, and the enabled handlers, and that what ran is its prefix up to the stage.
* **Buffer** (`BufferProofs`): types, `PositionsOrdered`, `InBounds`, from `BufferInv`, which
  ties the domain of the array to `size` unless a `realloc` has failed; and that it implements
  `ByteQueue`, for every sequence of writes, reads, push-backs, rewinds and resets. A growth
  keeps the cells below `wpos`, and each operation of the array is the one of the queue on the
  sequences those cells form.
* **Linked list** (`UtilProofs`, first part), for lists of any length: `IsOneChain`,
  `NeverTouchesDeadNode`, and that it implements `ElementList`, answer by answer. The
  invariant names the chain: a sequence of live nodes without repetition, whose first is `head`,
  whose last is `tail` and each of whose nodes points to the next. The program walks links
  (`Walk`, a recursive function); what a walk reaches is shown by induction on the set of the
  steps walked, for which finite sets are well founded under inclusion (`SetInduction`).
* **Base64** (`UtilProofs`, second part): every block of one, two or three bytes is decoded to itself;
  texts of any length are decoded to what they were made from (`RoundTrip`), whatever foreign
  characters the transfer adds, provided that a NUL is not one of them (`NulIsNotForeign`;
  section 7 says what a NUL does); and lines are full (`LinesAreFull`). For the first, the
  invariant says that the letters of the text, without what the decoder skips, are those of the
  blocks read so far, in order, and how many of them the decoder has used. For the second, that
  while the loop runs the text is some number of full lines and the letters since the last
  line break (`Written`); `LinesAreFull` itself speaks only of the finished text.
* **Profile adapters** (`ProfileProofs`): `AdaptedRequest`, `MappedAccounts` and
  `FaultNeedsCause`, for requests and responses of any size and any number of calls. The loop of
  the PIP reads the list it adds to, with a bound it has read before; `PipInv` says that this
  bound covers all that the subject had (`ReadsAll`), and that what follows is, for each complete
  call and for the current one up to where it has got, the copies of what is to be copied, some
  of them missing if there was no memory (`Adapted`). A copy is not one of the ids that are
  copied (`CopyIsNotCopied`), so reading beyond the bound of the first call adds nothing.
  `AdaptedRequest` leaves open which of two ids the copy of a list of FQANs has, as code and
  comment differ there (`fqan_ids`); the proof holds for either. For
  the handler, `AdapterInv` says of each point of the handler's loops that
  the obligation read is the one that came (`Current`), which assignments have been read, and
  that user, group and groups hold what those say (`HasRead`); of each answer given, that an
  obligation accounts for it (`AnswerExplained`); that all other obligations are as they came
  (`RestUntouched`); and, of the three crashes, the state each of them needs (`Starving`,
  `Nameless`, `Overflown`).
* **XACML objects** (`XacmlProofs`): `OwnedOnce`, `ObjectsDeletedOnce`, `NothingLeaks` and
  types. The invariant `XInv` has four parts beyond the types: an object uses the lists and
  pointers of its kind (`Schema`); nothing is both in a list and behind a pointer of the same
  object (`OneSlot`); the pointers form a forest whose roots are the application's objects
  (`Owned`); no double deletion yet. "Forest" is stated as: one holder per held object, and
  every non-empty set has a member that nothing in the set holds. Constant lemmas say what a
  creation, a gift, a deletion and a return make of a forest. One owner alone would not be
  inductive: a cycle of objects that own each other satisfies it, and is never deleted.
* **Unmarshalling** (`XacmlProofs`): it implements `XacmlObjects`, so that all of the above
  holds of it; `ErrorLeavesNothing`, because the frames own exactly what the application owns
  (`UInv`) and a forest without roots is empty; `ResponseOwnsAll`, because the bottom frame
  fills a response, a root keeps its kind, and a forest with one root is its tree.

* **Marshalling** (`HessianProofs`, first part), for requests of any size: `LocalsReleased`, from `MInv`,
  which says for every frame of the stack what each variable owns at each step (`Owns`), that
  all calls but the innermost wait at "calling" (`Waiting`), and that losses need starvation
  (`Clean`). `LocalsReleased` alone is not inductive: it says nothing of what is owned before
  the exit. `OnlyStarvationFails` needs `NInv` as well: each frame is for a part of the request,
  whose kind decides its fields, so that the only field that must be there is the id of an
  attribute. It assumes of the requests that objects have the types of their structs
  (`WellFormed`), as those of `MCHessian` have. `RequestIsComplete` speaks of what is sent;
  `CInv` says what each frame has to show before: its pairs are those of the fields before the
  current one (`PairsFit`), without the optional ones that are not there; the items of a list
  are those of the first elements (`ItemsFit`), all of them when the list is put; and the next
  frame is for the element or the child it waits for (`CallsFor`). As soon as memory has been
  short, a datatype or an issuer may be null, and what was exact before is still allowed
  (`FrameStill`). It assumes in addition that NULL is no object (`NullApart`).
* **Reading** (`HessianProofs`, second part), for any bytes, any depth, and allocations that fail
  anywhere: `OnlyAbandonedLost`, of `DSpec`, whose `Arrives` leaves the bytes open. Every step
  of `HessianExchange` is a step of `DSpec` or leaves its variables alone, `Answer` and
  `SendRequest` being instances of `Arrives`, and `NextCall` of `Forget`. The property speaks of
  the end of a reading only. `DInv` says what holds all along: an object that has not been freed
  can be reached from `Roots`, which are the objects of the frames, what these hold in `refs`,
  what was abandoned, and the result; frames and parts only point at younger objects, so that
  the heap has no cycles; while reading goes on, what has been freed are references (a freed
  object with parts would hide them); and of the parts a list or map has moved, each is freed or
  one of its own. What an object reaches (`Below`) is a function that calls itself: it exists because
  there are no cycles, and the lemmas first show that it is the least set that holds the object
  and is closed under parts. `MisuseNeedsCause`, also for any bytes, needs `TInv`, which is
  claimed only while no allocation has failed and every reference was sound (`short` and
  `loose`, which never become false again before the next message): nothing holds an object
  that was freed (`Alive`); the parts a container has yet to move are in increasing order, and
  are part of nothing and of no other container's list (`Tidy`). While the reading fails, the
  containers are deleted from the innermost one outwards, so both are claimed only of the
  objects before the last one deleted. Then what `Unwind` and `DeleteResult` delete was never
  freed (`WholeBelow`).
* **What was read** (`HessianDocumentProofs`, `HessianReadingProofs`): `DecodedIsSent` and
  `TruncationNeverPermits`, of `RSpec`, for any documents, of any size and depth, with texts of any
  length and any `ChunkSize` up to 32767, wherever a message is cut, as long as no allocation has
  failed: without memory both are false of the code (section 7). `Answers` is
  any set of documents, so it may hold the requests too, and every step of `HessianExchange` is a
  step of `RSpec` or leaves its variables alone. The one assumption is that they are documents:
  texts are UTF-8 without NUL, class names and the texts of a remote have at most 65535 characters, the
  parts of a node follow it in order, and each field has the type of its class. Both properties
  speak of the end of a reading. `RInv` says what holds on the way: the nodes in `heap` are the
  first nodes of the document, with what they say and the parts that were put in them
  (`NodeRead`); each open list or map has read the first of its parts, and waits for the next
  (`StackRead`: `FrameRead`, `Awaits`); and what is to come at `pos` are the bytes that follow in
  the document, within the text that is being read chunk by chunk or behind the last
  part, unless the input ends there (`PlaceRead`, `Out`). It is claimed while the message is
  `Fair`: no character that is missed, sound references, none in a message that is cut, and
  memory for all that has been read. Where the input is at its end, the last
  node may have begun only (`Begun`), and nothing comes after it. The proof writes out what each
  class is serialized to (`HessianDocumentProofs`: where characters, chunks and nodes start, and
  how a reader that meets these bytes, or the end of the input, goes on) and then takes the
  actions one by one (`HessianReadingProofs`). No decision becomes a permit, because a byte
  that is missing is read as `BUFFER_EOF`, INT_MIN, of which at most the sign is left: a number
  that was cut is a multiple of 256, which `PERMIT` is not.

**Only model-checked.** Liveness (`CallReturns`, `DestroyTerminates`, `DecodeEnds`), which TLAPS
cannot prove. `HessianExchange` builds the document of a request by operators that call
themselves (`Built`, `Flat`): that these are documents is not proved, but its run reads each of
them back (`DecodedIsSent`).

## 6. What is not modelled, and what is assumed

* `buffer_fwrite` and `buffer_fread` are called nowhere. Log output, formatting of messages,
  and the texts of `error.c` carry no state that a property is about.
* Of XACML objects: the values of an attribute, the decision and the fulfillon; therefore not
  whether unmarshalling reads the right value for a key. The decision alone is followed, from
  the map that was read (`DecisionOf` in `HessianReading`), with DENY where there is none.
* Hessian: the destructors that run while a message is read allocate as well, and are taken
  to find memory there (`RequestMarshalling` lets them fail). The temporary buffer of a text
  grows byte by byte or chunk by chunk; its failure is taken to come with the chunk that needs
  the room, also where the code uses the missing memory at the end of the text only, and how
  much an earlier growth has given beyond what was needed is not known to the model, so that a
  growth may fail where the code would not have had to grow. The depth of the C stack, which is that of the message
  (`io.c:1576` calls itself for each subcode), is not bounded.
* The peer is external. It does not have to write what this code would; any document of
  `Answers` may come.
* A timeout so large that libcurl's milliseconds overflow (`pep.c:247`): libcurl is external.
* `error.c` is a table, the example a client, and the build has no behaviour of the library.
* Plugins return, do not set the request to NULL, and a handler does not delete or replace
  the response; `curl_easy_setopt` succeeds for the timeout.
* The application of `XacmlObjects` is legal in the sense of section 3: the functions check
  none of it, and an application that is not (the same action set twice, `request.c:121`; one
  attribute in two lists) frees memory twice.

## 7. Observations without a run

Seen while translating the code. The first four contradict the repository's own text. The
models contain the first three, as a constant (`CurlCopies`), as a step of the stage, and as
`GrowthFails`; they leave out the fourth (`NulIsNotForeign`). The others are promised by
nobody, or outside what is modelled. The contradictions that have a run are in section 4.

* `pep.c:273` frees an option string before its successor is allocated. When `calloc` fails, a
  libcurl that keeps pointers, the one `pep.c:81` is written for, has a freed string.
* `pep.c:582` tests `output` where `input` was created (`pep.c:583` logs that `input` is
  missing): without memory the request is sent and the answer has nowhere to go.
* `utf8_bgets` promises its characters, "or NULL on error" (`string.c:253-256`). When a buffer
  cannot grow (`string.c:205`, `270`, `281`, `binary.c:134`) nobody looks: the text is empty or
  lacks its first characters, and the reading goes on as if it had been read. The model does
  so too (`GrowthFails`), and `DecodedIsSent` and `TruncationNeverPermits` stop at the first
  such failure (`short`); `MisuseNeedsCause` and `OnlyAbandonedLost` hold beyond it.
* A NUL in a base64 text is decoded as the value 64 (`base64.c:106`), although the comment
  at `base64.c:105` has characters dropped that are not in the alphabet.
* A permit whose obligations were cut off is accepted: the end of the input closes lists and
  maps (`TruncationNeverPermits` says what is left of it).
* A result map may hold two decisions, of which the last counts (`io.c:1326`). Cut between them, a
  denial is read as a permit: `TruncationNeverPermits` needs `DecidesOnce`.
* References of Hessian 1.0 count the objects of the whole message; `list.c` and `map.c` look
  them up among the parts of the list or map they are in. `Meant` is the code's reading.
* `remote.c` does not look whether its two texts were read, `binary.c:123` not whether it has
  a buffer.
* The same object set twice (`request.c:121`) is deleted and kept.
* When `llist_add` fails (`pep.c:172`, `197`) the plugin has been initialised and is never
  destroyed: `lost` counts these, and `OwedIsListedOrLost` is exact about them.
* A failing `pep_initialize` leaks the HTTP header list: `OnlyHeadersLeak` is exact about it.
* Encoding into a buffer that cannot grow drops bytes, and the damaged request is sent.
* A failed `realloc` in `buffer.c:109` leaves `size` and the positions; later writes go
  through NULL. `InBounds` and `IsByteQueue` end there, and excuse what follows.
* `llist_delete_elements` does not check its `calloc` (`linkedlist.c:167`), and the
  destructor of a map that finds no memory for a list loses the content (`map.c:104`):
  `OnlyStarvationFails` says that nothing else fails, and does not catch these.
* A base64 line size that is not a multiple of four makes lines longer than asked for.
* `xacml_attribute_addvalue` leaks its copy when the list cannot take it
  (`attribute.c:232`).
* `io.c` accepts objects without the keys its comments call mandatory; an id may be NULL.
* A subject map whose category comes twice, the second time as null, takes the branch of
  `subject.c:55`: `Unmarshalling` stops when the kept pointer is freed again (`fault`), and
  `strings_freed_once` shows the cause.
* `hessian/list.c` and `map.c` free reference objects that other references may still name:
  `MisuseNeedsCause` and `DecodedIsSent` say which messages are safe (`RefsAreSound`).
