------------------------------- MODULE Base64 -------------------------------
(***************************************************************************)
(* src/util/base64.c: what base64_encode_l() writes, base64_decode() reads *)
(* after a transfer that may have put other characters into the text.      *)
(* A character is its place in the table; the NUL that ends the table has  *)
(* the place after its last character.  (Writes that fail are part of      *)
(* PepAuthorize: neither function reports them.)                           *)
(***************************************************************************)
EXTENDS Integers, Sequences

CONSTANTS
  Bytes,            \* the byte values of the input
  MaxBytes,         \* bound: bytes of the input
  LineSizes,        \* the line sizes asked for, NO_LINE_BREAK among them
  DefaultLineSize,  \* BASE64_DEFAULT_LINE_SIZE
  Foreign,          \* characters the transfer may add
  MaxForeign        \* bound: how many of them

NUL == 64
PAD == 65  \* '='
CR  == 66
LF  == 67
UNKNOWN == 68  \* any other character

NO_LINE_BREAK == -1000

ASSUME ByteAssumption == Bytes \subseteq 0 .. 255
ASSUME LineAssumption == LineSizes \subseteq Int /\ DefaultLineSize \in Nat \ {0}
ASSUME BoundAssumption == MaxBytes \in Nat /\ MaxForeign \in Nat
ASSUME ForeignAssumption == Foreign \subseteq NUL .. UNKNOWN

VARIABLES
  input,
  linesize,  \* as asked for
  phase,     \* the function that runs, or "transfer" between the two
  unread,    \* what the running function has not read
  text,
  b_out,     \* characters in the line that is being written
  added,     \* characters added by the transfer
  in,        \* the table characters read for the next block of bytes
  output

vars == <<input, linesize, phase, unread, text, b_out, added, in, output>>

Inputs == UNION {[1 .. n -> Bytes] : n \in 0 .. MaxBytes}

Init ==
  /\ input \in Inputs
  /\ linesize \in LineSizes
  /\ phase = "encode"
  /\ unread = input
  /\ text = <<>>
  /\ b_out = 0
  /\ added = 0
  /\ in = <<>>
  /\ output = <<>>

Prefix(s, n) == SubSeq(s, 1, IF n < Len(s) THEN n ELSE Len(s))
After(s, n) == SubSeq(s, n + 1, Len(s))

-----------------------------------------------------------------------------
\* Mutant of EncodeBlock: what is left of the second byte is not masked.
EncodeBlock_NoMask(bytes, l) ==
  << bytes[1] \div 4,
     (bytes[1] % 4) * 16 + bytes[2] \div 16,
     IF l > 1 THEN (bytes[2] % 4) * 4 + bytes[3] \div 64 ELSE PAD,
     IF l > 2 THEN bytes[3] % 64 ELSE PAD >>

\* encodeblock: three bytes, l of them of the input
EncodeBlock(bytes, l) ==
  << bytes[1] \div 4,
     (bytes[1] % 4) * 16 + bytes[2] \div 16,
     IF l > 1 THEN (bytes[2] % 16) * 4 + bytes[3] \div 64 ELSE PAD,
     IF l > 2 THEN bytes[3] % 64 ELSE PAD >>

Line == IF linesize # NO_LINE_BREAK /\ linesize < 4 THEN DefaultLineSize ELSE linesize

\* Mutant of Breaks: the count of the line is compared once too often.
Breaks_Late(written, rest) == Line # NO_LINE_BREAK /\ (written > Line \/ rest = <<>>)

\* is the line ended after this block?
Breaks(written, rest) == Line # NO_LINE_BREAK /\ (written >= Line \/ rest = <<>>)

\* base64_encode_l: a round of the loop
EncodeRound ==
  /\ phase = "encode" /\ unread # <<>>
  /\ LET l       == Len(Prefix(unread, 3))
         bytes   == [k \in 1 .. 3 |-> IF k <= l THEN unread[k] ELSE 0]
         written == b_out + 4
         rest    == After(unread, l)
     IN  /\ text' = text \o EncodeBlock(bytes, l)
                         \o (IF Breaks(written, rest) THEN <<CR, LF>> ELSE <<>>)
         /\ b_out' = IF Breaks(written, rest) THEN 0 ELSE written
         /\ unread' = rest
  /\ UNCHANGED <<input, linesize, phase, added, in, output>>

EncodeEnd ==
  /\ phase = "encode" /\ unread = <<>>
  /\ phase' = "transfer"
  /\ UNCHANGED <<input, linesize, unread, text, b_out, added, in, output>>

\* the text passes through other hands
AddForeign ==
  /\ phase = "transfer" /\ added < MaxForeign
  /\ \E c \in Foreign, n \in 0 .. Len(text) :
       text' = Prefix(text, n) \o <<c>> \o After(text, n)
  /\ added' = added + 1
  /\ UNCHANGED <<input, linesize, phase, unread, b_out, in, output>>

Received ==
  /\ phase = "transfer"
  /\ phase' = "decode"
  /\ unread' = text
  /\ UNCHANGED <<input, linesize, text, b_out, added, in, output>>

-----------------------------------------------------------------------------
\* a | b for a multiple of u and b < 2 * u: they can only share the bit u
Or(a, b, u) == IF b >= u /\ (a \div u) % 2 = 1 THEN a + b - u ELSE a + b

\* decodeblock, in unsigned char
DecodeBlock(sextets) ==
  << Or(sextets[1] * 4, sextets[2] \div 16, 4) % 256,
     Or(sextets[2] * 16, sextets[3] \div 4, 16) % 256,
     Or((sextets[3] * 64) % 256, sextets[4], 64) % 256 >>

\* the bytes of a block for which sextets were read
DecodedBytes(sextets) ==
  Prefix(DecodeBlock([k \in 1 .. 4 |-> IF k <= Len(sextets) THEN sextets[k] ELSE 0]),
         Len(sextets) - 1)

\* strchr(base64, c): it also finds the NUL at the end of the table
InTable(c) == c <= NUL

\* base64_decode: a character is read, and the block ended if it is full
DecodeChar ==
  /\ phase = "decode" /\ unread # <<>>
  /\ unread' = Tail(unread)
  /\ LET more == IF InTable(Head(unread)) THEN Append(in, Head(unread)) ELSE in
     IN  IF Len(more) = 4
         THEN in' = <<>> /\ output' = output \o DecodedBytes(more)
         ELSE in' = more /\ UNCHANGED output
  /\ UNCHANGED <<input, linesize, phase, text, b_out, added>>

\* Mutant of DecodeEnd: the bytes of a block that is not full are lost.
DecodeEnd_FullBlocks ==
  /\ phase = "decode" /\ unread = <<>>
  /\ phase' = "done"
  /\ in' = <<>>
  /\ UNCHANGED <<input, linesize, unread, text, b_out, added, output>>

DecodeEnd ==
  /\ phase = "decode" /\ unread = <<>>
  /\ phase' = "done"
  /\ output' = IF in = <<>> THEN output ELSE output \o DecodedBytes(in)
  /\ in' = <<>>
  /\ UNCHANGED <<input, linesize, unread, text, b_out, added>>

Next ==
  \/ EncodeRound \/ EncodeEnd
  \/ AddForeign \/ Received
  \/ DecodeChar \/ DecodeEnd

Spec == Init /\ [][Next]_vars

-----------------------------------------------------------------------------
(***************************************************************************)
(* Decoding gives back the bytes that were encoded, for inputs of any      *)
(* length modulo 3, whatever the line size and the characters added.       *)
(***************************************************************************)
RoundTrip == phase = "done" => output = input

Breakpoints == {k \in DOMAIN text : text[k] = LF}
\* the lengths of the lines, in a text that ends with a line break
LineLengths ==
  {p[2] - p[1] - 2 : p \in {q \in (Breakpoints \cup {0}) \X Breakpoints :
                              /\ q[1] < q[2]
                              /\ ~\E b \in Breakpoints : q[1] < b /\ b < q[2]}}

\* the length of a full line
Full == ((Line + 3) \div 4) * 4

(***************************************************************************)
(* With line breaks, every line but the last is the first multiple of four *)
(* characters that reaches the line size, the last is not longer nor       *)
(* empty, and the text ends with a line break; without, there are none.    *)
(***************************************************************************)
LinesAreFull ==
  phase = "transfer" /\ added = 0 =>
    IF Line = NO_LINE_BREAK \/ input = <<>> THEN Breakpoints = {}
    ELSE /\ Len(text) \in Breakpoints
         /\ LineLengths \subseteq {Full} \cup {n \in 1 .. Full : n % 4 = 0}
         /\ Len(text) = ((Len(input) + 2) \div 3) * 4
                        + 2 * ((Len(text) + Full + 1) \div (Full + 2))
=============================================================================
