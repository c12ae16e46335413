------------------------------- MODULE GuestText -------------------------------
(***************************************************************************)
(* The TextEncoder and TextDecoder a worker finds in the isolate           *)
(* (node-harness/src/child/prelude.guest.js), which has none of its own.   *)
(* A string is a sequence of UTF-16 code units, bytes are numbers.         *)
(***************************************************************************)
EXTENDS Integers, SequencesExt

Replacement == 65533   \* U+FFFD
ByteOrderMark == 65279 \* U+FEFF

Leads == 55296 .. 56319
Trails == 56320 .. 57343

\* the code points of a string, a lone surrogate being the replacement
RECURSIVE CodePoints(_)
CodePoints(s) ==
  IF s = <<>> THEN <<>>
  ELSE IF Len(s) > 1 /\ s[1] \in Leads /\ s[2] \in Trails
       THEN <<65536 + (s[1] - 55296) * 1024 + (s[2] - 56320)>> \o CodePoints(SubSeq(s, 3, Len(s)))
       ELSE <<IF s[1] \in Leads \cup Trails THEN Replacement ELSE s[1]>> \o CodePoints(Tail(s))

Continuation(c, shift) == 128 + ((c \div shift) % 64)

Utf8(c) ==
  CASE c < 128   -> <<c>>
    [] c \in 128 .. 2047 -> <<192 + (c \div 64), Continuation(c, 1)>>
    [] c \in 2048 .. 65535 -> <<224 + (c \div 4096), Continuation(c, 64), Continuation(c, 1)>>
    [] OTHER -> <<240 + (c \div 262144), Continuation(c, 4096), Continuation(c, 64),
                  Continuation(c, 1)>>

Encode(s) == FlattenSeq([i \in DOMAIN CodePoints(s) |-> Utf8(CodePoints(s)[i])])

\* how many bytes the code point that starts with `c` is to take, and its first bits
Size(c) == CASE c \in 192 .. 223 -> 2 [] c \in 224 .. 239 -> 3 [] c \in 240 .. 247 -> 4 [] OTHER -> 1
Bits(c) == CASE Size(c) = 1 -> IF c < 128 THEN c ELSE Replacement
             [] Size(c) = 2 -> c % 32 [] Size(c) = 3 -> c % 16 [] OTHER -> c % 8

Gathered(b, size) ==
  FoldLeft(LAMBDA bits, c : (bits * 64) + (c % 64), Bits(b[1]), SubSeq(b, 2, size))

FirstPoint_CutEarly(b) ==
  LET size == Size(b[1])
  IN  IF size > 1 /\ size >= Len(b) THEN [point |-> Replacement, size |-> Len(b)]
      ELSE IF \A i \in 2 .. size : b[i] \in 128 .. 191
           THEN [point |-> Gathered(b, size), size |-> size]
           ELSE [point |-> Replacement, size |-> 1]

\* bytes that are cut short make one replacement, a byte that does not continue makes another
FirstPoint(b) ==
  LET size == Size(b[1])
  IN  IF size > Len(b) THEN [point |-> Replacement, size |-> Len(b)]
      ELSE IF \A i \in 2 .. size : b[i] \in 128 .. 191
           THEN [point |-> Gathered(b, size), size |-> size]
           ELSE [point |-> Replacement, size |-> 1]

RECURSIVE Points(_)
Points(b) ==
  IF b = <<>> THEN <<>>
  ELSE <<FirstPoint(b).point>> \o Points(SubSeq(b, FirstPoint(b).size + 1, Len(b)))

Units(p) ==
  IF p > 65535 THEN <<55296 + ((p - 65536) \div 1024), 56320 + ((p - 65536) % 1024)>> ELSE <<p>>

Throws == <<-1>>   \* what a decoding that throws is here

Decode(b, fatal, ignoreBOM) ==
  LET points == Points(b)
      units == FlattenSeq([i \in DOMAIN points |-> Units(points[i])])
  IN  IF fatal /\ Replacement \in ToSet(points) THEN Throws
      ELSE IF ~ignoreBOM /\ units # <<>> /\ Head(units) = ByteOrderMark THEN Tail(units)
      ELSE units

-----------------------------------------------------------------------------

\* a reference: the string with each lone surrogate replaced
WellFormed(s) ==
  [i \in DOMAIN s |->
     IF \/ s[i] \in Leads /\ ~(i < Len(s) /\ s[i + 1] \in Trails)
        \/ s[i] \in Trails /\ ~(i > 1 /\ s[i - 1] \in Leads)
     THEN Replacement ELSE s[i]]

(***************************************************************************)
(* What TextEncoder encodes, TextDecoder decodes to the same string with   *)
(* its lone surrogates replaced (prelude.guest.js:100-101).  Unless told   *)
(* otherwise it drops one byte order mark, and when fatal it refuses just  *)
(* the strings with a replacement in them, those that had one all along    *)
(* included.                                                               *)
(***************************************************************************)
Survives(s) ==
  LET formed == WellFormed(s)
  IN  /\ Decode(Encode(s), FALSE, TRUE) = formed
      /\ Decode(Encode(s), FALSE, FALSE) =
           IF formed # <<>> /\ Head(formed) = ByteOrderMark THEN Tail(formed) ELSE formed
      /\ Decode(Encode(s), TRUE, TRUE) = IF Replacement \in ToSet(formed) THEN Throws ELSE formed

=============================================================================
