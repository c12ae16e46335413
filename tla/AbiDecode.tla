------------------------------- MODULE AbiDecode -------------------------------
(***************************************************************************)
(* What a harness reads out of the answer to workerResolvers(), which      *)
(* comes from an RPC endpoint it does not trust                            *)
(* (harness-core/src/specifier.ts).  An answer is a sequence of bytes, and *)
(* a word of it is WordSize bytes; a string is a sequence of bytes too.    *)
(***************************************************************************)
EXTENDS Integers, SequencesExt

CONSTANTS
  WordSize,    \* 32 in the code
  ByteValues,  \* 256 in the code
  MaxSafe      \* Number.MAX_SAFE_INTEGER

Throws == [ok |-> FALSE, list |-> <<>>]
OutOfBounds == -1

\* the number that starts after `at` bytes
Word(ret, at) ==
  IF at + WordSize > Len(ret) THEN OutOfBounds
  ELSE LET n == FoldLeft(LAMBDA sum, byte : (sum * ByteValues) + byte, 0,
                         SubSeq(ret, at + 1, at + WordSize))
       IN  IF n > MaxSafe THEN OutOfBounds ELSE n

NoString == <<OutOfBounds>>

StringAt_Sliced(ret, from, at) ==
  LET offset == from + Word(ret, at)
      length == Word(ret, offset)
  IN  IF Word(ret, at) = OutOfBounds \/ length = OutOfBounds THEN NoString
      ELSE SubSeq(ret, offset + WordSize + 1,
                  IF offset + WordSize + length > Len(ret) THEN Len(ret) ELSE offset + WordSize + length)

\* the string whose offset, which counts from `from`, is the word after `at` bytes
StringAt(ret, from, at) ==
  LET offset == from + Word(ret, at)
      length == Word(ret, offset)
  IN  IF \/ Word(ret, at) = OutOfBounds \/ length = OutOfBounds
         \/ offset + WordSize + length > Len(ret)
      THEN NoString
      ELSE SubSeq(ret, offset + WordSize + 1, offset + WordSize + length)

DecodeStringArray(ret) ==
  LET base == Word(ret, 0)
      length == Word(ret, base)
      first == base + WordSize
      strings == [i \in 1 .. length |-> StringAt(ret, first, first + (i - 1) * WordSize)]
  IN  IF \/ base = OutOfBounds \/ length = OutOfBounds
         \/ first + length * WordSize > Len(ret) \/ NoString \in ToSet(strings)
      THEN Throws
      ELSE [ok |-> TRUE, list |-> strings]

-----------------------------------------------------------------------------

\* a reference: the encoding of a list of strings, each padded to whole words
Number(n) == [i \in 1 .. WordSize |-> (n \div ByteValues ^ (WordSize - i)) % ByteValues]
Padding(s) == [i \in 1 .. ((WordSize - (Len(s) % WordSize)) % WordSize) |-> 0]
Tails(list) == [i \in DOMAIN list |-> Number(Len(list[i])) \o list[i] \o Padding(list[i])]
OffsetOf(list, i) == Len(list) * WordSize + Len(FlattenSeq(SubSeq(Tails(list), 1, i - 1)))

Encode(list) ==
  Number(WordSize) \o Number(Len(list))
    \o FlattenSeq([i \in DOMAIN list |-> Number(OffsetOf(list, i))]) \o FlattenSeq(Tails(list))

\* nothing that was decoded is longer than the answer it is out of
Fits(decoded, ret) ==
  /\ Len(decoded.list) * WordSize <= Len(ret)
  /\ \A i \in DOMAIN decoded.list : Len(decoded.list[i]) + WordSize <= Len(ret)

(***************************************************************************)
(* specifier.ts:150-151: what the contract returns is read as it is, an    *)
(* answer cut short is read as the same list or throws, and no word that   *)
(* was tampered with makes more of the answer than it holds.               *)
(***************************************************************************)
Intact(list) ==
  LET whole == Encode(list)
      read(n) == DecodeStringArray(SubSeq(whole, 1, n))
      tampered == {[whole EXCEPT ![i] = v] : i \in DOMAIN whole, v \in 0 .. (ByteValues - 1)}
  IN  /\ read(Len(whole)) = [ok |-> TRUE, list |-> list]
      /\ \A n \in 0 .. Len(whole) : read(n) \in {Throws, [ok |-> TRUE, list |-> list]}
      /\ \A ret \in tampered : Fits(DecodeStringArray(ret), ret)

=============================================================================
