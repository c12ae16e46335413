----------------------------- MODULE AddressPolicy -----------------------------
(***************************************************************************)
(* Which addresses the host dials for a worker                             *)
(* (node-harness/src/host/address-policy.ts).  An address's text is        *)
(* abstracted to what splitting it leaves: an IPv4 text to its numbers, an *)
(* IPv6 text to the parts around "::", each a sequence of groups, a group  *)
(* being one number or a dotted quad.                                      *)
(***************************************************************************)
EXTENDS SequencesExt, Integers

V4(numbers) == [v6 |-> FALSE, parts |-> <<<<numbers>>>>]
V6(parts) == [v6 |-> TRUE, parts |-> parts]

\* the bytes of a text that is no address
NotAnAddress == <<>>

FromQuad(q) ==
  IF Len(q) = 4 /\ \A i \in 1 .. 4 : q[i] \in 0 .. 255 THEN q ELSE NotAnAddress

\* a dotted quad stands for two groups
FromGroups(part) ==
  FlattenSeq([i \in DOMAIN part |->
    IF Len(part[i]) = 1 THEN part[i]
    ELSE <<part[i][1] * 256 + part[i][2], part[i][3] * 256 + part[i][4]>>])

GroupsFit(part) ==
  \A i \in DOMAIN part :
    \/ Len(part[i]) = 1 /\ part[i][1] \in 0 .. 65535
    \/ Len(part[i]) = 4 /\ FromQuad(part[i]) # NotAnAddress

\* "::" stands for as many zero groups as are missing, and its second "::" for nothing
FromParts(parts) ==
  LET head == FromGroups(parts[1])
      tail == IF Len(parts) = 1 THEN <<>> ELSE FromGroups(parts[2])
      groups == head \o [i \in 1 .. (8 - Len(head) - Len(tail)) |-> 0] \o tail
  IN  FlattenSeq([i \in 1 .. 8 |-> <<groups[i] \div 256, groups[i] % 256>>])

WellFormed(parts) ==
  LET used == IF Len(parts) = 1 THEN <<parts[1]>> ELSE <<parts[1], parts[2]>>
      count == Len(FromGroups(FlattenSeq(used)))
  IN  /\ \A i \in DOMAIN used : GroupsFit(used[i])
      /\ IF Len(parts) = 1 THEN count = 8 ELSE count <= 8

ToBytes(text) ==
  CASE ~text.v6 -> FromQuad(text.parts[1][1])
    [] text.v6 /\ WellFormed(text.parts) -> FromParts(text.parts)
    [] OTHER -> NotAnAddress

-----------------------------------------------------------------------------

Rule(text, bits) == [bytes |-> ToBytes(text), bits |-> bits]

\* the whole bytes of the prefix are compared as they are, the last under its mask
Matches_WholeBytes(addr, rule) ==
  /\ Len(addr) = Len(rule.bytes)
  /\ \A i \in 1 .. (rule.bits \div 8) : addr[i] = rule.bytes[i]

Matches(addr, rule) ==
  LET whole == rule.bits \div 8
      ignored == 2 ^ (8 - (rule.bits % 8))
  IN  /\ Len(addr) = Len(rule.bytes)
      /\ \A i \in 1 .. whole : addr[i] = rule.bytes[i]
      /\ rule.bits % 8 # 0 =>
           addr[whole + 1] \div ignored = rule.bytes[whole + 1] \div ignored

NonGlobal ==
  {Rule(V4(<<0, 0, 0, 0>>), 8), Rule(V4(<<10, 0, 0, 0>>), 8), Rule(V4(<<100, 64, 0, 0>>), 10),
   Rule(V4(<<127, 0, 0, 0>>), 8), Rule(V4(<<169, 254, 0, 0>>), 16),
   Rule(V4(<<172, 16, 0, 0>>), 12), Rule(V4(<<192, 0, 0, 0>>), 24),
   Rule(V4(<<192, 168, 0, 0>>), 16), Rule(V4(<<198, 18, 0, 0>>), 15),
   Rule(V4(<<224, 0, 0, 0>>), 4), Rule(V4(<<240, 0, 0, 0>>), 4),
   Rule(V6(<<<<>>, <<<<1>>>>>>), 128), Rule(V6(<<<<>>, <<>>>>), 128),
   Rule(V6(<<<<<<64512>>>>, <<>>>>), 7), Rule(V6(<<<<<<65152>>>>, <<>>>>), 10),
   Rule(V6(<<<<<<65280>>>>, <<>>>>), 8),
   Rule(V6(<<<<>>, <<<<65535>>, <<0, 0, 0, 0>>>>>>), 96)}

Mapped(bytes) ==
  /\ Len(bytes) = 16
  /\ \A i \in 1 .. 10 : bytes[i] = 0
  /\ bytes[11] = 255 /\ bytes[12] = 255

UnmapV4(bytes) == IF Mapped(bytes) THEN SubSeq(bytes, 13, 16) ELSE NotAnAddress

\* an IPv4-mapped address answers to the rules of either form
Permits(text, allow, allowAll) ==
  LET bytes == ToBytes(text)
      Hit(rules) == \E r \in rules : Matches(bytes, r) \/ Matches(UnmapV4(bytes), r)
  IN  \/ allowAll
      \/ bytes # NotAnAddress /\ (Hit(allow) \/ ~Hit(NonGlobal))

-----------------------------------------------------------------------------

(***************************************************************************)
(* What the policy promises, said without prefixes: the destinations it    *)
(* keeps a worker from are these intervals, and every IPv4-mapped address; *)
(* the host's exceptions are given as intervals too.                       *)
(***************************************************************************)
AtMost(a, b) ==
  a = b \/ \E i \in DOMAIN a : a[i] < b[i] /\ \A j \in 1 .. (i - 1) : a[j] = b[j]

Within(x, lo, hi) == Len(x) = Len(lo) /\ AtMost(lo, x) /\ AtMost(x, hi)

Wide(first, rest) == <<first \div 256, first % 256>> \o [i \in 1 .. 14 |-> rest]

HostOnly(x) ==
  \/ Len(x) = 4 /\ \/ x[1] \in {0, 10, 127} \/ x[1] >= 224
                   \/ Within(x, <<100, 64, 0, 0>>, <<100, 127, 255, 255>>)
                   \/ Within(x, <<169, 254, 0, 0>>, <<169, 254, 255, 255>>)
                   \/ Within(x, <<172, 16, 0, 0>>, <<172, 31, 255, 255>>)
                   \/ Within(x, <<192, 0, 0, 0>>, <<192, 0, 0, 255>>)
                   \/ Within(x, <<192, 168, 0, 0>>, <<192, 168, 255, 255>>)
                   \/ Within(x, <<198, 18, 0, 0>>, <<198, 19, 255, 255>>)
  \/ Len(x) = 16 /\ \/ \A i \in 1 .. 15 : x[i] = 0 /\ x[16] \in {0, 1}
                    \/ Within(x, Wide(64512, 0), Wide(65023, 255))
                    \/ Within(x, Wide(65152, 0), Wide(65215, 255))
                    \/ Within(x, Wide(65280, 0), Wide(65535, 255))
                    \/ Mapped(x)

Reachable(x, exceptions) ==
  \/ \E e \in exceptions : Within(x, e[1], e[2]) \/ Within(UnmapV4(x), e[1], e[2])
  \/ ~HostOnly(x)

=============================================================================
