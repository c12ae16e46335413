---------------------------- MODULE MCGuestPlatform ----------------------------
(* GuestPlatform on small samples, and addresses at the policy's edges.    *)
EXTENDS GuestPlatform

CONSTANTS s1, s2, r1, r2

TwoSocks == {s1, s2}
TwoReaders == {r1, r2}

Group(n) == <<n>>

Edges ==
  {V4(<<9, 255, 255, 255>>), V4(<<10, 0, 0, 1>>), V4(<<10, 7, 0, 1>>), V4(<<100, 63, 255, 255>>),
   V4(<<100, 127, 0, 1>>), V4(<<100, 128, 0, 0>>), V4(<<172, 31, 0, 1>>), V4(<<172, 32, 0, 0>>),
   V4(<<198, 19, 0, 1>>), V4(<<198, 20, 0, 0>>), V4(<<223, 255, 0, 0>>), V4(<<239, 0, 0, 1>>),
   V6(<<<<>>, <<Group(1)>>>>), V6(<<<<>>, <<Group(2)>>>>), V6(<<<<Group(64768)>>, <<Group(1)>>>>),
   V6(<<<<Group(65215)>>, <<Group(1)>>>>), V6(<<<<Group(65216)>>, <<Group(1)>>>>),
   V6(<<<<Group(8193)>>, <<Group(1)>>>>),
   V6(<<<<>>, <<Group(65535), <<127, 0, 0, 1>>>>>>),
   V6(<<<<>>, <<Group(65535), <<10, 7, 0, 1>>>>>>)}

\* policy.allow names 10.7.0.0/16
AllowTen == {Rule(V4(<<10, 7, 0, 0>>), 16)}
TenExcepted == {<<<<10, 7, 0, 0>>, <<10, 7, 255, 255>>>>}

\* the code units at the edges of UTF-8's lengths, of the surrogates, and two marks
Units == {65, 127, 128, 2047, 2048, 55295, 55296, 56319, 56320, 57343, 65279, 65533}

SampleTexts == UNION {[1 .. n -> Units] : n \in 0 .. 3}

Values == {"undefined", "-0", "NaN", "text", "root", "child"}

Objects ==
  [kind : {"array"}, parts : UNION {[1 .. n -> Values \cup {"hole"}] : n \in 0 .. 2}]
    \cup [kind : {"object"}, parts : UNION {[1 .. n -> Values] : n \in 0 .. 1}]
    \cup [kind : {"Uint8Array", "ArrayBuffer"}, parts : {<<>>, <<"ff">>}]
    \cup [kind : {"detached", "instance"}, parts : {<<>>}]

SampleHeaps == [{"root", "child"} -> Objects]

=============================================================================
