-------------------------- MODULE CallQueueTheorems --------------------------
(***************************************************************************)
(* What the operations of CallQueue return: a queue of the same type that  *)
(* still serves whoever waits, and gifts of the right type.  And what the  *)
(* proofs about calls that wait, or travel in messages, need of sequences: *)
(* who is in them, in which order, and on the line a call takes from the   *)
(* queue to the bundle.                                                    *)
(***************************************************************************)
EXTENDS CallQueue, SequenceTheorems, FiniteSetTheorems, WellFoundedInduction, TLAPS

Gift(Items, Takers) == [taker : Takers, item : Items]

(***************************************************************************)
(* A non-empty set of natural numbers has a least element.                 *)
(***************************************************************************)
LEMMA LeastExists ==
  ASSUME NEW I, I \subseteq Nat, I # {}
  PROVE  Min(I) \in I /\ \A y \in I : Min(I) <= y
<1>. DEFINE Less == {p \in Nat \X Nat : p[1] < p[2]}
<1>1. Less = OpToRel(<, Nat)
  BY DEF OpToRel
<1>2. IsWellFoundedOn(Less, Nat)
  BY <1>1, NatLessThanWellFounded
<1>3. \A m, n \in Nat : m < n => <<m, n>> \in Less
  OBVIOUS
<1>. HIDE DEF Less
<1>4. PICK x \in I : \A y \in I : ~(<<y, x>> \in Less)
  BY <1>2, WFMin
<1>5. ASSUME NEW y \in I PROVE x <= y
  <2>1. x \in Nat /\ y \in Nat
    OBVIOUS
  <2>2. ~(y < x)
    BY <1>3, <1>4, <2>1
  <2>. QED  BY <2>1, <2>2
<1>. QED  BY <1>5 DEF Min

(***************************************************************************)
(* RemoveFirst (indexOf and splice) takes one occurrence out of a sequence *)
(* that has one.                                                           *)
(***************************************************************************)
LEMMA RemoveFirstAt ==
  ASSUME NEW s, NEW e, Contains(s, e), Len(s) \in Nat
  PROVE  \E k \in 1 .. Len(s) :
           s[k] = e /\ RemoveFirst(s, e) = SubSeq(s, 1, k - 1) \o SubSeq(s, k + 1, Len(s))
<1>. DEFINE I == {i \in 1 .. Len(s) : s[i] = e}
<1>1. I # {} /\ I \subseteq Nat
  BY DEF Contains
<1>2. Min(I) \in I
  BY <1>1, LeastExists
<1>3. RemoveFirst(s, e) = RemoveAt(s, Min(I))
  BY <1>1 DEF RemoveFirst, SelectInSeq
<1>. QED  BY <1>2, <1>3 DEF RemoveAt

(***************************************************************************)
(* RemoveFirst keeps the type of a sequence.                               *)
(***************************************************************************)
LEMMA RemoveFirstType ==
  ASSUME NEW S, NEW s \in Seq(S), NEW e
  PROVE  RemoveFirst(s, e) \in Seq(S)
<1>1. CASE Contains(s, e)
  <2>1. PICK k \in 1 .. Len(s) :
          RemoveFirst(s, e) = SubSeq(s, 1, k - 1) \o SubSeq(s, k + 1, Len(s))
    BY <1>1, RemoveFirstAt, LenProperties
  <2>2. \A i \in 1 .. Len(s) : s[i] \in S
    BY ElementOfSeq
  <2>3. SubSeq(s, 1, k - 1) \in Seq(S)
    BY <2>2, SubSeqProperties
  <2>4. SubSeq(s, k + 1, Len(s)) \in Seq(S)
    BY <2>2, SubSeqProperties
  <2>. QED  BY <2>1, <2>3, <2>4, ConcatProperties
<1>2. CASE ~Contains(s, e)
  BY <1>2 DEF RemoveFirst, Contains
<1>. QED  BY <1>1, <1>2

(***************************************************************************)
(* take() keeps the queue's type and gives an item to the taker.           *)
(***************************************************************************)
LEMMA TakeType ==
  ASSUME NEW Items, NEW Takers, NEW q \in QueueOf(Items, Takers), NEW w \in Takers
  PROVE  /\ Take(q, w).queue \in QueueOf(Items, Takers)
         /\ Take(q, w).given \in Seq(Gift(Items, Takers))
<1>1. CASE q.items # <<>>
  <2>1. Head(q.items) \in Items /\ Tail(q.items) \in Seq(Items)
    BY <1>1, HeadTailProperties DEF QueueOf
  <2>2. Take(q, w) = Gives([q EXCEPT !.items = Tail(q.items)], w, Head(q.items))
    BY <1>1 DEF Take
  <2>3. [q EXCEPT !.items = Tail(q.items)] \in QueueOf(Items, Takers)
    BY <2>1 DEF QueueOf
  <2>4. [taker |-> w, item |-> Head(q.items)] \in Gift(Items, Takers)
    BY <2>1 DEF Gift
  <2>. QED  BY <2>2, <2>3, <2>4 DEF Gives
<1>2. CASE q.items = <<>>
  BY <1>2 DEF Take, Nothing, QueueOf
<1>. QED  BY <1>1, <1>2

(***************************************************************************)
(* push() and pushFront() keep the queue's type and give the item.         *)
(***************************************************************************)
LEMMA PushType ==
  ASSUME NEW Items, NEW Takers, NEW q \in QueueOf(Items, Takers), NEW x \in Items
  PROVE  /\ Push(q, x).queue \in QueueOf(Items, Takers)
         /\ Push(q, x).given \in Seq(Gift(Items, Takers))
         /\ PushFront(q, x).queue \in QueueOf(Items, Takers)
         /\ PushFront(q, x).given \in Seq(Gift(Items, Takers))
<1>1. CASE q.takers # <<>>
  <2>1. Head(q.takers) \in Takers /\ Tail(q.takers) \in Seq(Takers)
    BY <1>1, HeadTailProperties DEF QueueOf
  <2>2. /\ Push(q, x) = Gives([q EXCEPT !.takers = Tail(q.takers)], Head(q.takers), x)
        /\ PushFront(q, x) = Push(q, x)
    BY <1>1 DEF Push, PushFront, ServeTaker
  <2>3. [q EXCEPT !.takers = Tail(q.takers)] \in QueueOf(Items, Takers)
    BY <2>1 DEF QueueOf
  <2>4. [taker |-> Head(q.takers), item |-> x] \in Gift(Items, Takers)
    BY <2>1 DEF Gift
  <2>. QED  BY <2>2, <2>3, <2>4 DEF Gives
<1>2. CASE q.takers = <<>>
  <2>1. q.items \in Seq(Items) /\ <<x>> \in Seq(Items)
    BY DEF QueueOf
  <2>2. Append(q.items, x) \in Seq(Items) /\ <<x>> \o q.items \in Seq(Items)
    BY <2>1, ConcatProperties
  <2>3. /\ Push(q, x) = Nothing([q EXCEPT !.items = Append(q.items, x)])
        /\ PushFront(q, x) = Nothing([q EXCEPT !.items = <<x>> \o q.items])
    BY <1>2 DEF Push, PushFront
  <2>4. /\ [q EXCEPT !.items = Append(q.items, x)] \in QueueOf(Items, Takers)
        /\ [q EXCEPT !.items = <<x>> \o q.items] \in QueueOf(Items, Takers)
    BY <2>2 DEF QueueOf
  <2>. QED  BY <2>3, <2>4, EmptySeq DEF Nothing
<1>. QED  BY <1>1, <1>2

(***************************************************************************)
(* remove() and a withdrawn taker keep the queue's type.                   *)
(***************************************************************************)
LEMMA RemoveItemType ==
  ASSUME NEW Items, NEW Takers, NEW q \in QueueOf(Items, Takers), NEW x
  PROVE  /\ RemoveItem(q, x) \in QueueOf(Items, Takers)
         /\ WithdrawTaker(q, x) \in QueueOf(Items, Takers)
BY RemoveFirstType DEF RemoveItem, WithdrawTaker, QueueOf

(***************************************************************************)
(* rejectAll() leaves a queue.                                             *)
(***************************************************************************)
LEMMA RejectAllType ==
  ASSUME NEW Items, NEW Takers, NEW q
  PROVE  /\ RejectAll(q) \in QueueOf(Items, Takers)
         /\ EmptyQueue \in QueueOf(Items, Takers)
BY EmptySeq DEF RejectAll, EmptyQueue, QueueOf

-----------------------------------------------------------------------------
(* Sequences of calls, and of messages of which some carry calls: where a  *)
(* call is, and in which order calls are.  An order is a set of pairs.     *)

Distinct(S) == {p \in S \X S : p[1] # p[2]}

InOrder(s, R) == \A i, j \in 1 .. Len(s) : i < j => <<s[i], s[j]>> \in R

Carries(s, k, c) == \E i \in 1 .. Len(s) : s[i].kind = k /\ s[i].call = c

CarriedInOrder(s, k, R) ==
  \A i, j \in 1 .. Len(s) :
    i < j /\ s[i].kind = k /\ s[j].kind = k => <<s[i].call, s[j].call>> \in R

(***************************************************************************)
(* What a message at the end adds.                                         *)
(***************************************************************************)
LEMMA AppendCarries ==
  ASSUME NEW S, NEW s \in Seq(S), NEW m \in S, NEW k
  PROVE  /\ \A c : Carries(Append(s, m), k, c) <=> Carries(s, k, c) \/ (m.kind = k /\ m.call = c)
         /\ \A R : /\ CarriedInOrder(s, k, R)
                   /\ m.kind = k => \A c : Carries(s, k, c) => <<c, m.call>> \in R
                   => CarriedInOrder(Append(s, m), k, R)
<1>. DEFINE t == Append(s, m)
<1>1. /\ Len(s) \in Nat /\ Len(t) = Len(s) + 1 /\ t[Len(s) + 1] = m
      /\ \A i \in 1 .. Len(s) : t[i] = s[i]
  BY LenProperties, AppendProperties
<1>. HIDE DEF t
<1>2. ASSUME NEW c
      PROVE  Carries(t, k, c) <=> Carries(s, k, c) \/ (m.kind = k /\ m.call = c)
  BY <1>1 DEF Carries
<1>3. ASSUME NEW R, CarriedInOrder(s, k, R),
             m.kind = k => \A c : Carries(s, k, c) => <<c, m.call>> \in R
      PROVE  CarriedInOrder(t, k, R)
  BY <1>1, <1>3 DEF Carries, CarriedInOrder
<1>. QED  BY <1>2, <1>3 DEF t

(***************************************************************************)
(* What the first message takes away.                                      *)
(***************************************************************************)
LEMMA TailCarries ==
  ASSUME NEW S, NEW s \in Seq(S), s # <<>>, NEW k
  PROVE  /\ \A c : Carries(s, k, c) <=>
                     Carries(Tail(s), k, c) \/ (Head(s).kind = k /\ Head(s).call = c)
         /\ \A R : CarriedInOrder(s, k, R) =>
              /\ CarriedInOrder(Tail(s), k, R)
              /\ Head(s).kind = k => \A c : Carries(Tail(s), k, c) => <<Head(s).call, c>> \in R
<1>. DEFINE t == Tail(s)
<1>1. /\ Len(s) \in Nat /\ Len(t) = Len(s) - 1 /\ Len(s) > 0 /\ Head(s) = s[1]
      /\ \A i \in 1 .. Len(t) : t[i] = s[i + 1]
  BY LenProperties, HeadTailProperties, EmptySeq
<1>2. \A i \in 2 .. Len(s) : s[i] = t[i - 1] /\ i - 1 \in 1 .. Len(t)
  <2>1. ASSUME NEW i \in 2 .. Len(s) PROVE i - 1 \in 1 .. Len(t) /\ (i - 1) + 1 = i
    BY <1>1
  <2>. QED  BY <2>1, <1>1
<1>. HIDE DEF t
<1>3. ASSUME NEW c
      PROVE  Carries(s, k, c) <=> Carries(t, k, c) \/ (Head(s).kind = k /\ Head(s).call = c)
  <2>1. ASSUME Carries(s, k, c), ~(Head(s).kind = k /\ Head(s).call = c)
        PROVE  Carries(t, k, c)
    <3>1. PICK i \in 1 .. Len(s) : s[i].kind = k /\ s[i].call = c
      BY <2>1 DEF Carries
    <3>2. i \in 2 .. Len(s)
      BY <1>1, <2>1, <3>1
    <3>. QED  BY <1>2, <3>1, <3>2 DEF Carries
  <2>2. ASSUME Carries(t, k, c) PROVE Carries(s, k, c)
    <3>1. PICK i \in 1 .. Len(t) : t[i].kind = k /\ t[i].call = c
      BY <2>2 DEF Carries
    <3>2. i + 1 \in 1 .. Len(s) /\ s[i + 1] = t[i]
      BY <1>1
    <3>. QED  BY <3>1, <3>2 DEF Carries
  <2>3. Head(s).kind = k /\ Head(s).call = c => Carries(s, k, c)
    BY <1>1 DEF Carries
  <2>. QED  BY <2>1, <2>2, <2>3
<1>4. ASSUME NEW R, CarriedInOrder(s, k, R)
      PROVE  CarriedInOrder(t, k, R)
  <2>. SUFFICES ASSUME NEW i \in 1 .. Len(t), NEW j \in 1 .. Len(t),
                       i < j, t[i].kind = k, t[j].kind = k
                PROVE  <<t[i].call, t[j].call>> \in R
    BY DEF CarriedInOrder
  <2>1. /\ i + 1 \in 1 .. Len(s) /\ j + 1 \in 1 .. Len(s) /\ i + 1 < j + 1
        /\ t[i] = s[i + 1] /\ t[j] = s[j + 1]
    BY <1>1
  <2>. QED  BY <1>4, <2>1 DEF CarriedInOrder
<1>5. ASSUME NEW R, CarriedInOrder(s, k, R), Head(s).kind = k, NEW c, Carries(t, k, c)
      PROVE  <<Head(s).call, c>> \in R
  <2>1. PICK i \in 1 .. Len(t) : t[i].kind = k /\ t[i].call = c
    BY <1>5 DEF Carries
  <2>2. 1 \in 1 .. Len(s) /\ i + 1 \in 1 .. Len(s) /\ 1 < i + 1 /\ t[i] = s[i + 1]
    BY <1>1
  <2>. QED  BY <1>1, <1>5, <2>1, <2>2 DEF CarriedInOrder
<1>. QED  BY <1>3, <1>4, <1>5 DEF t

(***************************************************************************)
(* What messages of other kinds add: nothing.                              *)
(***************************************************************************)
LEMMA ConcatCarries ==
  ASSUME NEW S, NEW s \in Seq(S), NEW t \in Seq(S), NEW k, \A i \in 1 .. Len(t) : t[i].kind # k
  PROVE  /\ \A c : Carries(s \o t, k, c) <=> Carries(s, k, c)
         /\ \A R : CarriedInOrder(s, k, R) => CarriedInOrder(s \o t, k, R)
<1>. DEFINE u == s \o t
<1>1. /\ Len(s) \in Nat /\ Len(t) \in Nat /\ Len(u) = Len(s) + Len(t)
      /\ \A i \in 1 .. Len(s) : u[i] = s[i]
      /\ \A i \in Len(s) + 1 .. Len(u) : u[i].kind # k
  <2>1. /\ Len(s) \in Nat /\ Len(t) \in Nat /\ Len(u) = Len(s) + Len(t)
        /\ \A i \in 1 .. Len(s) + Len(t) : u[i] = IF i <= Len(s) THEN s[i] ELSE t[i - Len(s)]
    BY LenProperties, ConcatProperties
  <2>. HIDE DEF u
  <2>. QED  BY <2>1
<1>. HIDE DEF u
<1>2. ASSUME NEW c PROVE Carries(u, k, c) <=> Carries(s, k, c)
  BY <1>1 DEF Carries
<1>3. ASSUME NEW R, CarriedInOrder(s, k, R) PROVE CarriedInOrder(u, k, R)
  <2>. SUFFICES ASSUME NEW i \in 1 .. Len(u), NEW j \in 1 .. Len(u),
                       i < j, u[i].kind = k, u[j].kind = k
                PROVE  <<u[i].call, u[j].call>> \in R
    BY DEF CarriedInOrder
  <2>1. i \in 1 .. Len(s) /\ j \in 1 .. Len(s)
    BY <1>1
  <2>. QED  BY <1>1, <1>3, <2>1 DEF CarriedInOrder
<1>. QED  BY <1>2, <1>3 DEF u

(***************************************************************************)
(* The messages of kind k about a call come before those of kind l.        *)
(***************************************************************************)
Ahead(s, k, l) ==
  \A i, j \in 1 .. Len(s) : s[i].kind = k /\ s[j].kind = l /\ s[i].call = s[j].call => i < j

(***************************************************************************)
(* A message joins: one of the kind that goes ahead must find none of the  *)
(* other that is about its call.                                           *)
(***************************************************************************)
LEMMA AppendAhead ==
  ASSUME NEW S, NEW s \in Seq(S), NEW m \in S, NEW k, NEW l, k # l, Ahead(s, k, l),
         m.kind = k => ~Carries(s, l, m.call)
  PROVE  Ahead(Append(s, m), k, l)
<1>. DEFINE t == Append(s, m)
<1>1. /\ Len(s) \in Nat /\ Len(t) = Len(s) + 1 /\ t[Len(s) + 1] = m
      /\ \A i \in 1 .. Len(s) : t[i] = s[i]
  BY LenProperties, AppendProperties
<1>. HIDE DEF t
<1>. SUFFICES ASSUME NEW i \in 1 .. Len(t), NEW j \in 1 .. Len(t),
                     t[i].kind = k, t[j].kind = l, t[i].call = t[j].call
              PROVE  i < j
  BY DEF Ahead, t
<1>2. CASE i \in 1 .. Len(s) /\ j \in 1 .. Len(s)
  BY <1>1, <1>2 DEF Ahead
<1>3. CASE i = Len(s) + 1 /\ j \in 1 .. Len(s)
  BY <1>1, <1>3 DEF Carries
<1>4. CASE i \in 1 .. Len(s) /\ j = Len(s) + 1
  BY <1>1, <1>4
<1>5. ~(i = Len(s) + 1 /\ j = Len(s) + 1)
  BY <1>1
<1>. QED  BY <1>1, <1>2, <1>3, <1>4, <1>5

(***************************************************************************)
(* The first leaves: what it was to be behind does not follow it.          *)
(***************************************************************************)
LEMMA TailAhead ==
  ASSUME NEW S, NEW s \in Seq(S), s # <<>>, NEW k, NEW l, Ahead(s, k, l)
  PROVE  /\ Ahead(Tail(s), k, l)
         /\ Head(s).kind = l => \A c : c = Head(s).call => ~Carries(Tail(s), k, c)
<1>. DEFINE t == Tail(s)
<1>1. /\ Len(s) \in Nat /\ Len(t) = Len(s) - 1 /\ Len(s) > 0 /\ Head(s) = s[1]
      /\ \A i \in 1 .. Len(t) : t[i] = s[i + 1]
  BY LenProperties, HeadTailProperties, EmptySeq
<1>. HIDE DEF t
<1>2. Ahead(t, k, l)
  <2>. SUFFICES ASSUME NEW i \in 1 .. Len(t), NEW j \in 1 .. Len(t),
                       t[i].kind = k, t[j].kind = l, t[i].call = t[j].call
                PROVE  i < j
    BY DEF Ahead
  <2>1. /\ i + 1 \in 1 .. Len(s) /\ j + 1 \in 1 .. Len(s)
        /\ t[i] = s[i + 1] /\ t[j] = s[j + 1]
    BY <1>1
  <2>2. i + 1 < j + 1
    BY <2>1 DEF Ahead
  <2>. QED  BY <2>2
<1>3. ASSUME Head(s).kind = l, NEW c, c = Head(s).call, Carries(t, k, c) PROVE FALSE
  <2>1. PICK i \in 1 .. Len(t) : t[i].kind = k /\ t[i].call = c
    BY <1>3 DEF Carries
  <2>2. 1 \in 1 .. Len(s) /\ i + 1 \in 1 .. Len(s) /\ t[i] = s[i + 1]
    BY <1>1
  <2>3. i + 1 < 1
    BY <1>1, <1>3, <2>1, <2>2 DEF Ahead
  <2>. QED  BY <2>3
<1>. QED  BY <1>2, <1>3 DEF t

(***************************************************************************)
(* The same for a sequence of calls: one joins at the end.                 *)
(***************************************************************************)
LEMMA AppendContains ==
  ASSUME NEW S, NEW s \in Seq(S), NEW x \in S
  PROVE  /\ \A c : Contains(Append(s, x), c) <=> Contains(s, c) \/ c = x
         /\ \A R : InOrder(s, R) /\ (\A c : Contains(s, c) => <<c, x>> \in R)
                     => InOrder(Append(s, x), R)
<1>. DEFINE t == Append(s, x)
<1>1. /\ Len(s) \in Nat /\ Len(t) = Len(s) + 1 /\ t[Len(s) + 1] = x
      /\ \A i \in 1 .. Len(s) : t[i] = s[i]
  BY LenProperties, AppendProperties
<1>. HIDE DEF t
<1>2. ASSUME NEW c PROVE Contains(t, c) <=> Contains(s, c) \/ c = x
  BY <1>1 DEF Contains
<1>3. ASSUME NEW R, InOrder(s, R), \A c : Contains(s, c) => <<c, x>> \in R
      PROVE  InOrder(t, R)
  BY <1>1, <1>3 DEF Contains, InOrder
<1>. QED  BY <1>2, <1>3 DEF t

(***************************************************************************)
(* The set of what a sequence contains.                                    *)
(***************************************************************************)
LEMMA SetContains ==
  ASSUME NEW S, NEW s \in Seq(S)
  PROVE  \A c : c \in ToSet(s) <=> Contains(s, c)
BY LenProperties DEF ToSet, Contains

(***************************************************************************)
(* It grows by what is appended.                                           *)
(***************************************************************************)
LEMMA AppendSet ==
  ASSUME NEW S, NEW s \in Seq(S), NEW x \in S
  PROVE  ToSet(Append(s, x)) = ToSet(s) \cup {x}
<1>1. Append(s, x) \in Seq(S)
  BY AppendProperties
<1>2. \A c : c \in ToSet(Append(s, x)) <=> Contains(Append(s, x), c)
  BY <1>1, SetContains
<1>3. \A c : Contains(Append(s, x), c) <=> Contains(s, c) \/ c = x
  BY AppendContains
<1>4. \A c : c \in ToSet(s) <=> Contains(s, c)
  BY SetContains
<1>. QED  BY <1>2, <1>3, <1>4

(***************************************************************************)
(* Taking the first off leaves what was behind it, in order.               *)
(***************************************************************************)
LEMMA TailContains ==
  ASSUME NEW S, NEW s \in Seq(S), s # <<>>
  PROVE  /\ \A c : Contains(s, c) <=> Contains(Tail(s), c) \/ c = Head(s)
         /\ \A R : InOrder(s, R) =>
              /\ InOrder(Tail(s), R)
              /\ \A c : Contains(Tail(s), c) => <<Head(s), c>> \in R
<1>. DEFINE t == Tail(s)
<1>1. /\ Len(s) \in Nat /\ Len(t) = Len(s) - 1 /\ Len(s) > 0 /\ Head(s) = s[1]
      /\ \A i \in 1 .. Len(t) : t[i] = s[i + 1]
  BY LenProperties, HeadTailProperties, EmptySeq
<1>2. \A i \in 2 .. Len(s) : s[i] = t[i - 1] /\ i - 1 \in 1 .. Len(t)
  <2>1. ASSUME NEW i \in 2 .. Len(s) PROVE i - 1 \in 1 .. Len(t) /\ (i - 1) + 1 = i
    BY <1>1
  <2>. QED  BY <2>1, <1>1
<1>. HIDE DEF t
<1>3. ASSUME NEW c PROVE Contains(s, c) <=> Contains(t, c) \/ c = Head(s)
  <2>1. ASSUME Contains(s, c), c # Head(s) PROVE Contains(t, c)
    <3>1. PICK i \in 1 .. Len(s) : s[i] = c
      BY <2>1 DEF Contains
    <3>2. i \in 2 .. Len(s)
      BY <1>1, <2>1, <3>1
    <3>. QED  BY <1>2, <3>1, <3>2 DEF Contains
  <2>2. ASSUME Contains(t, c) PROVE Contains(s, c)
    <3>1. PICK i \in 1 .. Len(t) : t[i] = c
      BY <2>2 DEF Contains
    <3>2. i + 1 \in 1 .. Len(s) /\ s[i + 1] = t[i]
      BY <1>1
    <3>. QED  BY <3>1, <3>2 DEF Contains
  <2>3. c = Head(s) => Contains(s, c)
    BY <1>1 DEF Contains
  <2>. QED  BY <2>1, <2>2, <2>3
<1>4. ASSUME NEW R, InOrder(s, R) PROVE InOrder(t, R)
  <2>. SUFFICES ASSUME NEW i \in 1 .. Len(t), NEW j \in 1 .. Len(t), i < j
                PROVE  <<t[i], t[j]>> \in R
    BY DEF InOrder
  <2>1. /\ i + 1 \in 1 .. Len(s) /\ j + 1 \in 1 .. Len(s) /\ i + 1 < j + 1
        /\ t[i] = s[i + 1] /\ t[j] = s[j + 1]
    BY <1>1
  <2>. QED  BY <1>4, <2>1 DEF InOrder
<1>5. ASSUME NEW R, InOrder(s, R), NEW c, Contains(t, c) PROVE <<Head(s), c>> \in R
  <2>1. PICK i \in 1 .. Len(t) : t[i] = c
    BY <1>5 DEF Contains
  <2>2. 1 \in 1 .. Len(s) /\ i + 1 \in 1 .. Len(s) /\ 1 < i + 1 /\ t[i] = s[i + 1]
    BY <1>1
  <2>. QED  BY <1>1, <1>5, <2>1, <2>2 DEF InOrder
<1>. QED  BY <1>3, <1>4, <1>5 DEF t

(***************************************************************************)
(* Putting one in front.                                                   *)
(***************************************************************************)
LEMMA ConsContains ==
  ASSUME NEW S, NEW s \in Seq(S), NEW x \in S
  PROVE  /\ \A c : Contains(<<x>> \o s, c) <=> Contains(s, c) \/ c = x
         /\ \A R : InOrder(s, R) /\ (\A c : Contains(s, c) => <<x, c>> \in R)
                     => InOrder(<<x>> \o s, R)
<1>. DEFINE t == <<x>> \o s
<1>1. /\ Len(s) \in Nat /\ Len(t) = Len(s) + 1 /\ t[1] = x
      /\ \A i \in 2 .. Len(t) : t[i] = s[i - 1] /\ i - 1 \in 1 .. Len(s)
      /\ \A i \in 1 .. Len(s) : t[i + 1] = s[i] /\ i + 1 \in 1 .. Len(t)
  <2>1. /\ Len(s) \in Nat /\ Len(t) = 1 + Len(s)
        /\ \A i \in 1 .. 1 + Len(s) : t[i] = IF i <= 1 THEN x ELSE s[i - 1]
    <3>1. <<x>> \in Seq(S) /\ Len(<<x>>) = 1 /\ <<x>>[1] = x
      OBVIOUS
    <3>2. /\ Len(t) = Len(<<x>>) + Len(s)
          /\ \A i \in 1 .. Len(<<x>>) + Len(s) :
               t[i] = IF i <= Len(<<x>>) THEN <<x>>[i] ELSE s[i - Len(<<x>>)]
      BY <3>1, ConcatProperties
    <3>3. Len(s) \in Nat
      BY LenProperties
    <3>. HIDE DEF t
    <3>. QED  BY <3>1, <3>2, <3>3
  <2>. HIDE DEF t
  <2>. QED  BY <2>1
<1>. HIDE DEF t
<1>2. ASSUME NEW c PROVE Contains(t, c) <=> Contains(s, c) \/ c = x
  <2>1. ASSUME Contains(t, c), c # x PROVE Contains(s, c)
    <3>1. PICK i \in 1 .. Len(t) : t[i] = c
      BY <2>1 DEF Contains
    <3>2. i \in 2 .. Len(t)
      BY <1>1, <2>1, <3>1
    <3>. QED  BY <1>1, <3>1, <3>2 DEF Contains
  <2>2. ASSUME Contains(s, c) \/ c = x PROVE Contains(t, c)
    BY <1>1, <2>2 DEF Contains
  <2>. QED  BY <2>1, <2>2
<1>3. ASSUME NEW R, InOrder(s, R), \A c : Contains(s, c) => <<x, c>> \in R
      PROVE  InOrder(t, R)
  <2>. SUFFICES ASSUME NEW i \in 1 .. Len(t), NEW j \in 1 .. Len(t), i < j
                PROVE  <<t[i], t[j]>> \in R
    BY DEF InOrder
  <2>1. j \in 2 .. Len(t) /\ t[j] = s[j - 1] /\ j - 1 \in 1 .. Len(s)
    BY <1>1
  <2>2. CASE i = 1
    BY <1>1, <1>3, <2>1, <2>2 DEF Contains
  <2>3. CASE i # 1
    <3>1. i \in 2 .. Len(t)
      BY <1>1, <2>3
    <3>2. t[i] = s[i - 1] /\ i - 1 \in 1 .. Len(s) /\ i - 1 < j - 1
      BY <1>1, <3>1
    <3>. QED  BY <1>3, <2>1, <3>2 DEF InOrder
  <2>. QED  BY <2>2, <2>3
<1>. QED  BY <1>2, <1>3 DEF t

(***************************************************************************)
(* remove() takes a call that occurs once out of the queue and leaves the  *)
(* others where they are.                                                  *)
(***************************************************************************)
LEMMA RemoveContains ==
  ASSUME NEW S, NEW s \in Seq(S), NEW x, InOrder(s, Distinct(S)), Contains(s, x)
  PROVE  /\ \A c : Contains(RemoveFirst(s, x), c) <=> Contains(s, c) /\ c # x
         /\ \A R : InOrder(s, R) => InOrder(RemoveFirst(s, x), R)
<1>. DEFINE t == RemoveFirst(s, x)
<1>1. Len(s) \in Nat
  BY LenProperties
<1>2. PICK k \in 1 .. Len(s) : s[k] = x /\ t = SubSeq(s, 1, k - 1) \o SubSeq(s, k + 1, Len(s))
  BY <1>1, RemoveFirstAt
<1>. DEFINE a == SubSeq(s, 1, k - 1)
            b == SubSeq(s, k + 1, Len(s))
<1>3. \A i \in 1 .. Len(s) : s[i] \in S
  BY ElementOfSeq
<1>4. a \in Seq(S) /\ Len(a) = k - 1 /\ \A i \in 1 .. k - 1 : a[i] = s[i]
  <2>1. \A i \in 1 .. k - 1 : s[i] \in S
    BY <1>1, <1>3
  <2>2. /\ a \in Seq(S) /\ Len(a) = IF 1 <= k - 1 THEN (k - 1) - 1 + 1 ELSE 0
        /\ \A i \in 1 .. (k - 1) - 1 + 1 : a[i] = s[1 + i - 1]
    BY <1>1, <2>1, SubSeqProperties
  <2>. HIDE DEF a
  <2>. QED  BY <2>2, <1>1
<1>5. b \in Seq(S) /\ Len(b) = Len(s) - k /\ \A i \in 1 .. Len(s) - k : b[i] = s[k + i]
  <2>1. \A i \in k + 1 .. Len(s) : s[i] \in S
    BY <1>1, <1>3
  <2>2. /\ b \in Seq(S) /\ Len(b) = IF k + 1 <= Len(s) THEN Len(s) - (k + 1) + 1 ELSE 0
        /\ \A i \in 1 .. Len(s) - (k + 1) + 1 : b[i] = s[(k + 1) + i - 1]
    BY <1>1, <2>1, SubSeqProperties
  <2>. HIDE DEF b
  <2>. QED  BY <2>2, <1>1
<1>6. /\ Len(t) = Len(s) - 1
      /\ \A i \in 1 .. Len(t) : t[i] = IF i < k THEN s[i] ELSE s[i + 1]
  <2>1. /\ t = a \o b /\ Len(a \o b) = Len(a) + Len(b)
        /\ \A i \in 1 .. Len(a) + Len(b) : (a \o b)[i] = IF i <= Len(a) THEN a[i] ELSE b[i - Len(a)]
    BY <1>2, <1>4, <1>5, ConcatProperties
  <2>. HIDE DEF t, a, b
  <2>2. Len(t) = Len(s) - 1
    BY <1>1, <1>4, <1>5, <2>1
  <2>3. ASSUME NEW i \in 1 .. Len(t) PROVE t[i] = IF i < k THEN s[i] ELSE s[i + 1]
    <3>1. CASE i < k
      BY <1>1, <1>4, <1>5, <2>1, <2>2, <3>1
    <3>2. CASE ~(i < k)
      <4>1. i - (k - 1) \in 1 .. Len(s) - k /\ k + (i - (k - 1)) = i + 1
        BY <1>1, <2>2, <3>2
      <4>2. t[i] = b[i - (k - 1)]
        BY <1>1, <1>4, <1>5, <2>1, <2>2, <3>2
      <4>. QED  BY <1>5, <3>2, <4>1, <4>2
    <3>. QED  BY <3>1, <3>2
  <2>. QED  BY <2>2, <2>3
<1>. HIDE DEF t, a, b
<1>7. \A i \in 1 .. Len(s) : i # k => s[i] # x
  <2>. SUFFICES ASSUME NEW i \in 1 .. Len(s), i # k PROVE s[i] # x
    OBVIOUS
  <2>1. i < k \/ k < i
    BY <1>1
  <2>2. <<s[i], s[k]>> \in Distinct(S) \/ <<s[k], s[i]>> \in Distinct(S)
    BY <2>1 DEF InOrder
  <2>. QED  BY <1>2, <2>2 DEF Distinct
<1>8. ASSUME NEW c PROVE Contains(t, c) <=> Contains(s, c) /\ c # x
  <2>1. ASSUME Contains(t, c) PROVE Contains(s, c) /\ c # x
    <3>1. PICK i \in 1 .. Len(t) : t[i] = c
      BY <2>1 DEF Contains
    <3>2. PICK j \in 1 .. Len(s) : j # k /\ s[j] = c
      <4>1. CASE i < k
        BY <1>1, <1>6, <3>1, <4>1
      <4>2. CASE ~(i < k)
        <5>1. i + 1 \in 1 .. Len(s) /\ i + 1 # k /\ s[i + 1] = c
          BY <1>1, <1>6, <3>1, <4>2
        <5>. QED  BY <5>1
      <4>. QED  BY <4>1, <4>2
    <3>. QED  BY <1>7, <3>2 DEF Contains
  <2>2. ASSUME Contains(s, c), c # x PROVE Contains(t, c)
    <3>1. PICK i \in 1 .. Len(s) : s[i] = c
      BY <2>2 DEF Contains
    <3>2. i # k
      BY <1>2, <2>2, <3>1
    <3>3. CASE i < k
      <4>1. i \in 1 .. Len(t) /\ t[i] = c
        BY <1>1, <1>6, <3>1, <3>3
      <4>. QED  BY <4>1 DEF Contains
    <3>4. CASE k < i
      <4>1. i - 1 \in 1 .. Len(t) /\ ~(i - 1 < k) /\ (i - 1) + 1 = i
        BY <1>1, <1>6, <3>4
      <4>2. t[i - 1] = c
        BY <1>6, <3>1, <4>1
      <4>. QED  BY <4>1, <4>2 DEF Contains
    <3>. QED  BY <1>1, <3>2, <3>3, <3>4
  <2>. QED  BY <2>1, <2>2
<1>9. ASSUME NEW R, InOrder(s, R) PROVE InOrder(t, R)
  <2>. SUFFICES ASSUME NEW i \in 1 .. Len(t), NEW j \in 1 .. Len(t), i < j
                PROVE  <<t[i], t[j]>> \in R
    BY DEF InOrder
  <2>. DEFINE From(n) == IF n < k THEN n ELSE n + 1
  <2>1. /\ From(i) \in 1 .. Len(s) /\ From(j) \in 1 .. Len(s) /\ From(i) < From(j)
        /\ t[i] = s[From(i)] /\ t[j] = s[From(j)]
    BY <1>1, <1>6
  <2>. QED  BY <1>9, <2>1 DEF InOrder
<1>. QED  BY <1>8, <1>9 DEF t

(***************************************************************************)
(* A call that occurs once at most is at one place of a sequence, or none. *)
(***************************************************************************)
LEMMA CountContains ==
  ASSUME NEW S, NEW s \in Seq(S), InOrder(s, Distinct(S)), NEW c
  PROVE  Cardinality({i \in DOMAIN s : s[i] = c}) = IF Contains(s, c) THEN 1 ELSE 0
<1>1. DOMAIN s = 1 .. Len(s) /\ Len(s) \in Nat
  BY LenProperties
<1>. DEFINE I == {i \in DOMAIN s : s[i] = c}
<1>2. CASE Contains(s, c)
  <2>1. PICK k \in 1 .. Len(s) : s[k] = c
    BY <1>2 DEF Contains
  <2>2. ASSUME NEW i \in 1 .. Len(s), i # k PROVE s[i] # c
    <3>1. i < k \/ k < i
      BY <1>1, <2>2
    <3>2. <<s[i], s[k]>> \in Distinct(S) \/ <<s[k], s[i]>> \in Distinct(S)
      BY <3>1 DEF InOrder
    <3>. QED  BY <2>1, <3>2 DEF Distinct
  <2>3. I = {k}
    BY <1>1, <2>1, <2>2
  <2>. QED  BY <1>2, <2>3, FS_Singleton
<1>3. CASE ~Contains(s, c)
  <2>1. I = {}
    BY <1>1, <1>3 DEF Contains
  <2>. QED  BY <1>3, <2>1, FS_EmptySet
<1>. QED  BY <1>2, <1>3

(***************************************************************************)
(* And a message of a kind on a line of distinct calls has one place.      *)
(***************************************************************************)
LEMMA CountCarries ==
  ASSUME NEW S, NEW M, NEW s \in Seq(M), NEW k, CarriedInOrder(s, k, Distinct(S)), NEW c
  PROVE  Cardinality({i \in DOMAIN s : s[i].kind = k /\ s[i].call = c})
           = IF Carries(s, k, c) THEN 1 ELSE 0
<1>1. DOMAIN s = 1 .. Len(s) /\ Len(s) \in Nat
  BY LenProperties
<1>. DEFINE I == {i \in DOMAIN s : s[i].kind = k /\ s[i].call = c}
<1>2. CASE Carries(s, k, c)
  <2>1. PICK j \in 1 .. Len(s) : s[j].kind = k /\ s[j].call = c
    BY <1>2 DEF Carries
  <2>2. ASSUME NEW i \in 1 .. Len(s), i # j, s[i].kind = k PROVE s[i].call # c
    <3>1. i < j \/ j < i
      BY <1>1, <2>2
    <3>2. <<s[i].call, s[j].call>> \in Distinct(S) \/ <<s[j].call, s[i].call>> \in Distinct(S)
      BY <2>1, <2>2, <3>1 DEF CarriedInOrder
    <3>. QED  BY <2>1, <3>2 DEF Distinct
  <2>3. I = {j}
    BY <1>1, <2>1, <2>2
  <2>. QED  BY <1>2, <2>3, FS_Singleton
<1>3. CASE ~Carries(s, k, c)
  <2>1. I = {}
    BY <1>1, <1>3 DEF Carries
  <2>. QED  BY <1>3, <2>1, FS_EmptySet
<1>. QED  BY <1>2, <1>3

(***************************************************************************)
(* What a typed sequence holds is of the type.                             *)
(***************************************************************************)
LEMMA ContainsType ==
  ASSUME NEW S, NEW s \in Seq(S)
  PROVE  \A c : Contains(s, c) => c \in S
BY ElementOfSeq DEF Contains

(***************************************************************************)
(* What messages carry is what their kind carries.                         *)
(***************************************************************************)
LEMMA CarriesType ==
  ASSUME NEW S, NEW M, NEW s \in Seq(M), NEW k, \A m \in M : m.kind = k => m.call \in S
  PROVE  \A c : Carries(s, k, c) => c \in S
BY ElementOfSeq DEF Carries

(***************************************************************************)
(* A queue that serves whoever waits never has both items and takers.      *)
(***************************************************************************)
Serving(q) == q.items = <<>> \/ q.takers = <<>>

(***************************************************************************)
(* A taker gets the first item and the queue still serves.                 *)
(***************************************************************************)
LEMMA TakeGives ==
  ASSUME NEW Items, NEW Takers, NEW q \in QueueOf(Items, Takers), Serving(q), NEW w \in Takers,
         q.items # <<>>
  PROVE  /\ Serving(Take(q, w).queue)
         /\ Take(q, w).queue.items = Tail(q.items)
         /\ Take(q, w).given = <<[taker |-> w, item |-> Head(q.items)]>>
<1>1. PICK p : p = [q EXCEPT !.items = Tail(q.items)]
  OBVIOUS
<1>2. Take(q, w) = Gives(p, w, Head(q.items))
  BY <1>1 DEF Take
<1>3. p.items = Tail(q.items) /\ p.takers = q.takers
  BY <1>1 DEF QueueOf
<1>4. q.takers = <<>>
  BY DEF Serving
<1>. QED  BY <1>2, <1>3, <1>4 DEF Gives, Serving

(***************************************************************************)
(* Or waits, when there is none.                                           *)
(***************************************************************************)
LEMMA TakeWaits ==
  ASSUME NEW Items, NEW Takers, NEW q \in QueueOf(Items, Takers), Serving(q), NEW w \in Takers,
         q.items = <<>>
  PROVE  /\ Serving(Take(q, w).queue)
         /\ Take(q, w).queue.items = <<>>
         /\ Take(q, w).given = <<>>
BY DEF Take, Nothing, Serving, QueueOf

(***************************************************************************)
(* An item goes to the first taker, wherever it was to be put.             *)
(***************************************************************************)
LEMMA PushGives ==
  ASSUME NEW Items, NEW Takers, NEW q \in QueueOf(Items, Takers), Serving(q), NEW x \in Items,
         q.takers # <<>>
  PROVE  /\ Serving(Push(q, x).queue)
         /\ q.items = <<>> /\ Push(q, x).queue.items = <<>>
         /\ Push(q, x).given = <<[taker |-> Head(q.takers), item |-> x]>>
         /\ PushFront(q, x) = Push(q, x)
<1>1. PICK p : p = [q EXCEPT !.takers = Tail(q.takers)]
  OBVIOUS
<1>2. Push(q, x) = Gives(p, Head(q.takers), x) /\ PushFront(q, x) = Push(q, x)
  BY <1>1 DEF Push, PushFront, ServeTaker
<1>3. p.items = <<>> /\ q.items = <<>>
  BY <1>1 DEF Serving, QueueOf
<1>. QED  BY <1>2, <1>3 DEF Gives, Serving

(***************************************************************************)
(* Or waits, at the end.                                                   *)
(***************************************************************************)
LEMMA PushWaits ==
  ASSUME NEW Items, NEW Takers, NEW q \in QueueOf(Items, Takers), NEW x \in Items,
         q.takers = <<>>
  PROVE  /\ Push(q, x).queue.items = Append(q.items, x)
         /\ Push(q, x).given = <<>> /\ Push(q, x).queue.takers = <<>>
<1>1. PICK p : p = [q EXCEPT !.items = Append(q.items, x)]
  OBVIOUS
<1>2. Push(q, x) = Nothing(p)
  BY <1>1 DEF Push
<1>3. p.items = Append(q.items, x) /\ p.takers = <<>>
  BY <1>1 DEF QueueOf
<1>. QED  BY <1>2, <1>3 DEF Nothing

(***************************************************************************)
(* In front, like one that comes back.                                     *)
(***************************************************************************)
LEMMA PushFrontWaits ==
  ASSUME NEW Items, NEW Takers, NEW q \in QueueOf(Items, Takers), NEW x \in Items,
         q.takers = <<>>
  PROVE  /\ PushFront(q, x).queue.items = <<x>> \o q.items
         /\ PushFront(q, x).given = <<>> /\ PushFront(q, x).queue.takers = <<>>
<1>1. PICK p : p = [q EXCEPT !.items = <<x>> \o q.items]
  OBVIOUS
<1>2. PushFront(q, x) = Nothing(p)
  BY <1>1 DEF PushFront
<1>3. p.items = <<x>> \o q.items /\ p.takers = <<>>
  BY <1>1 DEF QueueOf
<1>. QED  BY <1>2, <1>3 DEF Nothing

-----------------------------------------------------------------------------
(* The way of the calls of S from a queue q to the bundle that has h: the  *)
(* deliveries r that handlers will post and w that a port holds.  In the   *)
(* order R, whoever is further on the way comes before whoever is behind.  *)

Line(S, h, w, r, q, R) ==
  /\ InOrder(h, R)
  /\ CarriedInOrder(w, "delivery", R)
  /\ CarriedInOrder(r, "delivery", R)
  /\ InOrder(q, R)
  /\ \A c, d \in S :
       \/ Contains(h, c) /\ (Carries(w, "delivery", d) \/ Carries(r, "delivery", d) \/ Contains(q, d))
       \/ Carries(w, "delivery", c) /\ (Carries(r, "delivery", d) \/ Contains(q, d))
       \/ Carries(r, "delivery", c) /\ Contains(q, d)
       => <<c, d>> \in R

OnLine(h, w, r, q, c) ==
  Contains(h, c) \/ Carries(w, "delivery", c) \/ Carries(r, "delivery", c) \/ Contains(q, c)

Carrying(S, M) == \A m \in M : m.kind = "delivery" => m.call \in S

(***************************************************************************)
(* A call that comes after all the others joins the line at its end: in    *)
(* the queue, or in the handler it was given to when the queue was empty.  *)
(***************************************************************************)
LEMMA LineJoined ==
  ASSUME NEW S, NEW M, Carrying(S, M), NEW R, NEW x \in S,
         NEW h \in Seq(S), NEW w \in Seq(M), NEW r \in Seq(M), NEW q \in Seq(S),
         Line(S, h, w, r, q, R), \A c \in S : OnLine(h, w, r, q, c) => <<c, x>> \in R
  PROVE  /\ Line(S, h, w, r, Append(q, x), R)
         /\ \A m \in M : q = <<>> /\ m.kind = "delivery" /\ m.call = x =>
                         Line(S, h, w, Append(r, m), q, R)
<1>1. Line(S, h, w, r, Append(q, x), R)
  <2>1. \A c : Contains(Append(q, x), c) <=> Contains(q, c) \/ c = x
    BY AppendContains
  <2>2. \A c : Contains(q, c) => <<c, x>> \in R
    BY ContainsType DEF OnLine
  <2>3. InOrder(Append(q, x), R)
    BY <2>2, AppendContains DEF Line
  <2>. QED  BY <2>1, <2>3 DEF Line, OnLine
<1>2. ASSUME NEW m \in M, q = <<>>, m.kind = "delivery", m.call = x
      PROVE  Line(S, h, w, Append(r, m), q, R)
  <2>1. \A c : Carries(Append(r, m), "delivery", c) <=> Carries(r, "delivery", c) \/ c = x
    BY <1>2, AppendCarries
  <2>2. \A c : Carries(r, "delivery", c) => <<c, x>> \in R
    BY CarriesType DEF OnLine, Carrying
  <2>3. CarriedInOrder(Append(r, m), "delivery", R)
    BY <1>2, <2>2, AppendCarries DEF Line
  <2>4. \A c : ~Contains(q, c)
    BY <1>2 DEF Contains
  <2>. QED  BY <2>1, <2>3, <2>4 DEF Line, OnLine
<1>. QED  BY <1>1, <1>2

(***************************************************************************)
(* The first of the queue becomes the last that will be posted.            *)
(***************************************************************************)
LEMMA LineTaken ==
  ASSUME NEW S, NEW M, Carrying(S, M), NEW R,
         NEW h \in Seq(S), NEW w \in Seq(M), NEW r \in Seq(M), NEW q \in Seq(S),
         Line(S, h, w, r, q, R), q # <<>>,
         NEW m \in M, m.kind = "delivery", m.call = Head(q)
  PROVE  Line(S, h, w, Append(r, m), Tail(q), R)
<1>1. \A c : Carries(Append(r, m), "delivery", c) <=> Carries(r, "delivery", c) \/ c = Head(q)
  BY AppendCarries
<1>2. /\ \A c : Contains(q, c) <=> Contains(Tail(q), c) \/ c = Head(q)
      /\ InOrder(Tail(q), R)
      /\ \A c : Contains(Tail(q), c) => <<Head(q), c>> \in R
  BY TailContains DEF Line
<1>3. Head(q) \in S
  BY HeadTailProperties
<1>4. \A c : Carries(r, "delivery", c) => <<c, Head(q)>> \in R
  BY <1>2, <1>3, CarriesType DEF Line, Carrying
<1>5. CarriedInOrder(Append(r, m), "delivery", R)
  BY <1>4, AppendCarries DEF Line
<1>. QED  BY <1>1, <1>2, <1>3, <1>5 DEF Line

(***************************************************************************)
(* The first that will be posted is posted.                                *)
(***************************************************************************)
LEMMA LinePosted ==
  ASSUME NEW S, NEW M, Carrying(S, M), NEW R,
         NEW h \in Seq(S), NEW w \in Seq(M), NEW r \in Seq(M), NEW q \in Seq(S),
         Line(S, h, w, r, q, R), r # <<>>, Head(r).kind = "delivery"
  PROVE  Line(S, h, Append(w, Head(r)), Tail(r), q, R)
<1>. DEFINE m == Head(r)
<1>1. m \in M /\ m.call \in S
  BY HeadTailProperties DEF Carrying
<1>2. \A c : Carries(Append(w, m), "delivery", c) <=> Carries(w, "delivery", c) \/ c = m.call
  BY <1>1, AppendCarries
<1>3. /\ \A c : Carries(r, "delivery", c) <=> Carries(Tail(r), "delivery", c) \/ c = m.call
      /\ CarriedInOrder(Tail(r), "delivery", R)
      /\ \A c : Carries(Tail(r), "delivery", c) => <<m.call, c>> \in R
  BY TailCarries DEF Line
<1>4. \A c : Carries(w, "delivery", c) => <<c, m.call>> \in R
  BY <1>1, <1>3, CarriesType DEF Line, Carrying
<1>5. CarriedInOrder(Append(w, m), "delivery", R)
  BY <1>1, <1>4, AppendCarries DEF Line
<1>. HIDE DEF m
<1>. QED  BY <1>1, <1>2, <1>3, <1>5 DEF Line, m

(***************************************************************************)
(* The first that was posted arrives: the bundle's last call.              *)
(***************************************************************************)
LEMMA LineArrived ==
  ASSUME NEW S, NEW M, Carrying(S, M), NEW R,
         NEW h \in Seq(S), NEW w \in Seq(M), NEW r \in Seq(M), NEW q \in Seq(S),
         Line(S, h, w, r, q, R), w # <<>>, Head(w).kind = "delivery"
  PROVE  Line(S, Append(h, Head(w).call), Tail(w), r, q, R)
<1>. DEFINE x == Head(w).call
<1>1. x \in S
  BY HeadTailProperties DEF Carrying
<1>2. \A c : Contains(Append(h, x), c) <=> Contains(h, c) \/ c = x
  BY <1>1, AppendContains
<1>3. /\ \A c : Carries(w, "delivery", c) <=> Carries(Tail(w), "delivery", c) \/ c = x
      /\ CarriedInOrder(Tail(w), "delivery", R)
      /\ \A c : Carries(Tail(w), "delivery", c) => <<x, c>> \in R
  BY TailCarries DEF Line
<1>. HIDE DEF x
<1>4. \A c : Contains(h, c) => <<c, x>> \in R
  BY <1>1, <1>3, ContainsType DEF Line
<1>5. InOrder(Append(h, x), R)
  BY <1>1, <1>4, AppendContains DEF Line
<1>. QED  BY <1>1, <1>2, <1>3, <1>5 DEF Line, x

(***************************************************************************)
(* Who leaves the line leaves the others in order.                         *)
(***************************************************************************)
LEMMA LineLeft ==
  ASSUME NEW S, NEW R, NEW h, NEW w, NEW r, NEW q, NEW v, NEW p, NEW o,
         Line(S, h, w, r, q, R),
         \A c : Carries(v, "delivery", c) => Carries(w, "delivery", c),
         \A c : Carries(p, "delivery", c) => Carries(r, "delivery", c),
         \A c : Contains(o, c) => Contains(q, c),
         CarriedInOrder(v, "delivery", R), CarriedInOrder(p, "delivery", R), InOrder(o, R)
  PROVE  Line(S, h, v, p, o, R)
BY DEF Line

(***************************************************************************)
(* On a line of distinct calls a call is in one place, once.               *)
(***************************************************************************)
LEMMA LineDistinct ==
  ASSUME NEW S, NEW h, NEW w, NEW r, NEW q, Line(S, h, w, r, q, Distinct(S)), NEW c \in S
  PROVE  /\ Contains(h, c) => ~Carries(w, "delivery", c) /\ ~Carries(r, "delivery", c) /\ ~Contains(q, c)
         /\ Carries(w, "delivery", c) => ~Carries(r, "delivery", c) /\ ~Contains(q, c)
         /\ Carries(r, "delivery", c) => ~Contains(q, c)
<1>1. <<c, c>> \notin Distinct(S)
  BY DEF Distinct
<1>. QED  BY <1>1 DEF Line

(***************************************************************************)
(* A call that comes back is in front of those that waited.                *)
(***************************************************************************)
LEMMA LineReturned ==
  ASSUME NEW S, NEW x \in S, NEW h \in Seq(S), NEW w, NEW r, NEW q \in Seq(S),
         Line(S, h, w, r, q, Distinct(S)), ~OnLine(h, w, r, q, x)
  PROVE  Line(S, h, w, r, <<x>> \o q, Distinct(S))
<1>. DEFINE R == Distinct(S)
<1>1. \A c \in S : OnLine(h, w, r, q, c) => <<c, x>> \in R /\ <<x, c>> \in R
  BY DEF Distinct
<1>2. \A c : Contains(<<x>> \o q, c) <=> Contains(q, c) \/ c = x
  BY ConsContains
<1>3. \A c : Contains(q, c) => <<x, c>> \in R
  BY <1>1, ContainsType DEF OnLine
<1>4. InOrder(<<x>> \o q, R)
  BY <1>3, ConsContains DEF Line
<1>. HIDE DEF R
<1>. QED  BY <1>1, <1>2, <1>4 DEF Line, OnLine, R

(***************************************************************************)
(* A set and the sequence made of it have the same members.                *)
(***************************************************************************)
LEMMA SequenceOfSet ==
  ASSUME NEW S, IsFiniteSet(S)
  PROVE  SetToSeq(S) \in Seq(S) /\ \A x : Contains(SetToSeq(S), x) <=> x \in S
<1>. DEFINE n == Cardinality(S)
            f == SetToSeq(S)
<1>1. n \in Nat /\ \E g : g \in Bijection(1 .. n, S)
  BY FS_CardinalityType DEF ExistsBijection
<1>2. \E g \in [1 .. n -> S] : IsInjective(g)
  BY <1>1 DEF Bijection, Injection, IsInjective
<1>3. f \in [1 .. n -> S] /\ IsInjective(f)
  BY <1>2 DEF SetToSeq
<1>4. f \in Injection(1 .. n, S)
  BY <1>3 DEF Injection, IsInjective
<1>5. Cardinality(1 .. n) = n
  BY <1>1, FS_Interval
<1>6. f \in Surjection(1 .. n, S)
  BY <1>4, <1>5, FS_Injection
<1>7. f \in Seq(S) /\ Len(f) = n
  BY <1>1, <1>3
<1>. QED  BY <1>3, <1>6, <1>7 DEF Contains, Surjection

(***************************************************************************)
(* Induction, for a set.                                                   *)
(***************************************************************************)
LEMMA InductiveSet ==
  ASSUME NEW n \in Nat, NEW I \in SUBSET Nat, 0 \in I, \A k \in I : k < n => k + 1 \in I
  PROVE  \A k \in 0 .. n : k \in I
<1>. DEFINE Bad == {k \in 0 .. n : k \notin I}
<1>1. ASSUME Bad # {} PROVE FALSE
  <2>1. Min(Bad) \in Bad /\ \A y \in Bad : Min(Bad) <= y
    <3>1. Bad \subseteq Nat
      OBVIOUS
    <3>. HIDE DEF Bad
    <3>. QED  BY <1>1, <3>1, LeastExists
  <2>2. PICK m \in 0 .. n : m \notin I /\ \A y \in 0 .. n : y \notin I => m <= y
    BY <2>1
  <2>3. m # 0 /\ m - 1 \in 0 .. n
    BY <2>2
  <2>4. m - 1 \in I
    BY <2>2, <2>3
  <2>. QED  BY <2>2, <2>3, <2>4
<1>. QED  BY <1>1

\* what FlattenSeq folds over a sequence
IsFlatten(g, s, n) == \A i \in 1 .. n : g[i] = IF i = 1 THEN s[i] ELSE g[i - 1] \o s[i]

(***************************************************************************)
(* There is such a function, for every sequence of sequences.              *)
(***************************************************************************)
LEMMA FlattenExists ==
  ASSUME NEW S, NEW s \in Seq(Seq(S))
  PROVE  \E g \in [1 .. Len(s) -> Seq(S)] : IsFlatten(g, s, Len(s))
<1>. DEFINE I == {n \in Nat : n <= Len(s) => \E g \in [1 .. n -> Seq(S)] : IsFlatten(g, s, n)}
<1>1. Len(s) \in Nat /\ \A i \in 1 .. Len(s) : s[i] \in Seq(S)
  BY LenProperties, ElementOfSeq
<1>2. 0 \in I
  <2>. DEFINE g == [i \in 1 .. 0 |-> <<>>]
  <2>1. g \in [1 .. 0 -> Seq(S)] /\ \A i \in 1 .. 0 : FALSE
    OBVIOUS
  <2>. HIDE DEF g
  <2>2. IsFlatten(g, s, 0)
    BY <2>1 DEF IsFlatten
  <2>. QED  BY <2>1, <2>2
<1>3. ASSUME NEW n \in I, n < Len(s) PROVE n + 1 \in I
  <2>1. n \in Nat /\ n + 1 \in 1 .. Len(s)
    BY <1>1, <1>3
  <2>2. PICK g \in [1 .. n -> Seq(S)] : IsFlatten(g, s, n)
    BY <1>1, <1>3
  <2>. DEFINE x == IF n = 0 THEN s[n + 1] ELSE g[n] \o s[n + 1]
              h == [i \in 1 .. n + 1 |-> IF i = n + 1 THEN x ELSE g[i]]
  <2>3. x \in Seq(S)
    <3>1. CASE n = 0
      BY <3>1, <1>1, <2>1
    <3>2. CASE n # 0
      <4>1. n \in 1 .. n
        BY <2>1, <3>2
      <4>2. g[n] \in Seq(S) /\ s[n + 1] \in Seq(S)
        BY <4>1, <2>1, <2>2, <1>1
      <4>. QED  BY <3>2, <4>2, ConcatProperties
    <3>. QED  BY <3>1, <3>2
  <2>4. h \in [1 .. n + 1 -> Seq(S)]
    BY <2>1, <2>2, <2>3
  <2>5. \A i \in 1 .. n + 1 : h[i] = IF i = 1 THEN s[i] ELSE h[i - 1] \o s[i]
    <3>1. CASE n = 0
      BY <3>1
    <3>2. CASE n # 0
      <4>. SUFFICES ASSUME NEW i \in 1 .. n + 1 PROVE h[i] = IF i = 1 THEN s[i] ELSE h[i - 1] \o s[i]
        OBVIOUS
      <4>1. CASE i = n + 1
        <5>1. n \in 1 .. n + 1 /\ n + 1 \in 1 .. n + 1 /\ n # n + 1 /\ (n + 1) - 1 = n /\ n + 1 # 1
          BY <3>2, <2>1
        <5>2. h[n + 1] = x /\ h[n] = g[n]
          BY <5>1
        <5>. QED  BY <5>1, <5>2, <4>1, <3>2
      <4>2. CASE i \in 1 .. n
        <5>1. i # n + 1 /\ (i # 1 => i - 1 \in 1 .. n + 1 /\ i - 1 # n + 1)
          BY <4>2, <2>1
        <5>2. h[i] = g[i] /\ (i # 1 => h[i - 1] = g[i - 1])
          BY <5>1
        <5>. HIDE DEF h
        <5>. QED  BY <5>2, <4>2, <2>2 DEF IsFlatten
      <4>. QED  BY <4>1, <4>2, <2>1
    <3>. QED  BY <3>1, <3>2
  <2>. HIDE DEF h
  <2>6. IsFlatten(h, s, n + 1)
    BY <2>5 DEF IsFlatten
  <2>. QED  BY <2>1, <2>4, <2>6
<1>4. Len(s) \in I
  <2>1. I \in SUBSET Nat
    OBVIOUS
  <2>2. \A k \in 0 .. Len(s) : k \in I
    <3>. HIDE DEF I
    <3>. QED  BY <1>1, <1>2, <1>3, <2>1, InductiveSet
  <2>. HIDE DEF I
  <2>. QED  BY <2>2, <1>1
<1>. QED  BY <1>4, <1>1

(***************************************************************************)
(* FlattenSeq is its last value.                                           *)
(***************************************************************************)
LEMMA FlattenIs ==
  ASSUME NEW S, NEW s \in Seq(Seq(S)), s # <<>>
  PROVE  \E h : IsFlatten(h, s, Len(s)) /\ FlattenSeq(s) = h[Len(s)]
<1>. DEFINE Eq(h) == h = [i \in 1 .. Len(s) |-> IF i = 1 THEN s[i] ELSE h[i - 1] \o s[i]]
            h == CHOOSE h : Eq(h)
<1>1. Len(s) \in Nat /\ Len(s) # 0
  BY LenProperties, EmptySeq
<1>2. PICK g \in [1 .. Len(s) -> Seq(S)] : IsFlatten(g, s, Len(s))
  BY FlattenExists
<1>3. g = [i \in 1 .. Len(s) |-> g[i]]
  BY <1>2
<1>4. Eq(g)
  BY <1>2, <1>3 DEF IsFlatten
<1>5. Eq(h)
  BY <1>4
<1>6. FlattenSeq(s) = h[Len(s)]
  BY <1>1 DEF FlattenSeq
<1>. HIDE DEF h
<1>7. IsFlatten(h, s, Len(s))
  BY <1>5 DEF IsFlatten
<1>. QED  BY <1>6, <1>7

(***************************************************************************)
(* Concatenation is associative.                                           *)
(***************************************************************************)
LEMMA Associates ==
  ASSUME NEW S
  PROVE  \A a, b, c \in Seq(S) : (a \o b) \o c = a \o (b \o c)
<1>. SUFFICES ASSUME NEW a \in Seq(S), NEW b \in Seq(S), NEW c \in Seq(S)
              PROVE  (a \o b) \o c = a \o (b \o c)
  OBVIOUS
<1>. QED  BY ConcatAssociative

(***************************************************************************)
(* Hence it is the first of the sequences and the others flattened.        *)
(***************************************************************************)
LEMMA FlattenCons ==
  ASSUME NEW S, NEW s \in Seq(Seq(S)), s # <<>>
  PROVE  FlattenSeq(s) = Head(s) \o FlattenSeq(Tail(s))
<1>assoc. \A a, b, c \in Seq(S) : (a \o b) \o c = a \o (b \o c)
  BY Associates
<1>0. PICK t : t = Tail(s)
  OBVIOUS
<1>1. /\ Len(s) \in Nat /\ Len(s) # 0 /\ Len(t) = Len(s) - 1 /\ t \in Seq(Seq(S)) /\ Head(s) = s[1]
      /\ \A i \in 1 .. Len(t) : t[i] = s[i + 1]
      /\ \A i \in 1 .. Len(s) : s[i] \in Seq(S)
      /\ \A i \in 1 .. Len(t) : t[i] \in Seq(S)
  <2>1. /\ Len(s) \in Nat /\ Len(s) # 0 /\ Len(t) = Len(s) - 1 /\ t \in Seq(Seq(S)) /\ Head(s) = s[1]
        /\ \A i \in 1 .. Len(t) : t[i] = s[i + 1]
    BY <1>0, LenProperties, EmptySeq, HeadTailProperties
  <2>. QED  BY <2>1, ElementOfSeq
<1>2. PICK h : IsFlatten(h, s, Len(s)) /\ FlattenSeq(s) = h[Len(s)]
  BY FlattenIs
<1>3. CASE t = <<>>
  <2>1. Len(s) = 1
    BY <1>1, <1>3
  <2>2. FlattenSeq(s) = s[1]
    BY <1>2, <2>1 DEF IsFlatten
  <2>3. FlattenSeq(t) = <<>>
    BY <1>3 DEF FlattenSeq
  <2>4. s[1] \in Seq(S) /\ s[1] \o <<>> = s[1]
    BY <1>1, <2>1, ConcatEmptySeq
  <2>. QED  BY <1>0, <1>1, <2>2, <2>3, <2>4
<1>4. CASE t # <<>>
  <2>1. PICK g : IsFlatten(g, t, Len(t)) /\ FlattenSeq(t) = g[Len(t)]
    BY <1>1, <1>4, FlattenIs
  <2>. DEFINE I == {n \in Nat : n + 1 <= Len(t) => g[n + 1] \in Seq(S) /\ h[n + 2] = s[1] \o g[n + 1]}
  <2>2. Len(t) \in Nat /\ Len(t) # 0 /\ Len(s) = Len(t) + 1
    <3>1. Len(t) \in Nat \ {0}
      BY <1>1, <1>4, EmptySeq, Zenon
    <3>. QED  BY <3>1, <1>1
  <2>3. 0 \in I
    <3>1. 1 \in 1 .. Len(t) /\ 1 \in 1 .. Len(s) /\ 2 \in 1 .. Len(s) /\ 1 + 1 = 2 /\ 2 - 1 = 1 /\ 2 # 1
      BY <2>2
    <3>2. g[1] = t[1] /\ h[2] = h[1] \o s[2] /\ h[1] = s[1] /\ t[1] = s[2] /\ t[1] \in Seq(S)
      BY <3>1, <1>1, <1>2, <2>1 DEF IsFlatten
    <3>3. 0 + 1 = 1 /\ 0 + 2 = 2 /\ 0 \in Nat
      OBVIOUS
    <3>. QED  BY <3>2, <3>3, Zenon
  <2>4. ASSUME NEW n \in I, n < Len(t) PROVE n + 1 \in I
    <3>0. n \in Nat /\ n + 1 \in Nat /\ (n + 1) + 1 = n + 2 /\ (n + 1) + 2 = n + 3
      OBVIOUS
    <3>. SUFFICES ASSUME n + 2 <= Len(t)
                  PROVE  g[n + 2] \in Seq(S) /\ h[n + 3] = s[1] \o g[n + 2]
      BY <3>0, Zenon
    <3>1. n \in Nat /\ n + 1 <= Len(t)
      BY <3>0, <2>2
    <3>2. g[n + 1] \in Seq(S) /\ h[n + 2] = s[1] \o g[n + 1]
      BY <3>1
    <3>3. g[n + 2] = g[n + 1] \o t[n + 2] /\ t[n + 2] = s[n + 3]
      <4>1. n + 2 \in 1 .. Len(t) /\ n + 2 # 1 /\ (n + 2) - 1 = n + 1 /\ (n + 2) + 1 = n + 3
        BY <3>1
      <4>. QED  BY <4>1, <1>1, <2>1 DEF IsFlatten
    <3>4. h[n + 3] = h[n + 2] \o s[n + 3]
      <4>1. n + 3 \in 1 .. Len(s) /\ n + 3 # 1 /\ (n + 3) - 1 = n + 2
        BY <3>1, <2>2
      <4>. QED  BY <4>1, <1>2 DEF IsFlatten
    <3>5. s[1] \in Seq(S) /\ t[n + 2] \in Seq(S)
      BY <1>1, <2>2, <3>1
    <3>6. (s[1] \o g[n + 1]) \o t[n + 2] = s[1] \o (g[n + 1] \o t[n + 2])
      <4>. HIDE DEF I
      <4>2. PICK a \in Seq(S), b \in Seq(S), c \in Seq(S) : a = s[1] /\ b = g[n + 1] /\ c = t[n + 2]
        BY <3>2, <3>5
      <4>3. (a \o b) \o c = a \o (b \o c)
        BY <1>assoc
      <4>. QED  BY <4>2, <4>3
    <3>7. g[n + 1] \o t[n + 2] \in Seq(S)
      BY <3>2, <3>5, ConcatProperties
    <3>. QED  BY <3>2, <3>3, <3>4, <3>6, <3>7
  <2>5. Len(t) - 1 \in I
    <3>1. I \in SUBSET Nat
      OBVIOUS
    <3>2. \A k \in 0 .. Len(t) : k \in I
      <4>. HIDE DEF I
      <4>. QED  BY <2>2, <2>3, <2>4, <3>1, InductiveSet
    <3>. HIDE DEF I
    <3>. QED  BY <3>2, <2>2
  <2>6. h[Len(s)] = s[1] \o g[Len(t)]
    <3>1. /\ (Len(t) - 1) + 1 <= Len(t) /\ (Len(t) - 1) + 1 = Len(t) /\ (Len(t) - 1) + 2 = Len(s)
      BY <2>2
    <3>2. h[(Len(t) - 1) + 2] = s[1] \o g[(Len(t) - 1) + 1]
      BY <2>5, <3>1
    <3>. QED  BY <3>1, <3>2
  <2>. QED  BY <1>0, <1>1, <1>2, <2>1, <2>6
<1>. QED  BY <1>3, <1>4

(***************************************************************************)
(* And a sequence.                                                         *)
(***************************************************************************)
LEMMA FlattenType ==
  ASSUME NEW S, NEW s \in Seq(Seq(S))
  PROVE  FlattenSeq(s) \in Seq(S)
<1>1. CASE s = <<>>
  BY <1>1 DEF FlattenSeq
<1>2. CASE s # <<>>
  <2>1. PICK h : IsFlatten(h, s, Len(s)) /\ FlattenSeq(s) = h[Len(s)]
    BY <1>2, FlattenIs
  <2>2. Len(s) \in Nat /\ Len(s) # 0 /\ \A i \in 1 .. Len(s) : s[i] \in Seq(S)
    BY <1>2, LenProperties, ElementOfSeq, EmptySeq
  <2>. DEFINE I == {n \in Nat : n # 0 /\ n <= Len(s) => h[n] \in Seq(S)}
  <2>3. 0 \in I
    OBVIOUS
  <2>4. ASSUME NEW n \in I, n < Len(s) PROVE n + 1 \in I
    <3>1. CASE n = 0
      <4>1. n + 1 = 1 /\ 1 \in 1 .. Len(s)
        BY <3>1, <2>2
      <4>2. h[1] = s[1] /\ s[1] \in Seq(S)
        BY <4>1, <2>1, <2>2 DEF IsFlatten
      <4>. QED  BY <4>1, <4>2
    <3>2. CASE n # 0
      <4>1. n \in Nat /\ n + 1 \in Nat /\ n + 1 \in 1 .. Len(s) /\ n + 1 # 1 /\ (n + 1) - 1 = n /\ n <= Len(s)
        BY <2>2, <2>4, <3>2
      <4>2. h[n] \in Seq(S) /\ s[n + 1] \in Seq(S)
        BY <2>2, <3>2, <4>1
      <4>3. h[n + 1] = h[n] \o s[n + 1]
        BY <2>1, <4>1 DEF IsFlatten
      <4>4. h[n] \o s[n + 1] \in Seq(S)
        BY <4>2, ConcatProperties
      <4>. QED  BY <4>1, <4>3, <4>4, Zenon
    <3>. QED  BY <3>1, <3>2
  <2>5. Len(s) \in I
    <3>1. I \in SUBSET Nat
      OBVIOUS
    <3>2. \A k \in 0 .. Len(s) : k \in I
      <4>. HIDE DEF I
      <4>. QED  BY <2>2, <2>3, <2>4, <3>1, InductiveSet
    <3>. HIDE DEF I
    <3>. QED  BY <3>2, <2>2
  <2>. QED  BY <2>1, <2>2, <2>5
<1>. QED  BY <1>1, <1>2


(***************************************************************************)
(* IsPrefix compares elements.                                             *)
(***************************************************************************)
LEMMA PrefixIs ==
  ASSUME NEW S, NEW x \in Seq(S), NEW y \in Seq(S)
  PROVE  IsPrefix(x, y) <=> Len(x) <= Len(y) /\ \A i \in 1 .. Len(x) : x[i] = y[i]
<1>. SUFFICES ASSUME Len(x) <= Len(y)
              PROVE  SubSeq(x, 1, Len(x)) = SubSeq(y, 1, Len(x)) <=> \A i \in 1 .. Len(x) : x[i] = y[i]
  BY DEF IsPrefix
<1>. DEFINE u == SubSeq(x, 1, Len(x))
            v == SubSeq(y, 1, Len(x))
<1>0. Len(x) \in Nat /\ Len(y) \in Nat
  BY LenProperties
<1>1. /\ u \in Seq(S) /\ v \in Seq(S)
      /\ Len(u) = Len(x) /\ Len(v) = Len(x)
      /\ \A i \in 1 .. Len(x) : u[i] = x[i] /\ v[i] = y[i]
  BY <1>0, SubSeqProperties
<1>. HIDE DEF u, v
<1>2. (\A i \in 1 .. Len(x) : u[i] = v[i]) => u = v
  BY <1>1, <1>0, SeqEqual
<1>. QED  BY <1>1, <1>2 DEF u, v

(***************************************************************************)
(* The beginning of a prefix is one.                                       *)
(***************************************************************************)
LEMMA PrefixOfConcat ==
  ASSUME NEW S, NEW x \in Seq(S), NEW y \in Seq(S), NEW t \in Seq(S)
  PROVE  (x \o y = t => IsPrefix(x, t)) /\ (IsPrefix(x \o y, t) => IsPrefix(x, t))
<1>1. /\ Len(x) \in Nat /\ Len(y) \in Nat /\ Len(t) \in Nat /\ x \o y \in Seq(S)
      /\ Len(x \o y) = Len(x) + Len(y)
      /\ \A i \in 1 .. Len(x) + Len(y) : (x \o y)[i] = IF i <= Len(x) THEN x[i] ELSE y[i - Len(x)]
  BY LenProperties, ConcatProperties
<1>2. \A i \in 1 .. Len(x) : (x \o y)[i] = x[i] /\ i \in 1 .. Len(x \o y)
  BY <1>1
<1>3. IsPrefix(x \o y, t) <=> Len(x \o y) <= Len(t) /\ \A i \in 1 .. Len(x \o y) : (x \o y)[i] = t[i]
  BY <1>1, PrefixIs
<1>4. IsPrefix(x, t) <=> Len(x) <= Len(t) /\ \A i \in 1 .. Len(x) : x[i] = t[i]
  BY PrefixIs, SMTT(60)
<1>5. PICK u : u = x \o y
  OBVIOUS
<1>6. x \o y = t => Len(x) <= Len(t) /\ \A i \in 1 .. Len(x) : x[i] = t[i]
  <2>1. /\ Len(u) = Len(x) + Len(y) /\ \A i \in 1 .. Len(x) : u[i] = x[i]
    BY <1>1, <1>2, <1>5
  <2>. QED  BY <1>1, <1>5, <2>1
<1>7. IsPrefix(x \o y, t) => Len(x) <= Len(t) /\ \A i \in 1 .. Len(x) : x[i] = t[i]
  <2>1. /\ Len(u) = Len(x) + Len(y) /\ \A i \in 1 .. Len(x) : u[i] = x[i] /\ i \in 1 .. Len(u)
        /\ IsPrefix(u, t) <=> Len(u) <= Len(t) /\ \A i \in 1 .. Len(u) : u[i] = t[i]
    BY <1>1, <1>2, <1>3, <1>5
  <2>. QED  BY <1>1, <1>5, <2>1
<1>. QED  BY <1>4, <1>6, <1>7, Zenon

(***************************************************************************)
(* The first element moves over from one sequence to the other.            *)
(***************************************************************************)
LEMMA HeadMoves ==
  ASSUME NEW S, NEW x \in Seq(S), NEW y \in Seq(S), y # <<>>
  PROVE  Append(x, Head(y)) \o Tail(y) = x \o y /\ Append(x, Head(y)) \in Seq(S) /\ Tail(y) \in Seq(S)
<1>. DEFINE h == Head(y)
            t == Tail(y)
            a == Append(x, h)
            l == a \o t
            r == x \o y
<1>1. Len(x) \in Nat /\ Len(y) \in Nat /\ Len(y) # 0
  BY LenProperties, EmptySeq
<1>2. /\ h \in S /\ t \in Seq(S) /\ Len(t) = Len(y) - 1 /\ h = y[1]
      /\ \A i \in 1 .. Len(t) : t[i] = y[i + 1]
  BY HeadTailProperties
<1>. HIDE DEF h, t
<1>3. a \in Seq(S) /\ Len(a) = Len(x) + 1 /\ a[Len(x) + 1] = h /\ \A i \in 1 .. Len(x) : a[i] = x[i]
  BY <1>2, AppendProperties
<1>. HIDE DEF a
<1>4. /\ l \in Seq(S) /\ Len(l) = Len(a) + Len(t)
      /\ \A i \in 1 .. Len(a) + Len(t) : l[i] = IF i <= Len(a) THEN a[i] ELSE t[i - Len(a)]
  BY <1>2, <1>3, ConcatProperties
<1>5. /\ r \in Seq(S) /\ Len(r) = Len(x) + Len(y)
      /\ \A i \in 1 .. Len(x) + Len(y) : r[i] = IF i <= Len(x) THEN x[i] ELSE y[i - Len(x)]
  BY ConcatProperties
<1>. HIDE DEF l, r
<1>6. Len(l) = Len(r)
  BY <1>1, <1>2, <1>3, <1>4, <1>5
<1>7. ASSUME NEW i \in 1 .. Len(l) PROVE l[i] = r[i]
  <2>1. CASE i <= Len(x)
    <3>1. i \in 1 .. Len(x) /\ i <= Len(a) /\ i \in 1 .. Len(a) + Len(t) /\ i \in 1 .. Len(x) + Len(y)
      BY <2>1, <1>1, <1>2, <1>3, <1>4
    <3>. QED  BY <3>1, <2>1, <1>3, <1>4, <1>5
  <2>2. CASE i = Len(x) + 1
    BY <2>2, <1>1, <1>2, <1>3, <1>4, <1>5
  <2>3. CASE i > Len(x) + 1
    <3>1. i - Len(a) \in 1 .. Len(t) /\ (i - Len(a)) + 1 = i - Len(x) /\ ~(i <= Len(a)) /\ ~(i <= Len(x))
      BY <2>3, <1>1, <1>2, <1>3, <1>4
    <3>2. l[i] = t[i - Len(a)] /\ r[i] = y[i - Len(x)]
      BY <3>1, <1>4, <1>5, <1>6
    <3>. QED  BY <3>1, <3>2, <1>2
  <2>. QED  BY <2>1, <2>2, <2>3, <1>1, <1>2, <1>3, <1>4
<1>8. l = r
  BY <1>4, <1>5, <1>6, <1>7, SeqEqual
<1>. QED  BY <1>2, <1>3, <1>8 DEF l, r, a, h, t

(***************************************************************************)
(* An element joins the second of two sequences.                           *)
(***************************************************************************)
LEMMA AppendToConcat ==
  ASSUME NEW S, NEW x \in Seq(S), NEW y \in Seq(S), NEW e \in S
  PROVE  x \o Append(y, e) = Append(x \o y, e)
<1>1. <<e>> \in Seq(S) /\ x \o y \in Seq(S)
  BY ConcatProperties
<1>2. Append(y, e) = y \o <<e>> /\ Append(x \o y, e) = (x \o y) \o <<e>>
  BY <1>1, AppendIsConcat
<1>3. (x \o y) \o <<e>> = x \o (y \o <<e>>)
  BY <1>1, Associates
<1>. QED  BY <1>2, <1>3

(***************************************************************************)
(* The first of what is ahead moves over.                                  *)
(***************************************************************************)
LEMMA AheadMoves ==
  ASSUME NEW S, NEW x \in Seq(S), NEW y \in Seq(S), NEW z \in Seq(S), y # <<>>
  PROVE  x \o (y \o z) = Append(x, Head(y)) \o (Tail(y) \o z)
<1>1. Append(x, Head(y)) \o Tail(y) = x \o y /\ Append(x, Head(y)) \in Seq(S) /\ Tail(y) \in Seq(S)
  BY HeadMoves
<1>2. (Append(x, Head(y)) \o Tail(y)) \o z = Append(x, Head(y)) \o (Tail(y) \o z)
  <2>1. PICK a \in Seq(S), t \in Seq(S) : a = Append(x, Head(y)) /\ t = Tail(y)
    BY <1>1
  <2>2. (a \o t) \o z = a \o (t \o z)
    BY Associates, SMTT(40)
  <2>. QED  BY <2>1, <2>2
<1>3. (x \o y) \o z = x \o (y \o z)
  BY Associates
<1>. QED  BY <1>1, <1>2, <1>3

-----------------------------------------------------------------------------
(* Messages in a port: what order they are in, and what comes before what. *)

\* in a sequence each y has an x before it
Prior(s, x, y) == \A i \in 1 .. Len(s) : s[i] = y => \E j \in 1 .. (i - 1) : s[j] = x

\* who is in a sequence of one
LEMMA OneMember ==
  \A x, y : (y \in ToSet(<<x>>) <=> y = x) /\ ~(y \in ToSet(<<>>))
BY DEF ToSet

\* What is sent after the rest of a port keeps it in order, when each
\* message may follow what is there.
LEMMA ConcatOrder ==
  ASSUME NEW S, NEW s \in Seq(S), NEW t \in Seq(S)
  PROVE  /\ s \o t \in Seq(S)
         /\ ToSet(s \o t) = ToSet(s) \cup ToSet(t)
         /\ \A R : InOrder(s, R) /\ InOrder(t, R) /\ (\A x \in ToSet(s), y \in ToSet(t) : <<x, y>> \in R)
                     => InOrder(s \o t, R)
         /\ \A x, y : Prior(s, x, y) /\ (x \in ToSet(s) \/ y \notin ToSet(t)) => Prior(s \o t, x, y)
<1>. DEFINE u == s \o t
<1>1. /\ Len(s) \in Nat /\ Len(t) \in Nat /\ u \in Seq(S) /\ Len(u) = Len(s) + Len(t)
      /\ \A i \in 1 .. Len(u) : u[i] = IF i <= Len(s) THEN s[i] ELSE t[i - Len(s)]
      /\ DOMAIN s = 1 .. Len(s) /\ DOMAIN t = 1 .. Len(t) /\ DOMAIN u = 1 .. Len(u)
  BY LenProperties, ConcatProperties
<1>2. \A i \in 1 .. Len(s) : i \in 1 .. Len(u) /\ u[i] = s[i]
  BY <1>1
<1>3. \A i \in 1 .. Len(t) : Len(s) + i \in 1 .. Len(u) /\ u[Len(s) + i] = t[i]
  BY <1>1
<1>4. \A i \in 1 .. Len(u) : i \in 1 .. Len(s)
        \/ (i > Len(s) /\ i - Len(s) \in 1 .. Len(t) /\ u[i] = t[i - Len(s)])
  BY <1>1
<1>. HIDE DEF u
<1>5. ToSet(u) = ToSet(s) \cup ToSet(t)
  <2>1. \A i \in 1 .. Len(u) : u[i] \in ToSet(s) \cup ToSet(t)
    BY <1>1, <1>2, <1>4 DEF ToSet
  <2>2. (\A i \in 1 .. Len(s) : s[i] \in ToSet(u)) /\ (\A i \in 1 .. Len(t) : t[i] \in ToSet(u))
    BY <1>1, <1>2, <1>3 DEF ToSet
  <2>. QED  BY <1>1, <2>1, <2>2 DEF ToSet
<1>6. ASSUME NEW R, InOrder(s, R), InOrder(t, R), \A x \in ToSet(s), y \in ToSet(t) : <<x, y>> \in R
      PROVE  InOrder(u, R)
  <2>. SUFFICES ASSUME NEW i \in 1 .. Len(u), NEW j \in 1 .. Len(u), i < j PROVE <<u[i], u[j]>> \in R
    BY DEF InOrder
  <2>1. CASE i \in 1 .. Len(s) /\ j \in 1 .. Len(s)
    BY <2>1, <1>2, <1>6 DEF InOrder
  <2>2. CASE i \in 1 .. Len(s) /\ j - Len(s) \in 1 .. Len(t) /\ u[j] = t[j - Len(s)]
    <3>1. u[i] \in ToSet(s) /\ u[j] \in ToSet(t)
      BY <2>2, <1>1, <1>2 DEF ToSet
    <3>. QED  BY <3>1, <1>6
  <2>3. CASE i > Len(s) /\ i - Len(s) \in 1 .. Len(t) /\ u[i] = t[i - Len(s)]
    <3>1. j > Len(s) /\ j - Len(s) \in 1 .. Len(t) /\ u[j] = t[j - Len(s)] /\ i - Len(s) < j - Len(s)
      BY <2>3, <1>1, <1>4
    <3>. QED  BY <3>1, <2>3, <1>6 DEF InOrder
  <2>. QED  BY <2>1, <2>2, <2>3, <1>4
<1>7. ASSUME NEW x, NEW y, Prior(s, x, y), x \in ToSet(s) \/ y \notin ToSet(t) PROVE Prior(u, x, y)
  <2>. SUFFICES ASSUME NEW i \in 1 .. Len(u), u[i] = y PROVE \E j \in 1 .. (i - 1) : u[j] = x
    BY DEF Prior
  <2>1. CASE i \in 1 .. Len(s)
    <3>1. PICK j \in 1 .. (i - 1) : s[j] = x
      BY <2>1, <1>2, <1>7 DEF Prior
    <3>2. j \in 1 .. Len(s)
      BY <2>1, <1>1
    <3>. QED  BY <3>1, <3>2, <1>2
  <2>2. CASE i > Len(s) /\ i - Len(s) \in 1 .. Len(t) /\ u[i] = t[i - Len(s)]
    <3>1. y \in ToSet(t)
      BY <2>2, <1>1 DEF ToSet
    <3>2. PICK j \in 1 .. Len(s) : s[j] = x
      BY <3>1, <1>1, <1>7 DEF ToSet
    <3>3. j \in 1 .. (i - 1) /\ u[j] = s[j]
      BY <2>2, <1>1, <1>2
    <3>. QED  BY <3>2, <3>3
  <2>. QED  BY <2>1, <2>2, <1>4
<1>. QED  BY <1>1, <1>5, <1>6, <1>7 DEF u

\* What a port holds once its first message is taken, which none of those
\* left had to come before.
LEMMA TailOrder ==
  ASSUME NEW S, NEW s \in Seq(S), s # <<>>
  PROVE  /\ Tail(s) \in Seq(S) /\ Head(s) \in S
         /\ ToSet(s) = ToSet(Tail(s)) \cup {Head(s)}
         /\ \A R : InOrder(s, R) => InOrder(Tail(s), R) /\ \A y \in ToSet(Tail(s)) : <<Head(s), y>> \in R
         /\ \A x, y : Prior(s, x, y) => Head(s) # y /\ (Head(s) # x => Prior(Tail(s), x, y))
<1>1. /\ Tail(s) \in Seq(S) /\ Head(s) \in S /\ Len(s) \in Nat /\ Len(s) > 0 /\ Head(s) = s[1]
      /\ Len(Tail(s)) = Len(s) - 1 /\ \A i \in 1 .. Len(Tail(s)) : Tail(s)[i] = s[i + 1]
  BY LenProperties, HeadTailProperties, EmptySeq
<1>2. /\ \A x : x \in ToSet(s) <=> Contains(s, x)
      /\ \A x : x \in ToSet(Tail(s)) <=> Contains(Tail(s), x)
  BY <1>1, SetContains
<1>3. ToSet(s) = ToSet(Tail(s)) \cup {Head(s)}
  BY <1>2, TailContains
<1>4. ASSUME NEW R, InOrder(s, R) PROVE InOrder(Tail(s), R) /\ \A y \in ToSet(Tail(s)) : <<Head(s), y>> \in R
  BY <1>2, <1>4, TailContains
<1>5. ASSUME NEW x, NEW y, Prior(s, x, y) PROVE Head(s) # y /\ (Head(s) # x => Prior(Tail(s), x, y))
  <2>1. Head(s) # y
    BY <1>1, <1>5 DEF Prior
  <2>2. ASSUME Head(s) # x, NEW i \in 1 .. Len(Tail(s)), Tail(s)[i] = y
        PROVE  \E j \in 1 .. (i - 1) : Tail(s)[j] = x
    <3>1. i + 1 \in 1 .. Len(s) /\ s[i + 1] = y
      BY <1>1, <2>2
    <3>2. PICK j \in 1 .. ((i + 1) - 1) : s[j] = x
      BY <3>1, <1>5 DEF Prior
    <3>3. j # 1
      BY <1>1, <2>2, <3>2
    <3>4. j - 1 \in 1 .. (i - 1) /\ j - 1 \in 1 .. Len(Tail(s)) /\ (j - 1) + 1 = j
      BY <1>1, <3>2, <3>3
    <3>5. Tail(s)[j - 1] = x
      BY <1>1, <3>2, <3>4
    <3>. QED  BY <3>4, <3>5
  <2>. QED  BY <2>1, <2>2 DEF Prior
<1>. QED  BY <1>1, <1>3, <1>4, <1>5

\* a port of one message
LEMMA SingleOrder ==
  ASSUME NEW S, NEW x \in S
  PROVE  <<x>> \in Seq(S) /\ ToSet(<<x>>) = {x} /\ \A R : InOrder(<<x>>, R)
BY DEF ToSet, InOrder

\* a sequence whose members may all follow each other is in order
LEMMA AnyOrder ==
  ASSUME NEW S, NEW s \in Seq(S), NEW R, \A x, y \in ToSet(s) : <<x, y>> \in R
  PROVE  InOrder(s, R)
<1>1. \A i \in 1 .. Len(s) : s[i] \in ToSet(s)
  BY LenProperties DEF ToSet
<1>. QED  BY <1>1 DEF InOrder

\* a sequence of a type has its members there
LEMMA ToSetIn ==
  ASSUME NEW S, NEW s \in Seq(S)
  PROVE  ToSet(s) \subseteq S
BY LenProperties, ElementOfSeq DEF ToSet

\* at most the first message is taken
Pops(s, t) == t = s \/ (s # <<>> /\ t = Tail(s))

\* a port from which at most the first message was taken
LEMMA Taking ==
  ASSUME NEW S, NEW s \in Seq(S), NEW t, Pops(s, t), NEW R, InOrder(s, R)
  PROVE  /\ t \in Seq(S) /\ InOrder(t, R) /\ ToSet(t) \subseteq ToSet(s)
         /\ \A x \in ToSet(s) : x \in ToSet(t) \/ (t # s /\ s # <<>> /\ t = Tail(s) /\ x = Head(s))
<1>1. CASE t = s
  BY <1>1
<1>2. CASE s # <<>> /\ t = Tail(s) /\ t # s
  BY <1>2, TailOrder
<1>. QED  BY <1>1, <1>2 DEF Pops

\* a sequence of one message is in order
LEMMA OneOrder ==
  ASSUME NEW S, NEW ms \in Seq(S), NEW U, NEW R, ms = <<>>
           \/ \E d \in S : ms = <<d>> /\ \A x \in U : <<x, d>> \in R
  PROVE  InOrder(ms, R) /\ \A x \in U, y \in ToSet(ms) : <<x, y>> \in R
<1>1. CASE ms = <<>>
  <2>1. Len(ms) = 0
    BY <1>1, EmptySeq
  <2>2. \A y : y \notin ToSet(ms)
    BY <1>1, OneMember, Zenon
  <2>3. 1 .. Len(ms) = {}
    BY <2>1
  <2>. QED  BY <2>2, <2>3 DEF InOrder
<1>2. CASE \E d \in S : ms = <<d>> /\ \A x \in U : <<x, d>> \in R
  BY <1>2, SingleOrder
<1>. QED  BY <1>1, <1>2

\* the messages of a step of one body
LEMMA OneOf ==
  ASSUME NEW D, NEW ms \in {<<>>} \cup {<<d>> : d \in D}
  PROVE  \A y \in ToSet(ms) : y \in D
<1>. SUFFICES ASSUME NEW y \in ToSet(ms) PROVE y \in D
  OBVIOUS
<1>1. CASE ms = <<>>
  BY <1>1, OneMember, Zenon
<1>2. ASSUME NEW d \in D, ms = <<d>> PROVE y \in D
  <2>1. y = d
    BY <1>2, OneMember, Zenon
  <2>. QED  BY <1>2, <2>1
<1>. QED  BY <1>1, <1>2

\* a sequence in one order is in another that relates its members too
LEMMA OrderCarried ==
  ASSUME NEW S, NEW s \in Seq(S), NEW R, NEW Q, InOrder(s, R),
         \A x, y \in ToSet(s) : <<x, y>> \in R => <<x, y>> \in Q
  PROVE  InOrder(s, Q)
<1>1. \A i \in 1 .. Len(s) : s[i] \in ToSet(s)
  BY LenProperties DEF ToSet
<1>. QED  BY <1>1 DEF InOrder

\* Entries with consecutive numbers, one more, and one fewer
LEMMA Numbered ==
  ASSUME NEW s \in Seq(Nat), NEW n \in Nat, \A i \in 1 .. Len(s) : s[i] = n - Len(s) + i
  PROVE  LET u == Append(s, n + 1) IN
           /\ u \in Seq(Nat) /\ Len(u) = Len(s) + 1
           /\ \A i \in 1 .. Len(u) : u[i] = (n + 1) - Len(u) + i
           /\ Tail(u) \in Seq(Nat) /\ Len(Tail(u)) = Len(s)
           /\ \A i \in 1 .. Len(Tail(u)) : Tail(u)[i] = (n + 1) - Len(Tail(u)) + i
<1>. DEFINE e == n + 1
            u == Append(s, e)
<1>1. e \in Nat /\ e = n + 1 /\ Len(s) \in Nat
  BY LenProperties
<1>2. u \in Seq(Nat) /\ Len(u) = Len(s) + 1 /\ (\A i \in 1 .. Len(s) : u[i] = s[i]) /\ u[Len(s) + 1] = e
  BY <1>1, AppendProperties
<1>3. u # <<>>
  BY <1>1, <1>2
<1>4. Tail(u) \in Seq(Nat) /\ Len(Tail(u)) = Len(u) - 1 /\ \A i \in 1 .. Len(Tail(u)) : Tail(u)[i] = u[i + 1]
  BY <1>2, <1>3, HeadTailProperties
<1>. HIDE DEF u, e
<1>5. \A i \in 1 .. Len(u) : u[i] = e - Len(u) + i
  <2>1. ASSUME NEW i \in 1 .. Len(s) PROVE u[i] = e - Len(u) + i
    BY <1>1, <1>2
  <2>2. u[Len(s) + 1] = e - Len(u) + (Len(s) + 1)
    BY <1>1, <1>2
  <2>3. \A i \in 1 .. Len(u) : i \in 1 .. Len(s) \/ i = Len(s) + 1
    BY <1>1, <1>2
  <2>. QED  BY <2>1, <2>2, <2>3
<1>6. ASSUME NEW i \in 1 .. Len(Tail(u)) PROVE Tail(u)[i] = e - Len(Tail(u)) + i
  <2>1. i + 1 \in 1 .. Len(u) /\ Tail(u)[i] = u[i + 1]
    <3>1. Len(u) \in Nat /\ Len(Tail(u)) = Len(u) - 1 /\ Tail(u)[i] = u[i + 1]
      BY <1>1, <1>2, <1>4
    <3>. QED  BY <3>1
  <2>2. u[i + 1] = e - Len(u) + (i + 1)
    BY <2>1, <1>5
  <2>3. Len(Tail(u)) = Len(u) - 1 /\ Len(u) \in Nat /\ i \in Nat
    BY <1>1, <1>2, <1>4
  <2>4. PICK k \in Nat : k = Len(u)
    BY <2>3
  <2>5. Tail(u)[i] = e - k + (i + 1) /\ Len(Tail(u)) = k - 1
    BY <2>1, <2>2, <2>3, <2>4
  <2>6. e - k + (i + 1) = e - (k - 1) + i
    BY <1>1, <2>3, <2>4
  <2>. QED  BY <2>5, <2>6
<1>7. Len(Tail(u)) = Len(s)
  BY <1>1, <1>2, <1>4
<1>. QED  BY <1>2, <1>4, <1>5, <1>6, <1>7 DEF u, e

\* AheadMoves, whatever follows
LEMMA AheadMovesAny ==
  ASSUME NEW S, NEW x \in Seq(S)
  PROVE  \A y, z \in Seq(S) : y # <<>> => x \o (y \o z) = Append(x, Head(y)) \o (Tail(y) \o z)
BY AheadMoves

=============================================================================
