------------------------------- MODULE PlainValue -------------------------------
(***************************************************************************)
(* Plain values across a boundary that carries JSON                        *)
(* (harness-core/src/plain-value.ts): copied by the host, encoded, carried *)
(* as JSON and decoded, in the node harness by the isolate's own decoder   *)
(* (prelude.guest.js).  What the host holds is a heap of objects that may  *)
(* share and contain one another; what crosses is a tree.                  *)
(***************************************************************************)
EXTENDS Naturals, Sequences, SequencesExt, Relation

Primitives == {"undefined", "null", "-0", "0", "NaN", "text"}
Holders == {"array", "object"}   \* an array may have holes
Bytes == {"Uint8Array", "ArrayBuffer"}
NotPlain == "a TypeError"

Leaf(v) == [kind |-> v, parts |-> <<>>]

(***************************************************************************)
(* copyPlainValue of the value v, a primitive or the name of an object,    *)
(* whose ancestors are given.                                              *)
(***************************************************************************)
RECURSIVE Copy(_, _, _)
Copy(heap, v, ancestors) ==
  IF v = "hole" THEN Leaf("undefined")
  ELSE IF v \in Primitives THEN Leaf(v)
  ELSE IF v \in ancestors \/ heap[v].kind \notin Holders \cup Bytes THEN Leaf(NotPlain)
  ELSE IF heap[v].kind \in Bytes THEN heap[v]
  ELSE LET parts == [i \in DOMAIN heap[v].parts |->
                       Copy(heap, heap[v].parts[i], ancestors \cup {v})]
       IN  IF \E i \in DOMAIN parts : parts[i].kind = NotPlain THEN Leaf(NotPlain)
           ELSE [kind |-> heap[v].kind, parts |-> parts]

\* every array on the wire is tagged with what it stands for
RECURSIVE ToWire(_)
ToWire(t) ==
  CASE t.kind \in {"null", "0", "text"} -> t
    [] t.kind \in {"undefined", "NaN", "-0"} -> [kind |-> "tag", parts |-> <<t.kind>>]
    [] t.kind \in Bytes -> [kind |-> "tag", parts |-> <<t.kind>> \o t.parts]
    [] OTHER -> [kind |-> "tag", parts |-> <<t.kind>> \o
                  [i \in DOMAIN t.parts |-> ToWire(t.parts[i])]]

\* what JSON makes of it: the tag is text, and the values it has no word for are lost
RECURSIVE Json(_)
Json(w) ==
  CASE w.kind = "-0" -> Leaf("0")
    [] w.kind \in {"NaN", "undefined"} -> Leaf("null")
    [] w.kind = "tag" -> [w EXCEPT !.parts =
         [i \in DOMAIN w.parts |-> IF i = 1 \/ w.parts[1] \in Bytes THEN w.parts[i]
                                   ELSE Json(w.parts[i])]]
    [] OTHER -> w

RECURSIVE DecodePlain(_)
DecodePlain(w) ==
  IF w.kind # "tag" THEN w
  ELSE [kind |-> Head(w.parts),
        parts |-> IF Head(w.parts) \in Bytes THEN Tail(w.parts)
                  ELSE [i \in DOMAIN Tail(w.parts) |-> DecodePlain(Tail(w.parts)[i])]]

-----------------------------------------------------------------------------

Refers(heap) ==
  [v, x \in DOMAIN heap |-> heap[v].kind \in Holders /\ x \in ToSet(heap[v].parts)]

\* a reference: from v one comes to an object that is in itself, or to none that is plain
Improper(heap, v) ==
  LET within == TransitiveClosure(Refers(heap), DOMAIN heap)
      reached == {v} \cup {x \in DOMAIN heap : within[v, x]}
  IN  \E x \in reached : within[x, x] \/ heap[x].kind \notin Holders \cup Bytes

(***************************************************************************)
(* plain-value.ts:99 and 52: a plain value crosses without loss, holes     *)
(* being undefined, and one that is reached twice is no cycle.  Just a     *)
(* value in itself, or with something in it that is not plain, is refused. *)
(***************************************************************************)
Crosses(heap, v) ==
  LET copy == Copy(heap, v, {})
  IN  IF Improper(heap, v) THEN copy = Leaf(NotPlain)
      ELSE copy # Leaf(NotPlain) /\ DecodePlain(Json(ToWire(copy))) = copy

=============================================================================
