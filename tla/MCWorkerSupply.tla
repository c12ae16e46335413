----------------------------- MODULE MCWorkerSupply -----------------------------
(* WorkerSupply with two publishers of two bundles, one too big to boot.    *)
EXTENDS WorkerSupply

CONSTANTS p1, p2

MCPublishers == {p1, p2}
Clones == Permutations(MCPublishers)
MCHashes == {"ab1", "ab2"}
MCBundles == MCHashes \cup {"cd1"}
Dirs == [ab1 |-> "ab", ab2 |-> "ab"]
Sizes == [ab1 |-> 2, ab2 |-> 4, cd1 |-> 1]
Codings == {"gzip"}

Mirror == <<"mirror", "m">>
Kps(entry) == <<"kps", entry>>
Urls == {<<>>, <<Mirror, Kps("address and path")>>}

\* what an owner sets by hand: one that nothing serves, and one of every kind
Pairs == {<<"ab2", <<<<"other", "o">>, Raw("ab1")>>>>, <<"ab2", <<Kps("no path"), Mirror>>>>}

\* lists of strings of up to three bytes
Strings == UNION {[1 .. n -> {1, 3}] : n \in 0 .. 3}
SomeLists == UNION {[1 .. n -> Strings] : n \in 0 .. 2}

\* the answers that differ in one way from one that is in order
InOrder == [head |-> "in order", headSize |-> 1, status |-> 200, coding |-> "identity", file |-> "ab1"]
SomeAnswers ==
  {r \in Responses :
     Len(SelectSeq(<<r.head # InOrder.head, r.headSize # InOrder.headSize, r.status # 200,
                     r.coding # "identity">>, LAMBDA differs : differs)) <= 1}

=============================================================================
