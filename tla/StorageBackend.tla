---------------------------- MODULE StorageBackend ----------------------------
(***************************************************************************)
(* The two backends of a browser worker's storage                          *)
(* (browser-harness/src/host/idb-storage.ts).  The IndexedDB one keeps the *)
(* records of every worker in one ordered store under [address, key] and   *)
(* walks it with a cursor; the in-memory one keeps a map for each address. *)
(* An address is a number and a key a sequence of numbers: what either is  *)
(* compared by.  A store is a function from its records' keys.             *)
(***************************************************************************)
EXTENDS SequencesExt, FiniteSets, Naturals

Put(db, k, v) == [x \in DOMAIN db \cup {k} |-> IF x = k THEN v ELSE db[x]]

Without(db, gone) == [x \in DOMAIN db \ gone |-> db[x]]

\* IndexedDB's order of keys: strings by code unit, arrays element by element
StringBelow(a, b) ==
  \/ a # b /\ IsPrefix(a, b)
  \/ \E i \in DOMAIN a \cap DOMAIN b : a[i] < b[i] /\ \A j \in 1 .. i - 1 : a[j] = b[j]

Below(x, y) == x[1] < y[1] \/ (x[1] = y[1] /\ StringBelow(x[2], y[2]))

(***************************************************************************)
(* The records the cursor visits: from the lower bound on, in that order,  *)
(* until the first past the namespace or the prefix.                       *)
(***************************************************************************)
Walk_IgnoresAddress(db, address, prefix) ==
  LET ahead == {x \in DOMAIN db : ~Below(x, <<address, prefix>>)}
      past == {x \in ahead : ~IsPrefix(prefix, x[2])}
  IN  {x \in ahead : \A y \in past : Below(x, y)}

Walk(db, address, prefix) ==
  LET ahead == {x \in DOMAIN db : ~Below(x, <<address, prefix>>)}
      past == {x \in ahead : x[1] # address \/ ~IsPrefix(prefix, x[2])}
  IN  {x \in ahead : \A y \in past : Below(x, y)}

IdbSet(db, address, key, value) == Put(db, <<address, key>>, value)

IdbDelete(db, address, key) == Without(db, {<<address, key>>})

IdbList(db, address, prefix) == {x[2] : x \in Walk(db, address, prefix)}

IdbClear(db, address, prefix) == Without(db, Walk(db, address, prefix))

MemoryList(space, prefix) == {k \in DOMAIN space : IsPrefix(prefix, k)}

MemoryClear(space, prefix) == Without(space, MemoryList(space, prefix))

=============================================================================
