------------------------------- MODULE BundleStore ------------------------------
(***************************************************************************)
(* The branch of a GitHub repository in which publishers keep bundles,     *)
(* each at the path its hash makes (specifier/github-resolver.mjs), as     *)
(* several clones that commit and push to it, and the raw URLs it is       *)
(* served at, some time later.                                             *)
(*                                                                         *)
(* A bundle is named by its hash; a commit is the sequence of the trees it *)
(* and those before it have, a tree being the set of bundles it holds.     *)
(***************************************************************************)
EXTENDS Sequences, SequencesExt

CONSTANTS
  Publishers,  \* the clones
  Hashes,      \* the hashes of the bundles there are
  DirOf        \* the first two digits of each: the directory it is in

VARIABLES
  remote,      \* the branch at the remote
  clone,       \* each clone's remote-tracking and local branch, <<>> when there is none
  served       \* the bundles the raw URLs answer with

storeVars == <<remote, clone, served>>

StoreInit ==
  /\ remote = <<>>
  /\ clone = [p \in Publishers |-> [tracking |-> <<>>, local |-> <<>>]]
  /\ served = {}

TreeOf(commit) == IF commit = <<>> THEN {} ELSE Last(commit)

NewTree_Anew(base, hash) ==
  {h \in TreeOf(base) : DirOf[h] # DirOf[hash]} \cup {hash}

\* the tree of `base` with the hash's directory replaced by one that has the bundle too
NewTree(base, hash) ==
  LET inner == {h \in TreeOf(base) : DirOf[h] = DirOf[hash]} \cup {hash}
      root == {h \in TreeOf(base) : DirOf[h] # DirOf[hash]}
  IN  root \cup inner

Fetched(p) == [clone[p] EXCEPT !.tracking = IF remote = <<>> THEN @ ELSE remote]

BaseOf_LocalFirst(refs) == IF refs.local # <<>> THEN refs.local ELSE refs.tracking

\* the freshest view of the branch
BaseOf(refs) == IF refs.tracking # <<>> THEN refs.tracking ELSE refs.local

\* the local branch becomes the commit; one that has the bundle already is itself the commit
Committed(refs, hash) ==
  LET base == BaseOf(refs)
  IN  [refs EXCEPT !.local =
         IF hash \in TreeOf(base) THEN base ELSE Append(base, NewTree(base, hash))]

\* the remote takes only a commit that has its own before it
CanPush(p) == IsPrefix(remote, clone[p].local)

Push(p) ==
  /\ CanPush(p)
  /\ remote' = clone[p].local
  /\ clone' = [clone EXCEPT ![p].tracking = clone[p].local]

\* the raw URLs catch up with the branch
Propagate ==
  /\ served # TreeOf(remote)
  /\ served' = TreeOf(remote)
  /\ UNCHANGED <<remote, clone>>

=============================================================================
