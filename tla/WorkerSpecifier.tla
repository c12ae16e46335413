---------------------------- MODULE WorkerSpecifier ----------------------------
(***************************************************************************)
(* The contracts that name a worker (specifier/src/WorkerSpecifier.sol):   *)
(* an owner, the hash of a bundle and the places to get it from.  A call   *)
(* that reverts changes nothing and is no step here.                       *)
(***************************************************************************)
EXTENDS Naturals

CONSTANTS
  Addresses,  \* of the contracts, deployed or yet to be
  Accounts    \* who may own one

Zero == "address(0)"

VARIABLES
  contracts,  \* the owner, hash and resolvers at each address
  named       \* history: the pairs of hash and resolvers each contract has had

specifierVars == <<contracts, named>>

Undeployed == [owner |-> "nothing there", hash |-> "", resolvers |-> <<>>]

SpecifierInit ==
  /\ contracts = [a \in Addresses |-> Undeployed]
  /\ named = [a \in Addresses |-> {}]

_SetWorker(a, owner, hash, resolvers) ==
  /\ contracts' = [contracts EXCEPT ![a] = [owner |-> owner, hash |-> hash, resolvers |-> resolvers]]
  /\ named' = [named EXCEPT ![a] = @ \cup {<<hash, resolvers>>}]

Constructor(a, sender, hash, resolvers) ==
  /\ contracts[a] = Undeployed
  /\ _SetWorker(a, sender, hash, resolvers)

OnlyOwner(a, sender) == contracts[a] # Undeployed /\ sender = contracts[a].owner

SetWorker(a, sender, hash, resolvers) ==
  /\ OnlyOwner(a, sender)
  /\ _SetWorker(a, contracts[a].owner, hash, resolvers)

TransferOwnership(a, sender, newOwner) ==
  /\ OnlyOwner(a, sender)
  /\ contracts' = [contracts EXCEPT ![a].owner = newOwner]
  /\ UNCHANGED named

RenounceOwnership(a, sender) ==
  /\ OnlyOwner(a, sender)
  /\ contracts' = [contracts EXCEPT ![a].owner = Zero]
  /\ UNCHANGED named

=============================================================================
