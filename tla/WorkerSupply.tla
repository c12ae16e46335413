------------------------------ MODULE WorkerSupply ------------------------------
(***************************************************************************)
(* How a worker gets from a publisher to a harness: publish-worker.mjs     *)
(* stores a bundle, checks that every place serves it and deploys a        *)
(* specifier; its owner may point it elsewhere at any time; and a harness  *)
(* boots from it (harness-core/src/specifier.ts), reading hash and         *)
(* resolvers in two calls and trying each resolver in turn.                *)
(*                                                                         *)
(* A resolver is a pair of its kind and of what it names: the raw URL of a *)
(* bundle, a mirror or a kps server, which may answer anything, or a kind  *)
(* the harness does not know.  A contract is at its publisher's name.      *)
(***************************************************************************)
EXTENDS BundleStore, WorkerSpecifier, KpsExchange, AbiDecode

CONSTANTS
  MaxRuns,        \* how often publishing is tried at all (bound)
  MaxUpdates,     \* how often an owner acts (bound)
  ResolverUrls,   \* what RESOLVER_URLS may hold
  OtherPairs,     \* what an owner may set a contract to, other than what is published
  Lists,          \* the lists of strings an answer is decoded from
  Answers         \* the responses of kps servers

ASSUME SupplyAssumption == Hashes \subseteq Bundles /\ Publishers = Addresses /\ Publishers \subseteq Accounts
ASSUME FilesAssumption ==
  NoBundle \notin Bundles /\ SizeOf \in [Bundles -> Nat] /\ MaxBytes \in Nat /\ Answers \subseteq Responses
ASSUME UrlsAssumption == \A urls \in ResolverUrls : urls \in Seq(ToSet(urls))
ASSUME PairsAssumption == \A pair \in OtherPairs : pair = <<pair[1], pair[2]>> /\ pair[1] # NoBundle

VARIABLES
  publish,    \* each publisher's run of the script
  published,  \* history: the pairs that were deployed after all was checked and stored
  boot,       \* the harness's worker, and whether the pair it read had been published by then
  budget,     \* runs and owners' acts so far
  answer      \* a list of strings that is decoded, or <<>>

publishVars == <<publish, published>>
vars == <<storeVars, specifierVars, publishVars, boot, budget, answer>>

Raw(hash) == <<"raw", hash>>
Idle == [at |-> "idle", hash |-> NoBundle, resolvers |-> <<>>, next |-> 1, stored |-> FALSE, checked |-> FALSE]

Init ==
  /\ StoreInit /\ SpecifierInit
  /\ publish = [p \in Publishers |-> Idle]
  /\ published = {}
  /\ boot = [at |-> "new", from |-> "", kinds |-> {}, hash |-> NoBundle, resolvers |-> <<>>, next |-> 1,
             bundle |-> NoBundle, promised |-> FALSE]
  /\ budget = [runs |-> 0, updates |-> 0]
  /\ answer \in Lists

-----------------------------------------------------------------------------
(* publish-worker.mjs *)

Goes(p, where) == publish' = [publish EXCEPT ![p].at = where]

\* the script is over, and may be run again when it failed
Ends(p, how) == publish' = [publish EXCEPT ![p] = [Idle EXCEPT !.at = how]]
Fails(p) == Ends(p, "idle")

Start(p, hash, urls, github, skip) ==
  /\ publish[p].at = "idle" /\ budget.runs < MaxRuns
  /\ urls # <<>> \/ github
  /\ publish' = [publish EXCEPT ![p] = [Idle EXCEPT !.hash = hash, !.resolvers = urls, !.stored = github,
                   !.checked = ~skip,
                   !.at = CASE github -> "fetch" [] ~github /\ skip -> "confirm" [] OTHER -> "check"]]
  /\ budget' = [budget EXCEPT !.runs = @ + 1]
  /\ UNCHANGED <<storeVars, specifierVars, published, boot, answer>>

\* `git fetch`, whose failure is ignored, and the commit on what is known then
FetchesAndCommits(p, ok) ==
  /\ publish[p].at = "fetch"
  /\ LET fetched == IF ok THEN Fetched(p) ELSE clone[p]
     IN  clone' = [clone EXCEPT ![p] = Committed(fetched, publish[p].hash)]
  /\ Goes(p, "push")
  /\ UNCHANGED <<remote, served, specifierVars, published, boot, budget, answer>>

Pushes(p) ==
  /\ publish[p].at = "push"
  /\ IF CanPush(p)
     THEN /\ Push(p)
          /\ publish' = [publish EXCEPT ![p].at = IF publish[p].checked THEN "check" ELSE "confirm",
               ![p].resolvers = IF Raw(publish[p].hash) \in ToSet(@) THEN @
                                ELSE Append(@, Raw(publish[p].hash))]
     ELSE Fails(p) /\ UNCHANGED <<remote, clone>>
  /\ UNCHANGED <<served, specifierVars, published, boot, budget, answer>>

\* whether a resolver can be got the bundle from by an ordinary fetch, now
MayServe(resolver, hash) ==
  CASE resolver[1] = "raw" -> {resolver[2] = hash /\ hash \in served}
    [] resolver[1] = "mirror" -> BOOLEAN
    [] OTHER -> {FALSE}

\* the next resolver is checked, unless it is a kps entry; an attempt that is followed by another
\* is no step here, so that this is the one that counts
Checks(p) ==
  LET run == publish[p]
      on == [publish EXCEPT ![p].next = @ + 1]
  IN  /\ run.at = "check"
      /\ IF run.next > Len(run.resolvers) THEN Goes(p, "confirm")
         ELSE IF run.resolvers[run.next][1] = "kps" THEN publish' = on
         ELSE \E serves \in MayServe(run.resolvers[run.next], run.hash) :
                IF serves THEN publish' = on ELSE Fails(p)
      /\ UNCHANGED <<storeVars, specifierVars, published, boot, budget, answer>>

Deploy(p) ==
  /\ publish[p].at = "confirm"
  /\ Constructor(p, p, publish[p].hash, publish[p].resolvers)
  /\ Goes(p, "deployed")
  /\ published' = IF publish[p].stored /\ publish[p].checked
                  THEN published \cup {<<publish[p].hash, publish[p].resolvers>>} ELSE published
  /\ UNCHANGED <<storeVars, boot, budget, answer>>

Declines(p) ==
  /\ publish[p].at = "confirm"
  /\ Fails(p)
  /\ UNCHANGED <<storeVars, specifierVars, published, boot, budget, answer>>

\* an update in between makes the read-back a mismatch, which is reported; the contract stays
ReadsBack(p) ==
  /\ publish[p].at = "deployed"
  /\ Ends(p, IF /\ contracts[p].hash = publish[p].hash
                /\ ToSet(publish[p].resolvers) \subseteq ToSet(contracts[p].resolvers)
             THEN "published" ELSE "mismatch")
  /\ UNCHANGED <<storeVars, specifierVars, published, boot, budget, answer>>

\* an owner calls the contract
Owns ==
  /\ budget.updates < MaxUpdates
  /\ budget' = [budget EXCEPT !.updates = @ + 1]
  /\ \E a \in Addresses, sender \in Accounts :
       \/ \E pair \in published \cup OtherPairs : SetWorker(a, sender, pair[1], pair[2])
       \/ \E to \in Accounts : TransferOwnership(a, sender, to)
       \/ RenounceOwnership(a, sender)
  /\ UNCHANGED <<storeVars, publishVars, boot, answer>>

-----------------------------------------------------------------------------
(* The harness's boot *)

\* workerHash(); an address with nothing there answers with too little, and is no step here
ReadHash(a, kinds) ==
  /\ boot.at = "new" /\ contracts[a] # Undeployed
  /\ boot' = [boot EXCEPT !.at = "resolvers", !.from = a, !.kinds = kinds, !.hash = contracts[a].hash]
  /\ UNCHANGED <<storeVars, specifierVars, publishVars, budget, answer>>

\* workerResolvers(), a call of its own
ReadResolvers ==
  /\ boot.at = "resolvers"
  /\ boot' = [boot EXCEPT !.at = "fetching", !.resolvers = contracts[boot.from].resolvers,
                 !.promised = <<boot.hash, contracts[boot.from].resolvers>> \in published]
  /\ UNCHANGED <<storeVars, specifierVars, publishVars, budget, answer>>

\* the body of a response that is ok, up to the cap
ReadBodyCapped(file) == IF SizeOf[file] > MaxBytes THEN NoBundle ELSE file

\* what the harness may get from a resolver; a kind it does not know is ignored
Gets(resolver) ==
  CASE resolver[1] = "raw" -> {IF resolver[2] \in served THEN ReadBodyCapped(resolver[2]) ELSE NoBundle}
    [] resolver[1] = "mirror" -> {NoBundle} \cup {ReadBodyCapped(file) : file \in Bundles}
    [] resolver[1] \in boot.kinds ->
         {FetchBundleOverKps(resolver[2], response) : response \in Answers}
    [] OTHER -> {NoBundle}

\* bytes of another hash are as good as none: the next is tried
Try ==
  /\ boot.at = "fetching" /\ boot.next <= Len(boot.resolvers)
  /\ \E got \in Gets(boot.resolvers[boot.next]) :
       boot' = IF got = boot.hash THEN [boot EXCEPT !.at = "booted", !.bundle = got]
               ELSE [boot EXCEPT !.next = @ + 1]
  /\ UNCHANGED <<storeVars, specifierVars, publishVars, budget, answer>>

NoneYielded ==
  /\ boot.at = "fetching" /\ boot.next > Len(boot.resolvers)
  /\ boot' = [boot EXCEPT !.at = "failed"]
  /\ UNCHANGED <<storeVars, specifierVars, publishVars, budget, answer>>

\* a behaviour decodes an answer, or goes on until the harness has booted or failed (bound)
Next ==
  /\ answer = <<>> /\ boot.at \notin {"booted", "failed"}
  /\ \/ \E p \in Publishers :
          \/ \E hash \in Hashes, urls \in ResolverUrls, github \in BOOLEAN, skip \in BOOLEAN :
               Start(p, hash, urls, github, skip)
          \/ \E ok \in BOOLEAN : FetchesAndCommits(p, ok)
          \/ Pushes(p) \/ Checks(p) \/ Deploy(p) \/ Declines(p) \/ ReadsBack(p)
     \/ Propagate /\ UNCHANGED <<specifierVars, publishVars, boot, budget, answer>>
     \/ Owns
     \/ \E a \in Addresses, kinds \in {{}, {"kps"}} : ReadHash(a, kinds)
     \/ ReadResolvers \/ Try \/ NoneYielded

Spec == Init /\ [][Next]_vars

-----------------------------------------------------------------------------

(***************************************************************************)
(* publish-worker.mjs:111-114: what was stored, checked and deployed, a    *)
(* harness boots, whatever other publishers have since committed, whatever *)
(* the other resolvers serve, and whoever owns the contract by then.  It   *)
(* fails only with a pair that was not published, as is one whose hash is  *)
(* of before an update and whose resolvers are of after it, or with a      *)
(* bundle larger than harnesses accept, which no step of publishing asks.  *)
(***************************************************************************)
PublishedBoots ==
  boot.at = "failed" /\ boot.promised => SizeOf[boot.hash] > MaxBytes

(***************************************************************************)
(* specifier.ts:61-63 and 5: what boots is the bundle of a hash that the   *)
(* contract has named, out of whichever resolver, and no larger than the   *)
(* cap, a compressed body included.                                        *)
(***************************************************************************)
BootsPinned ==
  boot.at = "booted" =>
    /\ \E pair \in named[boot.from] : pair[1] = boot.bundle
    /\ SizeOf[boot.bundle] <= MaxBytes

(***************************************************************************)
(* github-resolver.mjs:74-76: a push is refused only when another clone    *)
(* has pushed since the fetch, or the fetch failed; what a refused push    *)
(* has left in the local branch does not stand in the way of the next.     *)
(***************************************************************************)
OnlyRacesLose ==
  \A p \in Publishers :
    publish[p].at = "push" /\ clone[p].tracking = remote => CanPush(p)

(***************************************************************************)
(* The resolvers are decoded as they were encoded, or not at all.          *)
(***************************************************************************)
AnswerIntact == answer # <<>> => Intact(answer)

=============================================================================
