---------------------------- MODULE WorkerSupplyProofs --------------------------
(***************************************************************************)
(* Theorems about where workers come from and where they live.             *)
(*                                                                         *)
(* WorkerSupply, for every set of publishers, of bundles, of resolvers and *)
(* of answers: a push is refused only to one who lost a race, what boots   *)
(* is a bundle the contract has named, and what was published boots.       *)
(* OffscreenHost, for every set of connections, of workers and of keys:    *)
(* references are exact, a running worker is found and reaped when unused, *)
(* and no failed boot is.                                                  *)
(*                                                                         *)
(* The inductive invariants are Supply and HostInv; the two components     *)
(* share no state.                                                         *)
(***************************************************************************)
EXTENDS WorkerSupply, OffscreenHost, SequenceTheorems, FiniteSetTheorems, TLAPS

-----------------------------------------------------------------------------
(* The types. *)

Commit == Seq(SUBSET Hashes)
Hash == Hashes \cup {NoBundle, ""} \cup {pair[1] : pair \in OtherPairs}
Given == UNION {ToSet(urls) : urls \in ResolverUrls}
RawUrls == {Raw(hash) : hash \in Hashes}
Resolver == Given \cup RawUrls
Resolvers == Seq(Resolver) \cup {pair[2] : pair \in OtherPairs}

Run ==
  [at : {"idle", "fetch", "push", "check", "confirm", "deployed", "published", "mismatch"},
   hash : Hashes \cup {NoBundle}, resolvers : Seq(Resolver), next : Nat, stored : BOOLEAN, checked : BOOLEAN]

TypeOK ==
  /\ remote \in Commit
  /\ clone \in [Publishers -> [tracking : Commit, local : Commit]]
  /\ served \subseteq Hashes
  /\ contracts \in [Addresses -> [owner : Accounts \cup {Zero, Undeployed.owner}, hash : Hash,
                                  resolvers : Resolvers]]
  /\ named \in [Addresses -> SUBSET (Hash \X Resolvers)]
  /\ publish \in [Publishers -> Run]
  /\ \A p \in Publishers : publish[p].at \notin {"idle", "published", "mismatch"} => publish[p].hash \in Hashes
  /\ published \subseteq Hashes \X Seq(Resolver)
  /\ boot \in [at : {"new", "resolvers", "fetching", "booted", "failed"}, from : Addresses \cup {""},
               kinds : SUBSET {"kps"}, hash : Hash, resolvers : Resolvers, next : Nat,
               bundle : Bundles \cup {NoBundle}, promised : BOOLEAN]

-----------------------------------------------------------------------------
(* The invariant, in parts. *)

\* later trees hold what earlier ones did
Grows(commit) == \A i, j \in 1 .. Len(commit) : i <= j => commit[i] \subseteq commit[j]

\* no commit drops a bundle, so nothing that is served is ever lost
Stored ==
  /\ Grows(remote)
  /\ \A p \in Publishers : Grows(clone[p].tracking) /\ Grows(clone[p].local)
  /\ served \subseteq TreeOf(remote)

\* what is pushed is made of what was fetched
Rebased == \A p \in Publishers : publish[p].at = "push" => IsPrefix(clone[p].tracking, clone[p].local)

\* the contract's pair is one it was given, and every such pair has a hash
Named ==
  \A a \in Addresses :
    /\ contracts[a] = Undeployed \/ <<contracts[a].hash, contracts[a].resolvers>> \in named[a]
    /\ \A pair \in named[a] : pair[1] # NoBundle

\* the harness looks for the bundle of such a pair
Pinned ==
  /\ boot.at # "new" => boot.from \in Addresses /\ \E pair \in named[boot.from] : pair[1] = boot.hash
  /\ boot.at = "booted" => boot.bundle = boot.hash /\ SizeOf[boot.bundle] <= MaxBytes

\* a raw URL among the first n resolvers was found to serve the bundle
FoundServed(n, run) == \A i \in 1 .. Len(run.resolvers) : i < n /\ run.resolvers[i] = Raw(run.hash) => run.hash \in served

\* a run that stores and checks: its raw URL is a resolver, and those it has passed are served
Checked ==
  \A p \in Publishers : LET run == publish[p] IN
    /\ run.at \in {"fetch", "push"} => run.next = 1
    /\ run.stored /\ run.checked /\ run.at \in {"check", "confirm"} =>
         Raw(run.hash) \in ToSet(run.resolvers) /\ FoundServed(run.next, run)
    /\ run.checked /\ run.at = "confirm" => run.next > Len(run.resolvers)

\* what was published is served, at one of its resolvers
Kept == \A pair \in published : pair[1] \in served /\ Raw(pair[1]) \in ToSet(pair[2])

\* a harness with a published pair passes the raw URL only when the bundle is too large
Passed ==
  /\ boot.at \in {"new", "resolvers"} => boot.next = 1
  /\ boot.at \in {"fetching", "failed"} /\ boot.promised =>
       /\ <<boot.hash, boot.resolvers>> \in published
       /\ \A i \in 1 .. Len(boot.resolvers) :
            i < boot.next /\ boot.resolvers[i] = Raw(boot.hash) => SizeOf[boot.hash] > MaxBytes
       /\ boot.at = "failed" => boot.next > Len(boot.resolvers)

-----------------------------------------------------------------------------
(* Commits. *)

(***************************************************************************)
(* A prefix has the same trees; a commit is a prefix of itself and of the  *)
(* next.                                                                   *)
(***************************************************************************)
LEMMA PrefixSame ==
  ASSUME NEW S, NEW s \in Seq(S), NEW t \in Seq(S), IsPrefix(s, t)
  PROVE  Len(s) <= Len(t) /\ \A i \in 1 .. Len(s) : s[i] = t[i]
<1>1. Len(s) <= Len(t) /\ SubSeq(s, 1, Len(s)) = SubSeq(t, 1, Len(s)) /\ Len(s) \in Nat /\ Len(t) \in Nat
  BY LenProperties DEF IsPrefix
<1>2. ASSUME NEW i \in 1 .. Len(s) PROVE s[i] = t[i]
  <2>1. SubSeq(s, 1, Len(s))[i] = s[i] /\ SubSeq(t, 1, Len(s))[i] = t[i]
    BY <1>1, SubSeqProperties
  <2>. QED  BY <1>1, <2>1
<1>. QED  BY <1>1, <1>2

LEMMA PrefixNext ==
  ASSUME NEW S, NEW s \in Seq(S), NEW x \in S
  PROVE  /\ IsPrefix(s, s) /\ IsPrefix(<<>>, s)
         /\ IsPrefix(s, Append(s, x))
<1>1. Len(s) \in Nat /\ Append(s, x) \in Seq(S) /\ Len(Append(s, x)) = Len(s) + 1
  BY LenProperties, AppendProperties
<1>2. SubSeq(s, 1, Len(s)) = SubSeq(Append(s, x), 1, Len(s))
  <2>1. SubSeq(s, 1, Len(s)) = [i \in 1 .. Len(s) |-> s[i]]
    BY <1>1
  <2>2. SubSeq(Append(s, x), 1, Len(s)) = [i \in 1 .. Len(s) |-> Append(s, x)[i]]
    BY <1>1
  <2>3. \A i \in 1 .. Len(s) : Append(s, x)[i] = s[i]
    BY <1>1, AppendProperties
  <2>. QED  BY <2>1, <2>2, <2>3
<1>3. IsPrefix(<<>>, s)
  <2>1. Len(<<>>) = 0 /\ SubSeq(<<>>, 1, 0) = <<>> /\ SubSeq(s, 1, 0) = <<>>
    BY <1>1
  <2>. QED  BY <1>1, <2>1 DEF IsPrefix
<1>. QED  BY <1>1, <1>2, <1>3 DEF IsPrefix

(***************************************************************************)
(* The last tree of a commit that grows holds every tree of its prefixes.  *)
(***************************************************************************)
LEMMA PrefixTree ==
  ASSUME NEW s \in Commit, NEW t \in Commit, IsPrefix(s, t), Grows(t)
  PROVE  TreeOf(s) \subseteq TreeOf(t)
<1>1. CASE s = <<>>
  BY <1>1 DEF TreeOf
<1>2. CASE s # <<>>
  <2>1. Len(s) \in Nat /\ Len(s) > 0 /\ Len(t) \in Nat
    BY <1>2, LenProperties, EmptySeq DEF Commit
  <2>2. Len(s) <= Len(t) /\ s[Len(s)] = t[Len(s)]
    BY <2>1, PrefixSame DEF Commit
  <2>3. t # <<>>
    BY <2>1, <2>2
  <2>4. t[Len(s)] \subseteq t[Len(t)]
    BY <2>1, <2>2 DEF Grows
  <2>. QED  BY <1>2, <2>2, <2>3, <2>4 DEF TreeOf, Last
<1>. QED  BY <1>1, <1>2

(***************************************************************************)
(* What publishing commits holds what its base held, and comes after what  *)
(* was fetched.                                                            *)
(***************************************************************************)
LEMMA CommittedGrows ==
  ASSUME NEW refs \in [tracking : Commit, local : Commit], NEW hash \in Hashes
  PROVE  LET c == Committed(refs, hash)
         IN  /\ c \in [tracking : Commit, local : Commit]
             /\ c.tracking = refs.tracking
             /\ IsPrefix(refs.tracking, c.local)
             /\ Grows(refs.tracking) /\ Grows(refs.local) => Grows(c.local)
<1>. DEFINE base == BaseOf(refs)
            next == Append(base, NewTree(base, hash))
<1>1. base \in Commit /\ (base = refs.tracking \/ (base = refs.local /\ refs.tracking = <<>>))
  BY DEF BaseOf
<1>2. TreeOf(base) \subseteq NewTree(base, hash)
  BY DEF NewTree
<1>3. TreeOf(base) \subseteq Hashes /\ NewTree(base, hash) \subseteq Hashes
  <2>1. base # <<>> => base[Len(base)] \in SUBSET Hashes
    BY <1>1, LenProperties, ElementOfSeq, EmptySeq DEF Commit
  <2>2. TreeOf(base) \subseteq Hashes
    BY <2>1 DEF TreeOf, Last
  <2>. QED  BY <2>2 DEF NewTree
<1>4. /\ next \in Commit /\ Len(next) = Len(base) + 1 /\ Len(base) \in Nat
      /\ next[Len(base) + 1] = NewTree(base, hash) /\ \A i \in 1 .. Len(base) : next[i] = base[i]
  BY <1>1, <1>3, AppendProperties, LenProperties DEF Commit
<1>5. IsPrefix(base, base) /\ IsPrefix(base, next) /\ (base # refs.tracking => IsPrefix(refs.tracking, base))
      /\ (base # refs.tracking => IsPrefix(refs.tracking, next))
  <2>1. IsPrefix(base, base) /\ IsPrefix(base, next) /\ IsPrefix(<<>>, base)
    BY <1>1, <1>3, PrefixNext DEF Commit
  <2>2. IsPrefix(<<>>, next)
    BY <1>4, <1>3, PrefixNext DEF Commit
  <2>. QED  BY <1>1, <2>1, <2>2
<1>6. ASSUME Grows(base) PROVE Grows(next)
  <2>1. ASSUME NEW i \in 1 .. Len(next), NEW j \in 1 .. Len(next), i <= j PROVE next[i] \subseteq next[j]
    <3>1. CASE j \in 1 .. Len(base)
      BY <1>4, <1>6, <2>1, <3>1 DEF Grows
    <3>2. CASE j = Len(base) + 1 /\ i \in 1 .. Len(base)
      <4>1. base[i] \subseteq base[Len(base)] /\ base # <<>>
        BY <1>4, <1>6, <3>2 DEF Grows
      <4>2. base[i] \subseteq TreeOf(base)
        BY <4>1 DEF TreeOf, Last
      <4>. QED  BY <1>2, <1>4, <3>2, <4>2
    <3>3. CASE i = j
      BY <3>3
    <3>. QED  BY <1>4, <2>1, <3>1, <3>2, <3>3
  <2>. QED  BY <2>1 DEF Grows
<1>7. Committed(refs, hash) = [refs EXCEPT !.local = IF hash \in TreeOf(base) THEN base ELSE next]
  BY DEF Committed
<1>. HIDE DEF base, next
<1>. QED  BY <1>1, <1>4, <1>5, <1>6, <1>7

-----------------------------------------------------------------------------
(* The types are kept. *)

(***************************************************************************)
(* The lists of resolvers the script starts from are lists of resolvers.   *)
(***************************************************************************)
LEMMA UrlsType == ResolverUrls \subseteq Seq(Resolver)
<1>1. ASSUME NEW urls \in ResolverUrls PROVE urls \in Seq(Resolver)
  <2>1. urls \in Seq(ToSet(urls))
    BY UrlsAssumption
  <2>2. ToSet(urls) \subseteq Resolver
    BY DEF Resolver, Given
  <2>. QED  BY <2>1, <2>2, SeqMonotonic
<1>. QED  BY <1>1

(***************************************************************************)
(* The initial states have the types.                                      *)
(***************************************************************************)
LEMMA TypeInit == Init => TypeOK
<1>. SUFFICES ASSUME Init PROVE TypeOK
  OBVIOUS
<1>1. <<>> \in Commit /\ <<>> \in Seq(Resolver) /\ <<>> \in Resolvers
  BY EmptySeq DEF Commit, Resolvers
<1>2. Idle \in Run
  BY <1>1 DEF Idle, Run
<1>3. /\ remote \in Commit /\ served \subseteq Hashes
      /\ clone \in [Publishers -> [tracking : Commit, local : Commit]]
  BY <1>1 DEF Init, StoreInit
<1>4. contracts \in [Addresses -> [owner : Accounts \cup {Zero, Undeployed.owner}, hash : Hash,
                                   resolvers : Resolvers]]
  BY <1>1 DEF Init, SpecifierInit, Undeployed, Hash
<1>5. named \in [Addresses -> SUBSET (Hash \X Resolvers)]
  BY DEF Init, SpecifierInit
<1>6. publish \in [Publishers -> Run] /\ \A p \in Publishers : publish[p].at = "idle"
  BY <1>2 DEF Init, Idle
<1>7. boot \in [at : {"new", "resolvers", "fetching", "booted", "failed"}, from : Addresses \cup {""},
                kinds : SUBSET {"kps"}, hash : Hash, resolvers : Resolvers, next : Nat,
                bundle : Bundles \cup {NoBundle}, promised : BOOLEAN]
  BY <1>1 DEF Init, Hash
<1>. QED  BY <1>3, <1>4, <1>5, <1>6, <1>7 DEF Init, TypeOK

(***************************************************************************)
(* A publisher's step.                                                     *)
(***************************************************************************)
PublisherStep(p) ==
  \/ \E hash \in Hashes, urls \in ResolverUrls, github \in BOOLEAN, skip \in BOOLEAN :
       Start(p, hash, urls, github, skip)
  \/ \E ok \in BOOLEAN : FetchesAndCommits(p, ok)
  \/ Pushes(p) \/ Checks(p) \/ Deploy(p) \/ Declines(p) \/ ReadsBack(p)

Working == {"fetch", "push", "check", "confirm", "deployed"}

(***************************************************************************)
(* How a run goes from one step of the script to the next: it starts, it   *)
(* goes on with the bundle it has, or it is over.                          *)
(***************************************************************************)
LEMMA RunGoesOn ==
  ASSUME TypeOK, NEW p \in Publishers, PublisherStep(p)
  PROVE  /\ publish' \in [Publishers -> Run]
         /\ \A q \in Publishers : q # p => publish'[q] = publish[q]
         /\ publish'[p].at \in Working => publish'[p].hash \in Hashes
<1>. DEFINE run == publish[p]
<1>1. run \in Run /\ publish \in [Publishers -> Run] /\ (run.at \in Working => run.hash \in Hashes)
  BY DEF TypeOK, Working
<1>2. ASSUME NEW how \in {"idle", "published", "mismatch"}, Ends(p, how)
      PROVE  /\ publish' \in [Publishers -> Run] /\ \A q \in Publishers : q # p => publish'[q] = publish[q]
             /\ publish'[p].at \notin Working
  <2>1. [Idle EXCEPT !.at = how] \in Run /\ [Idle EXCEPT !.at = how].at = how
    BY EmptySeq DEF Idle, Run
  <2>. QED  BY <1>1, <1>2, <2>1 DEF Ends, Working
<1>3. ASSUME NEW at \in Working, run.at \in Working, NEW urls \in Seq(Resolver), NEW next \in Nat,
             publish' = [publish EXCEPT ![p] = [run EXCEPT !.at = at, !.resolvers = urls, !.next = next]]
      PROVE  /\ publish' \in [Publishers -> Run] /\ \A q \in Publishers : q # p => publish'[q] = publish[q]
             /\ publish'[p].hash \in Hashes
  BY <1>1, <1>3 DEF Run, Working
<1>4. ASSUME NEW hash \in Hashes, NEW urls \in ResolverUrls, NEW github \in BOOLEAN, NEW skip \in BOOLEAN,
             Start(p, hash, urls, github, skip)
      PROVE  /\ publish' \in [Publishers -> Run] /\ \A q \in Publishers : q # p => publish'[q] = publish[q]
             /\ publish'[p].hash \in Hashes
  <2>. DEFINE new == [Idle EXCEPT !.hash = hash, !.resolvers = urls, !.stored = github, !.checked = ~skip,
                 !.at = CASE github -> "fetch" [] ~github /\ skip -> "confirm" [] OTHER -> "check"]
  <2>1. urls \in Seq(Resolver)
    BY UrlsType
  <2>2. (CASE github -> "fetch" [] ~github /\ skip -> "confirm" [] OTHER -> "check") \in Working
    BY DEF Working
  <2>3. new \in Run /\ new.hash = hash
    BY <2>1, <2>2 DEF Idle, Run, Working
  <2>4. publish' = [publish EXCEPT ![p] = new]
    BY <1>4 DEF Start
  <2>. HIDE DEF new
  <2>. QED  BY <1>1, <2>3, <2>4
<1>5. CASE \E ok \in BOOLEAN : FetchesAndCommits(p, ok)
  <2>1. publish' = [publish EXCEPT ![p] = [run EXCEPT !.at = "push", !.resolvers = run.resolvers, !.next = run.next]]
        /\ run.at \in Working
    BY <1>1, <1>5 DEF FetchesAndCommits, Goes, Run, Working
  <2>. QED  BY <1>1, <1>3, <2>1 DEF Run, Working
<1>6. CASE Pushes(p)
  <2>1. CASE Fails(p)
    BY <1>2, <2>1 DEF Fails
  <2>2. CASE ~Fails(p)
    <3>. DEFINE urls == IF Raw(run.hash) \in ToSet(run.resolvers) THEN run.resolvers
                        ELSE Append(run.resolvers, Raw(run.hash))
                at == IF run.checked THEN "check" ELSE "confirm"
    <3>1. run.at = "push" /\ publish' = [publish EXCEPT ![p].at = at, ![p].resolvers = urls]
      BY <1>6, <2>2 DEF Pushes
    <3>2. urls \in Seq(Resolver)
      <4>1. run.hash \in Hashes
        BY <1>1, <3>1 DEF Working
      <4>2. Raw(run.hash) \in RawUrls
        BY <4>1 DEF RawUrls
      <4>3. Raw(run.hash) \in Resolver
        BY <4>2 DEF Resolver
      <4>4. run.resolvers \in Seq(Resolver)
        BY <1>1 DEF Run
      <4>. HIDE DEF run
      <4>. QED  BY <4>3, <4>4, AppendProperties
    <3>3. at \in Working
      BY DEF Working
    <3>. HIDE DEF urls, at
    <3>4. publish' = [publish EXCEPT ![p] = [run EXCEPT !.at = at, !.resolvers = urls, !.next = run.next]]
      BY <1>1, <3>1 DEF Run
    <3>5. run.at \in Working /\ run.next \in Nat
      BY <1>1, <3>1 DEF Run, Working
    <3>. HIDE DEF run
    <3>. QED  BY <1>3, <3>2, <3>3, <3>4, <3>5
  <2>. QED  BY <2>1, <2>2
<1>7. CASE Checks(p)
  <2>1. /\ run.at = "check"
        /\ \/ publish' = [publish EXCEPT ![p].at = "confirm"]
           \/ publish' = [publish EXCEPT ![p].next = run.next + 1]
           \/ Fails(p)
    BY <1>7 DEF Checks, Goes
  <2>2. CASE publish' = [publish EXCEPT ![p].at = "confirm"]
    <3>1. publish' = [publish EXCEPT ![p] = [run EXCEPT !.at = "confirm", !.resolvers = run.resolvers, !.next = run.next]]
      BY <1>1, <2>2 DEF Run
    <3>. QED  BY <1>1, <1>3, <2>1, <3>1 DEF Run, Working
  <2>3. CASE publish' = [publish EXCEPT ![p].next = run.next + 1]
    <3>1. publish' = [publish EXCEPT ![p] = [run EXCEPT !.at = run.at, !.resolvers = run.resolvers, !.next = run.next + 1]]
      BY <1>1, <2>3 DEF Run
    <3>2. run.at \in Working /\ run.next + 1 \in Nat /\ run.resolvers \in Seq(Resolver)
      BY <1>1, <2>1 DEF Run, Working
    <3>. HIDE DEF run
    <3>. QED  BY <1>3, <3>1, <3>2
  <2>. QED  BY <1>2, <2>1, <2>2, <2>3 DEF Fails
<1>8. CASE Deploy(p)
  <2>1. publish' = [publish EXCEPT ![p] = [run EXCEPT !.at = "deployed", !.resolvers = run.resolvers, !.next = run.next]]
        /\ run.at \in Working
    BY <1>1, <1>8 DEF Deploy, Goes, Run, Working
  <2>. QED  BY <1>1, <1>3, <2>1 DEF Run, Working
<1>9. CASE Declines(p)
  BY <1>2, <1>9 DEF Declines, Fails
<1>10. CASE ReadsBack(p)
  <2>1. \E how \in {"published", "mismatch"} : Ends(p, how)
    BY <1>10 DEF ReadsBack
  <2>. QED  BY <1>2, <2>1
<1>. QED  BY <1>2, <1>4, <1>5, <1>6, <1>7, <1>8, <1>9, <1>10 DEF PublisherStep

(***************************************************************************)
(* A pair of a hash and a list of resolvers that a contract may be given.  *)
(***************************************************************************)
LEMMA PairType ==
  ASSUME TypeOK, NEW pair \in published \cup OtherPairs
  PROVE  pair[1] \in Hash \ {NoBundle} /\ pair[2] \in Resolvers
<1>1. CASE pair \in published
  <2>1. pair[1] \in Hashes /\ pair[2] \in Seq(Resolver)
    BY <1>1 DEF TypeOK
  <2>. QED  BY <2>1, SupplyAssumption, FilesAssumption DEF Hash, Resolvers
<1>2. CASE pair \in OtherPairs
  BY <1>2, PairsAssumption DEF Hash, Resolvers
<1>. QED  BY <1>1, <1>2

(***************************************************************************)
(* What a resolver yields, if anything, is a bundle of a size that boots.  *)
(***************************************************************************)
LEMMA GetsWithinCap ==
  ASSUME TypeOK, NEW resolver, NEW got \in Gets(resolver), got # NoBundle
  PROVE  got \in Bundles /\ SizeOf[got] <= MaxBytes
<1>1. \A file \in Bundles : SizeOf[file] \in Nat /\ MaxBytes \in Nat
  BY FilesAssumption
<1>2. \A file \in Bundles :
        ReadBodyCapped(file) = NoBundle \/ (ReadBodyCapped(file) = file /\ SizeOf[file] <= MaxBytes)
  BY <1>1 DEF ReadBodyCapped
<1>9. boot.kinds \subseteq {"kps"}
  BY DEF TypeOK
<1>3. CASE resolver[1] = "raw"
  <2>1. served \subseteq Bundles
    BY SupplyAssumption DEF TypeOK
  <2>2. got = IF resolver[2] \in served THEN ReadBodyCapped(resolver[2]) ELSE NoBundle
    BY <1>9, <1>3 DEF Gets
  <2>. QED  BY <1>2, <2>1, <2>2
<1>4. CASE resolver[1] = "mirror"
  <2>1. got = NoBundle \/ \E file \in Bundles : got = ReadBodyCapped(file)
    BY <1>9, <1>4 DEF Gets
  <2>. QED  BY <1>2, <2>1
<1>5. CASE resolver[1] \notin {"raw", "mirror"} /\ resolver[1] \in boot.kinds
  <2>1. PICK response \in Answers : got = FetchBundleOverKps(resolver[2], response)
    BY <1>5 DEF Gets
  <2>2. response.file \in Bundles
    BY FilesAssumption DEF Responses
  <2>3. got = NoBundle \/ (got = response.file /\ SizeOf[got] <= MaxBytes)
    BY <2>1 DEF FetchBundleOverKps, DecodeBody
  <2>. QED  BY <2>2, <2>3
<1>6. CASE resolver[1] \notin {"raw", "mirror"} /\ resolver[1] \notin boot.kinds
  BY <1>6 DEF Gets
<1>. QED  BY <1>3, <1>4, <1>5, <1>6

(***************************************************************************)
(* What a contract that is set anew has, and has had.                      *)
(***************************************************************************)
LEMMA ContractsType ==
  ASSUME TypeOK, NEW a \in Addresses, NEW owner \in Accounts \cup {Zero, Undeployed.owner},
         NEW hash \in Hash, NEW urls \in Resolvers
  PROVE  /\ [contracts EXCEPT ![a] = [owner |-> owner, hash |-> hash, resolvers |-> urls]]
              \in [Addresses -> [owner : Accounts \cup {Zero, Undeployed.owner}, hash : Hash,
                                resolvers : Resolvers]]
         /\ [named EXCEPT ![a] = named[a] \cup {<<hash, urls>>}]
              \in [Addresses -> SUBSET (Hash \X Resolvers)]
<1>1. contracts \in [Addresses -> [owner : Accounts \cup {Zero, Undeployed.owner}, hash : Hash,
                                   resolvers : Resolvers]]
  BY DEF TypeOK
<1>2. named \in [Addresses -> SUBSET (Hash \X Resolvers)]
  BY DEF TypeOK
<1>3. named[a] \cup {<<hash, urls>>} \in SUBSET (Hash \X Resolvers)
  BY <1>2
<1>4. [named EXCEPT ![a] = named[a] \cup {<<hash, urls>>}] \in [Addresses -> SUBSET (Hash \X Resolvers)]
  BY <1>2, <1>3
<1>. QED  BY <1>1, <1>4

(***************************************************************************)
(* A publisher's step keeps the types.                                     *)
(***************************************************************************)
LEMMA TypePublisher ==
  ASSUME TypeOK, NEW p \in Publishers, PublisherStep(p)
  PROVE  TypeOK'
<1>1. /\ publish' \in [Publishers -> Run]
      /\ \A q \in Publishers : publish[q].at \in Working => publish[q].hash \in Hashes
      /\ \A q \in Publishers : q # p => publish'[q] = publish[q]
      /\ publish'[p].at \in Working => publish'[p].hash \in Hashes
  BY RunGoesOn DEF TypeOK, Working
<1>2. \A q \in Publishers : publish'[q].at \notin {"idle", "published", "mismatch"} => publish'[q].hash \in Hashes
  BY <1>1 DEF Run, Working
<1>3. /\ boot' = boot /\ served' = served
      /\ publish[p] \in Run
  BY DEF PublisherStep, Start, FetchesAndCommits, Pushes, Checks, Deploy, Declines, ReadsBack, storeVars,
         TypeOK
<1>4. remote' \in Commit /\ clone' \in [Publishers -> [tracking : Commit, local : Commit]]
  <2>1. CASE \E ok \in BOOLEAN : FetchesAndCommits(p, ok)
    <3>1. PICK ok \in BOOLEAN : FetchesAndCommits(p, ok)
      BY <2>1
    <3>. DEFINE fetched == IF ok THEN Fetched(p) ELSE clone[p]
    <3>2. fetched \in [tracking : Commit, local : Commit]
      <4>1. remote \in Commit /\ clone[p] \in [tracking : Commit, local : Commit]
        BY DEF TypeOK
      <4>. QED  BY <4>1 DEF Fetched
    <3>3. publish[p].hash \in Hashes
      BY <1>1, <3>1 DEF FetchesAndCommits, Working
    <3>4. Committed(fetched, publish[p].hash) \in [tracking : Commit, local : Commit]
      BY <3>2, <3>3, CommittedGrows
    <3>5. remote' = remote /\ clone' = [clone EXCEPT ![p] = Committed(fetched, publish[p].hash)]
      BY <3>1 DEF FetchesAndCommits
    <3>. HIDE DEF fetched
    <3>. QED  BY <3>4, <3>5 DEF TypeOK
  <2>2. CASE Pushes(p)
    <3>1. remote \in Commit /\ clone \in [Publishers -> [tracking : Commit, local : Commit]]
      BY DEF TypeOK
    <3>. QED  BY <2>2, <3>1 DEF Pushes, Push
  <2>3. CASE UNCHANGED storeVars
    BY <2>3 DEF storeVars, TypeOK
  <2>. QED  BY <2>1, <2>2, <2>3 DEF PublisherStep, Start, Checks, Deploy, Declines, ReadsBack
<1>5. /\ contracts' \in [Addresses -> [owner : Accounts \cup {Zero, Undeployed.owner}, hash : Hash,
                                       resolvers : Resolvers]]
      /\ named' \in [Addresses -> SUBSET (Hash \X Resolvers)]
      /\ published' \subseteq Hashes \X Seq(Resolver)
  <2>1. CASE Deploy(p)
    <3>. DEFINE hash == publish[p].hash
                urls == publish[p].resolvers
    <3>1. hash \in Hashes /\ urls \in Seq(Resolver) /\ p \in Addresses /\ p \in Accounts
      BY <1>1, <1>3, <2>1, SupplyAssumption DEF Deploy, Working, Run
    <3>2. /\ contracts' = [contracts EXCEPT ![p] = [owner |-> p, hash |-> hash, resolvers |-> urls]]
          /\ named' = [named EXCEPT ![p] = named[p] \cup {<<hash, urls>>}]
          /\ published' \subseteq published \cup {<<hash, urls>>}
      BY <2>1 DEF Deploy, Constructor, _SetWorker
    <3>. HIDE DEF hash, urls
    <3>3. hash \in Hash /\ urls \in Resolvers
      BY <3>1 DEF Hash, Resolvers
    <3>4. published' \subseteq Hashes \X Seq(Resolver)
      <4>1. published \subseteq Hashes \X Seq(Resolver)
        BY DEF TypeOK
      <4>2. <<hash, urls>> \in Hashes \X Seq(Resolver)
        BY <3>1
      <4>. QED  BY <3>2, <4>1, <4>2
    <3>. QED  BY <3>1, <3>2, <3>3, <3>4, ContractsType
  <2>2. CASE UNCHANGED <<contracts, named, published>>
    BY <2>2 DEF TypeOK
  <2>. QED  BY <2>1, <2>2 DEF PublisherStep, Start, FetchesAndCommits, Pushes, Checks, Declines,
                              ReadsBack, specifierVars
<1>. QED  BY <1>1, <1>2, <1>3, <1>4, <1>5 DEF TypeOK

(***************************************************************************)
(* An owner's step.                                                        *)
(***************************************************************************)
LEMMA TypeOwns ==
  ASSUME TypeOK, Owns
  PROVE  TypeOK'
<1>1. UNCHANGED <<storeVars, publishVars, boot>>
  BY DEF Owns
<1>2. PICK a \in Addresses, sender \in Accounts :
        \/ \E pair \in published \cup OtherPairs : SetWorker(a, sender, pair[1], pair[2])
        \/ \E to \in Accounts : TransferOwnership(a, sender, to)
        \/ RenounceOwnership(a, sender)
  BY DEF Owns
<1>3. /\ contracts' \in [Addresses -> [owner : Accounts \cup {Zero, Undeployed.owner}, hash : Hash,
                                       resolvers : Resolvers]]
      /\ named' \in [Addresses -> SUBSET (Hash \X Resolvers)]
  <2>1. ASSUME NEW pair \in published \cup OtherPairs, SetWorker(a, sender, pair[1], pair[2])
        PROVE  /\ contracts' \in [Addresses -> [owner : Accounts \cup {Zero, Undeployed.owner}, hash : Hash,
                                                resolvers : Resolvers]]
               /\ named' \in [Addresses -> SUBSET (Hash \X Resolvers)]
    <3>1. pair[1] \in Hash /\ pair[2] \in Resolvers
      BY PairType
    <3>2. contracts[a].owner \in Accounts \cup {Zero, Undeployed.owner}
      BY DEF TypeOK
    <3>. QED  BY <2>1, <3>1, <3>2, ContractsType DEF SetWorker, _SetWorker
  <2>2. ASSUME NEW to \in Accounts \cup {Zero},
               contracts' = [contracts EXCEPT ![a].owner = to], UNCHANGED named
        PROVE  /\ contracts' \in [Addresses -> [owner : Accounts \cup {Zero, Undeployed.owner}, hash : Hash,
                                                resolvers : Resolvers]]
               /\ named' \in [Addresses -> SUBSET (Hash \X Resolvers)]
    BY <2>2 DEF TypeOK
  <2>. QED  BY <1>2, <2>1, <2>2 DEF TransferOwnership, RenounceOwnership
<1>. QED  BY <1>1, <1>3 DEF storeVars, publishVars, TypeOK

(***************************************************************************)
(* The harness's steps.                                                    *)
(***************************************************************************)
BootStep ==
  (\E a \in Addresses, kinds \in {{}, {"kps"}} : ReadHash(a, kinds)) \/ ReadResolvers \/ Try \/ NoneYielded

LEMMA TypeBoot ==
  ASSUME TypeOK, Pinned, BootStep
  PROVE  TypeOK'
<1>. DEFINE BootType == [at : {"new", "resolvers", "fetching", "booted", "failed"}, from : Addresses \cup {""},
               kinds : SUBSET {"kps"}, hash : Hash, resolvers : Resolvers, next : Nat,
               bundle : Bundles \cup {NoBundle}, promised : BOOLEAN]
<1>1. boot \in BootType /\ \A a \in Addresses : contracts[a].hash \in Hash /\ contracts[a].resolvers \in Resolvers
  BY DEF TypeOK
<1>. HIDE DEF BootType
<1>2. UNCHANGED <<storeVars, specifierVars, publishVars>>
  BY DEF BootStep, ReadHash, ReadResolvers, Try, NoneYielded
<1>3. boot' \in BootType
  <2>1. ASSUME NEW a \in Addresses, NEW kinds \in {{}, {"kps"}}, ReadHash(a, kinds) PROVE boot' \in BootType
    BY <1>1, <2>1 DEF ReadHash, BootType
  <2>2. CASE ReadResolvers
    <3>1. contracts[boot.from].resolvers \in Resolvers
      <4>1. boot.from \in Addresses
        BY <2>2 DEF ReadResolvers, Pinned
      <4>. QED  BY <1>1, <4>1
    <3>2. boot' = [boot EXCEPT !.at = "fetching", !.resolvers = contracts[boot.from].resolvers,
                      !.promised = <<boot.hash, contracts[boot.from].resolvers>> \in published]
      BY <2>2 DEF ReadResolvers
    <3>3. (<<boot.hash, contracts[boot.from].resolvers>> \in published) \in BOOLEAN
      OBVIOUS
    <3>. QED  BY <1>1, <3>1, <3>2, <3>3 DEF BootType
  <2>3. CASE Try
    <3>1. PICK got \in Gets(boot.resolvers[boot.next]) :
            boot' = IF got = boot.hash THEN [boot EXCEPT !.at = "booted", !.bundle = got]
                    ELSE [boot EXCEPT !.next = @ + 1]
      BY <2>3 DEF Try
    <3>2. got \in Bundles \cup {NoBundle}
      BY GetsWithinCap
    <3>3. boot.next \in Nat
      BY <1>1 DEF BootType
    <3>4. CASE got = boot.hash
      <4>1. boot' = [boot EXCEPT !.at = "booted", !.bundle = got]
        BY <3>1, <3>4
      <4>. QED  BY <1>1, <3>2, <4>1 DEF BootType
    <3>5. CASE got # boot.hash
      <4>1. boot' = [boot EXCEPT !.next = boot.next + 1]
        BY <3>1, <3>5
      <4>2. boot.next + 1 \in Nat
        BY <3>3
      <4>. QED  BY <1>1, <4>1, <4>2 DEF BootType
    <3>. QED  BY <3>4, <3>5
  <2>4. CASE NoneYielded
    BY <1>1, <2>4 DEF NoneYielded, BootType
  <2>. QED  BY <2>1, <2>2, <2>3, <2>4 DEF BootStep
<1>. QED  BY <1>2, <1>3 DEF storeVars, specifierVars, publishVars, TypeOK, BootType


(***************************************************************************)
(* The raw URLs catch up.                                                  *)
(***************************************************************************)
CatchUp == Propagate /\ UNCHANGED <<specifierVars, publishVars, boot, budget, answer>>

LEMMA TreeType ==
  ASSUME NEW s \in Commit
  PROVE  TreeOf(s) \subseteq Hashes
<1>1. CASE s = <<>>
  BY <1>1 DEF TreeOf
<1>2. CASE s # <<>>
  <2>1. s[Len(s)] \in SUBSET Hashes
    BY <1>2, LenProperties, ElementOfSeq, EmptySeq DEF Commit
  <2>. QED  BY <1>2, <2>1 DEF TreeOf, Last
<1>. QED  BY <1>1, <1>2

LEMMA TypeCatchUp ==
  ASSUME TypeOK, CatchUp
  PROVE  TypeOK'
<1>1. remote \in Commit
  BY DEF TypeOK
<1>2. served' \subseteq Hashes
  BY <1>1, TreeType DEF CatchUp, Propagate
<1>3. UNCHANGED <<remote, clone, contracts, named, publish, published, boot>>
  BY DEF CatchUp, Propagate, specifierVars, publishVars
<1>. QED  BY <1>2, <1>3 DEF TypeOK

(***************************************************************************)
(* Who takes a step.                                                       *)
(***************************************************************************)
LEMMA WhoSteps ==
  ASSUME Next
  PROVE  (\E p \in Publishers : PublisherStep(p)) \/ CatchUp \/ Owns \/ BootStep
BY DEF Next, PublisherStep, CatchUp, BootStep

LEMMA TypeStep ==
  ASSUME TypeOK, Pinned, [Next]_vars
  PROVE  TypeOK'
<1>1. CASE UNCHANGED vars
  BY <1>1 DEF vars, storeVars, specifierVars, publishVars, TypeOK
<1>2. CASE Next
  BY <1>2, WhoSteps, TypePublisher, TypeCatchUp, TypeOwns, TypeBoot
<1>. QED  BY <1>1, <1>2

-----------------------------------------------------------------------------
(* Nothing that is served is lost. *)

(***************************************************************************)
(* A publisher's step on the store: it leaves it alone, commits on what it *)
(* has fetched, or pushes what the remote takes.                           *)
(***************************************************************************)
LEMMA StoreStep ==
  ASSUME TypeOK, NEW p \in Publishers, PublisherStep(p)
  PROVE  /\ served' = served
         /\ \/ /\ UNCHANGED <<remote, clone>>
               /\ publish'[p].at # "push"
            \/ /\ remote' = remote
               /\ \E refs \in {clone[p], Fetched(p)} :
                    clone' = [clone EXCEPT ![p] = Committed(refs, publish[p].hash)]
               /\ publish[p].hash \in Hashes
            \/ /\ Push(p) /\ publish'[p].at # "push"
<1>1. publish[p] \in Run /\ publish \in [Publishers -> Run]
  BY DEF TypeOK
<1>2. CASE \E ok \in BOOLEAN : FetchesAndCommits(p, ok)
  <2>1. publish[p].hash \in Hashes
    BY <1>2 DEF FetchesAndCommits, TypeOK
  <2>. QED  BY <1>2, <2>1 DEF FetchesAndCommits
<1>3. CASE Pushes(p)
  <2>1. CASE CanPush(p)
    <3>1. /\ Push(p) /\ served' = served
          /\ publish'[p].at = IF publish[p].checked THEN "check" ELSE "confirm"
      BY <1>1, <1>3, <2>1 DEF Pushes, Run
    <3>. QED  BY <3>1
  <2>2. CASE ~CanPush(p)
    BY <1>1, <1>3, <2>2 DEF Pushes, Fails, Ends, Idle
  <2>. QED  BY <2>1, <2>2
<1>4. CASE \E hash \in Hashes, urls \in ResolverUrls, github \in BOOLEAN, skip \in BOOLEAN :
             Start(p, hash, urls, github, skip)
  BY <1>1, <1>4 DEF Start, Idle, storeVars
<1>5. CASE Checks(p) \/ Deploy(p) \/ Declines(p) \/ ReadsBack(p)
  <2>1. UNCHANGED storeVars
    BY <1>5 DEF Checks, Deploy, Declines, ReadsBack
  <2>2. publish'[p].at # "push"
    <3>1. \/ \E at \in {"confirm", "deployed"} : Goes(p, at)
          \/ publish[p].at = "check" /\ publish' = [publish EXCEPT ![p].next = publish[p].next + 1]
          \/ \E how \in {"idle", "published", "mismatch"} : Ends(p, how)
      BY <1>5 DEF Checks, Deploy, Declines, ReadsBack, Fails
    <3>. QED  BY <1>1, <3>1 DEF Goes, Ends, Idle, Run
  <2>. QED  BY <2>1, <2>2 DEF storeVars
<1>. QED  BY <1>2, <1>3, <1>4, <1>5 DEF PublisherStep

(***************************************************************************)
(* What is committed is made of what there was, and the fetch brings what  *)
(* the remote has.                                                         *)
(***************************************************************************)
LEMMA RefsGrow ==
  ASSUME TypeOK, Stored, NEW p \in Publishers, NEW refs \in {clone[p], Fetched(p)}
  PROVE  /\ refs \in [tracking : Commit, local : Commit]
         /\ Grows(refs.tracking) /\ Grows(refs.local)
<1>1. clone[p] \in [tracking : Commit, local : Commit] /\ remote \in Commit
  BY DEF TypeOK
<1>2. Grows(clone[p].tracking) /\ Grows(clone[p].local) /\ Grows(remote)
  BY DEF Stored
<1>3. CASE refs = clone[p]
  BY <1>1, <1>2, <1>3
<1>4. CASE refs = Fetched(p)
  <2>1. /\ Fetched(p) \in [tracking : Commit, local : Commit]
        /\ Fetched(p).tracking = IF remote = <<>> THEN clone[p].tracking ELSE remote
        /\ Fetched(p).local = clone[p].local
    BY <1>1 DEF Fetched
  <2>. QED  BY <1>2, <1>4, <2>1
<1>. QED  BY <1>3, <1>4

LEMMA StoredStep ==
  ASSUME TypeOK, Pinned, Stored, [Next]_vars
  PROVE  Stored' /\ served \subseteq served'
<1>1. /\ remote \in Commit
      /\ clone \in [Publishers -> [tracking : Commit, local : Commit]]
  BY DEF TypeOK
<1>2. CASE UNCHANGED storeVars
  BY <1>2 DEF storeVars, Stored
<1>3. CASE CatchUp
  BY <1>3 DEF CatchUp, Propagate, Stored
<1>4. ASSUME NEW p \in Publishers, PublisherStep(p) PROVE Stored' /\ served \subseteq served'
  <2>1. CASE UNCHANGED <<remote, clone, served>>
    BY <2>1 DEF Stored
  <2>2. ASSUME remote' = remote, served' = served, publish[p].hash \in Hashes,
               NEW refs \in {clone[p], Fetched(p)},
               clone' = [clone EXCEPT ![p] = Committed(refs, publish[p].hash)]
        PROVE  Stored' /\ served \subseteq served'
    <3>. DEFINE c == Committed(refs, publish[p].hash)
    <3>1. Grows(c.tracking) /\ Grows(c.local)
      BY <2>2, RefsGrow, CommittedGrows
    <3>2. clone' = [clone EXCEPT ![p] = c]
      BY <2>2
    <3>. HIDE DEF c
    <3>3. \A q \in Publishers : Grows(clone'[q].tracking) /\ Grows(clone'[q].local)
      BY <1>1, <3>1, <3>2 DEF Stored
    <3>. QED  BY <2>2, <3>3 DEF Stored
  <2>3. CASE Push(p) /\ served' = served
    <3>1. clone[p].local \in Commit /\ Grows(clone[p].local) /\ IsPrefix(remote, clone[p].local)
      BY <1>1, <2>3 DEF Push, CanPush, Stored
    <3>2. TreeOf(remote) \subseteq TreeOf(clone[p].local)
      BY <1>1, <3>1, PrefixTree
    <3>3. remote' = clone[p].local /\ clone' = [clone EXCEPT ![p].tracking = clone[p].local]
      BY <2>3 DEF Push
    <3>4. \A q \in Publishers : Grows(clone'[q].tracking) /\ Grows(clone'[q].local)
      BY <1>1, <3>1, <3>3 DEF Stored
    <3>. QED  BY <2>3, <3>1, <3>2, <3>3, <3>4 DEF Stored
  <2>. QED  BY <1>4, <2>1, <2>2, <2>3, StoreStep
<1>. QED  BY <1>2, <1>3, <1>4, WhoSteps DEF vars, storeVars, Owns, BootStep, ReadHash, ReadResolvers, Try, NoneYielded

(***************************************************************************)
(* What a publisher pushes is made of what it has fetched, until the push. *)
(***************************************************************************)
LEMMA RebasedStep ==
  ASSUME TypeOK, Stored, Rebased, [Next]_vars
  PROVE  Rebased'
<1>1. /\ remote \in Commit
      /\ clone \in [Publishers -> [tracking : Commit, local : Commit]]
  BY DEF TypeOK
<1>2. CASE UNCHANGED <<clone, publish>>
  BY <1>2 DEF Rebased
<1>3. ASSUME NEW p \in Publishers, PublisherStep(p) PROVE Rebased'
  <2>0. /\ publish' \in [Publishers -> Run]
        /\ \A q \in Publishers : q # p => publish'[q] = publish[q]
    BY <1>3, RunGoesOn
  <2>1. CASE UNCHANGED <<remote, clone>> /\ publish'[p].at # "push"
    BY <2>0, <2>1 DEF Rebased
  <2>2. ASSUME publish[p].hash \in Hashes,
               NEW refs \in {clone[p], Fetched(p)},
               clone' = [clone EXCEPT ![p] = Committed(refs, publish[p].hash)]
        PROVE  Rebased'
    <3>. DEFINE c == Committed(refs, publish[p].hash)
    <3>1. IsPrefix(c.tracking, c.local)
      BY <2>2, RefsGrow, CommittedGrows
    <3>2. clone' = [clone EXCEPT ![p] = c]
      BY <2>2
    <3>. HIDE DEF c
    <3>. QED  BY <1>1, <2>0, <3>1, <3>2 DEF Rebased
  <2>3. CASE Push(p) /\ publish'[p].at # "push"
    BY <1>1, <2>0, <2>3 DEF Push, Rebased
  <2>. QED  BY <1>3, <2>1, <2>2, <2>3, StoreStep
<1>. QED  BY <1>2, <1>3, WhoSteps DEF vars, storeVars, publishVars, CatchUp, Propagate, Owns, BootStep, ReadHash,
             ReadResolvers, Try, NoneYielded

-----------------------------------------------------------------------------
(* A harness boots what its contract has named. *)

(***************************************************************************)
(* No contract forgets what it has named.                                  *)
(***************************************************************************)
Remembers == \A a \in Addresses : named[a] \subseteq named'[a]

(***************************************************************************)
(* A contract that is set anew has a pair with a hash, and had it.         *)
(***************************************************************************)
LEMMA SetNamed ==
  ASSUME TypeOK, Named, NEW a \in Addresses, NEW owner, NEW hash, NEW urls,
         _SetWorker(a, owner, hash, urls), hash # NoBundle
  PROVE  Named' /\ Remembers
<1>1. /\ DOMAIN contracts = Addresses /\ DOMAIN named = Addresses
  BY DEF TypeOK
<1>2. /\ \A b \in Addresses : b # a => contracts'[b] = contracts[b] /\ named'[b] = named[b]
      /\ contracts'[a] = [owner |-> owner, hash |-> hash, resolvers |-> urls]
      /\ named'[a] = named[a] \cup {<<hash, urls>>}
  BY <1>1 DEF _SetWorker
<1>3. <<contracts'[a].hash, contracts'[a].resolvers>> \in named'[a]
  BY <1>2
<1>4. ASSUME NEW pair \in named'[a] PROVE pair[1] # NoBundle
  <2>1. pair \in named[a] \/ pair = <<hash, urls>>
    BY <1>2
  <2>2. pair \in named[a] => pair[1] # NoBundle
    BY DEF Named
  <2>3. <<hash, urls>>[1] # NoBundle
    OBVIOUS
  <2>. QED  BY <2>1, <2>2, <2>3
<1>5. ASSUME NEW b \in Addresses
      PROVE  /\ contracts'[b] = Undeployed \/ <<contracts'[b].hash, contracts'[b].resolvers>> \in named'[b]
             /\ \A pair \in named'[b] : pair[1] # NoBundle
  BY <1>2, <1>3, <1>4 DEF Named
<1>. QED  BY <1>2, <1>5 DEF Named, Remembers

LEMMA NamedStep ==
  ASSUME TypeOK, Named, [Next]_vars
  PROVE  Named' /\ Remembers
<1>1. CASE UNCHANGED specifierVars
  BY <1>1 DEF specifierVars, Named, Remembers
<1>2. ASSUME NEW p \in Publishers, Deploy(p) PROVE Named' /\ Remembers
  <2>1. p \in Addresses /\ publish[p].hash \in Hashes
    BY <1>2, SupplyAssumption DEF Deploy, TypeOK
  <2>2. publish[p].hash # NoBundle
    BY <2>1, SupplyAssumption, FilesAssumption
  <2>. QED  BY <1>2, <2>1, <2>2, SetNamed DEF Deploy, Constructor
<1>3. CASE Owns
  <2>1. PICK a \in Addresses, sender \in Accounts :
          \/ \E pair \in published \cup OtherPairs : SetWorker(a, sender, pair[1], pair[2])
          \/ \E to \in Accounts : TransferOwnership(a, sender, to)
          \/ RenounceOwnership(a, sender)
    BY <1>3 DEF Owns
  <2>2. ASSUME NEW pair \in published \cup OtherPairs, SetWorker(a, sender, pair[1], pair[2])
        PROVE  Named' /\ Remembers
    BY <2>2, PairType, SetNamed DEF SetWorker
  <2>3. ASSUME NEW to, contracts' = [contracts EXCEPT ![a].owner = to], UNCHANGED named, contracts[a] # Undeployed
        PROVE  Named' /\ Remembers
    <3>1. contracts \in [Addresses -> [owner : Accounts \cup {Zero, Undeployed.owner}, hash : Hash,
                                       resolvers : Resolvers]]
      BY DEF TypeOK
    <3>2. /\ contracts'[a].hash = contracts[a].hash /\ contracts'[a].resolvers = contracts[a].resolvers
          /\ \A b \in Addresses : b # a => contracts'[b] = contracts[b]
      BY <2>3, <3>1
    <3>3. <<contracts[a].hash, contracts[a].resolvers>> \in named[a]
      BY <2>3 DEF Named
    <3>. QED  BY <2>3, <3>2, <3>3 DEF Named, Remembers
  <2>. QED  BY <2>1, <2>2, <2>3 DEF TransferOwnership, RenounceOwnership, OnlyOwner
<1>. QED  BY <1>1, <1>2, <1>3, WhoSteps DEF vars, PublisherStep, Start, FetchesAndCommits, Pushes, Checks, Declines,
             ReadsBack, CatchUp, BootStep, ReadHash, ReadResolvers, Try, NoneYielded

LEMMA PinnedStep ==
  ASSUME TypeOK, Named, Pinned, [Next]_vars
  PROVE  Pinned'
<1>. DEFINE BootType == [at : {"new", "resolvers", "fetching", "booted", "failed"}, from : Addresses \cup {""},
               kinds : SUBSET {"kps"}, hash : Hash, resolvers : Resolvers, next : Nat,
               bundle : Bundles \cup {NoBundle}, promised : BOOLEAN]
<1>1. boot \in BootType
  BY DEF TypeOK
<1>2. Remembers
  BY NamedStep
<1>3. CASE UNCHANGED boot
  BY <1>2, <1>3 DEF Pinned, Remembers
<1>4. CASE BootStep
  <2>1. ASSUME NEW a \in Addresses, NEW kinds \in {{}, {"kps"}}, ReadHash(a, kinds) PROVE Pinned'
    <3>1. <<contracts[a].hash, contracts[a].resolvers>> \in named'[a]
      BY <1>2, <2>1 DEF ReadHash, Named, Remembers
    <3>2. boot'.from = a /\ boot'.hash = contracts[a].hash /\ boot'.at = "resolvers"
      BY <1>1, <2>1 DEF ReadHash
    <3>3. \E pair \in named'[a] : pair[1] = contracts[a].hash
      <4>. WITNESS <<contracts[a].hash, contracts[a].resolvers>> \in named'[a]
      <4>. QED  OBVIOUS
    <3>. QED  BY <3>2, <3>3 DEF Pinned
  <2>2. ASSUME boot.at # "new", boot'.from = boot.from, boot'.hash = boot.hash, boot'.at # "booted"
        PROVE  Pinned'
    BY <1>2, <2>2 DEF Pinned, Remembers
  <2>3. CASE ReadResolvers \/ NoneYielded
    <3>1. boot.at # "new" /\ boot'.from = boot.from /\ boot'.hash = boot.hash /\ boot'.at # "booted"
      BY <1>1, <2>3 DEF ReadResolvers, NoneYielded
    <3>. QED  BY <2>2, <3>1
  <2>4. CASE Try
    <3>1. PICK got \in Gets(boot.resolvers[boot.next]) :
            boot' = IF got = boot.hash THEN [boot EXCEPT !.at = "booted", !.bundle = got]
                    ELSE [boot EXCEPT !.next = @ + 1]
      BY <2>4 DEF Try
    <3>2. boot.at = "fetching"
      BY <2>4 DEF Try
    <3>3. CASE got # boot.hash
      <4>1. boot'.from = boot.from /\ boot'.hash = boot.hash /\ boot'.at = "fetching"
        BY <1>1, <3>1, <3>2, <3>3
      <4>. QED  BY <2>2, <3>2, <4>1
    <3>4. CASE got = boot.hash
      <4>1. boot'.from = boot.from /\ boot'.hash = boot.hash /\ boot'.at = "booted" /\ boot'.bundle = got
        BY <1>1, <3>1, <3>4
      <4>2. boot.from \in Addresses /\ \E pair \in named[boot.from] : pair[1] = boot.hash
        BY <3>2 DEF Pinned
      <4>3. boot.hash # NoBundle
        BY <4>2 DEF Named
      <4>4. SizeOf[got] <= MaxBytes
        BY <3>4, <4>3, GetsWithinCap
      <4>. QED  BY <1>2, <3>4, <4>1, <4>2, <4>4 DEF Pinned, Remembers
    <3>. QED  BY <3>3, <3>4
  <2>. QED  BY <1>4, <2>1, <2>3, <2>4 DEF BootStep
<1>. QED  BY <1>3, <1>4, WhoSteps DEF vars, PublisherStep, Start, FetchesAndCommits, Pushes, Checks, Deploy, Declines,
             ReadsBack, CatchUp, Owns

-----------------------------------------------------------------------------
(* What was published boots. *)

(***************************************************************************)
(* What a run has checked, it has checked for good: nothing that is served *)
(* is lost.                                                                *)
(***************************************************************************)
Sound(run) ==
  /\ run.at \in {"fetch", "push"} => run.next = 1
  /\ run.stored /\ run.checked /\ run.at \in {"check", "confirm"} =>
       Raw(run.hash) \in ToSet(run.resolvers) /\ FoundServed(run.next, run)
  /\ run.checked /\ run.at = "confirm" => run.next > Len(run.resolvers)

LEMMA StillSound ==
  ASSUME NEW run, Sound(run), served \subseteq served'
  PROVE  Sound(run)'
BY DEF Sound, FoundServed

(***************************************************************************)
(* A step of the script keeps what it has checked.                         *)
(***************************************************************************)
LEMMA RunSound ==
  ASSUME TypeOK, NEW p \in Publishers, PublisherStep(p), Sound(publish[p])
  PROVE  Sound(publish'[p])
<1>. DEFINE run == publish[p]
            new == publish'[p]
<1>1. run \in Run /\ publish \in [Publishers -> Run] /\ Len(run.resolvers) \in Nat
  BY LenProperties DEF TypeOK, Run
<1>2. ASSUME NEW how \in {"idle", "published", "mismatch"}, Ends(p, how) PROVE Sound(new)
  BY <1>1, <1>2 DEF Ends, Idle, Sound
<1>3. ASSUME NEW hash \in Hashes, NEW urls \in ResolverUrls, NEW github \in BOOLEAN, NEW skip \in BOOLEAN,
             Start(p, hash, urls, github, skip)
      PROVE  Sound(new)
  <2>1. /\ new.next = 1 /\ new.stored = github /\ new.checked = ~skip
        /\ new.at = CASE github -> "fetch" [] ~github /\ skip -> "confirm" [] OTHER -> "check"
    BY <1>1, <1>3 DEF Start, Idle
  <2>. QED  BY <2>1 DEF Sound
<1>4. CASE \E ok \in BOOLEAN : FetchesAndCommits(p, ok)
  <2>1. new = [run EXCEPT !.at = "push"] /\ run.at = "fetch"
    BY <1>1, <1>4 DEF FetchesAndCommits, Goes
  <2>2. new.at = "push" /\ new.next = run.next
    BY <1>1, <2>1 DEF Run
  <2>. QED  BY <2>1, <2>2 DEF Sound
<1>5. CASE Pushes(p)
  <2>1. CASE Fails(p)
    BY <1>2, <2>1 DEF Fails
  <2>2. CASE ~Fails(p)
    <3>. DEFINE raw == Raw(run.hash)
                urls == IF raw \in ToSet(run.resolvers) THEN run.resolvers ELSE Append(run.resolvers, raw)
                at == IF run.checked THEN "check" ELSE "confirm"
    <3>1. run.at = "push" /\ publish' = [publish EXCEPT ![p].at = at, ![p].resolvers = urls]
      BY <1>5, <2>2 DEF Pushes
    <3>2. raw \in ToSet(urls)
      <4>1. CASE raw \in ToSet(run.resolvers)
        BY <4>1
      <4>2. CASE raw \notin ToSet(run.resolvers)
        <5>1. run.resolvers \in Seq(Resolver)
          BY <1>1 DEF Run
        <5>2. run.resolvers \in Seq(Resolver \cup {raw})
          BY <5>1, SeqMonotonic
        <5>. HIDE DEF raw, run
        <5>3. LET s == Append(run.resolvers, raw)
              IN  Len(s) \in Nat /\ Len(s) >= 1 /\ s[Len(s)] = raw
          BY <5>2, AppendProperties, LenProperties
        <5>4. urls = Append(run.resolvers, raw)
          BY <4>2
        <5>. QED  BY <5>3, <5>4 DEF ToSet
      <4>. QED  BY <4>1, <4>2
    <3>. HIDE DEF urls, at
    <3>3. /\ new.at = at /\ new.resolvers = urls /\ new.hash = run.hash /\ new.next = run.next
          /\ new.checked = run.checked
      BY <1>1, <3>1 DEF Run
    <3>4. run.next = 1
      BY <3>1 DEF Sound
    <3>5. FoundServed(new.next, new)
      BY <3>3, <3>4 DEF FoundServed
    <3>. QED  BY <3>2, <3>3, <3>5 DEF Sound, at
  <2>. QED  BY <2>1, <2>2
<1>6. CASE Checks(p)
  <2>1. run.at = "check"
    BY <1>6 DEF Checks
  <2>2. CASE Goes(p, "confirm") /\ run.next > Len(run.resolvers)
    <3>1. /\ new.at = "confirm" /\ new.resolvers = run.resolvers /\ new.hash = run.hash /\ new.next = run.next
          /\ new.checked = run.checked /\ new.stored = run.stored
      BY <1>1, <2>2 DEF Goes, Run
    <3>. QED  BY <2>1, <2>2, <3>1 DEF Sound, FoundServed
  <2>3. ASSUME publish' = [publish EXCEPT ![p].next = run.next + 1], run.next <= Len(run.resolvers),
               run.resolvers[run.next] = Raw(run.hash) => run.hash \in served
        PROVE  Sound(new)
    <3>1. /\ new.at = "check" /\ new.resolvers = run.resolvers /\ new.hash = run.hash /\ new.next = run.next + 1
          /\ new.checked = run.checked /\ new.stored = run.stored
      BY <1>1, <2>1, <2>3 DEF Run
    <3>2. run.next \in Nat
      BY <1>1 DEF Run
    <3>3. FoundServed(run.next, run) => FoundServed(new.next, new)
      <4>1. SUFFICES ASSUME FoundServed(run.next, run), NEW i \in 1 .. Len(run.resolvers), i < run.next + 1,
                            run.resolvers[i] = Raw(run.hash)
                     PROVE  run.hash \in served
        BY <3>1 DEF FoundServed
      <4>2. CASE i < run.next
        BY <4>1, <4>2 DEF FoundServed
      <4>3. CASE i = run.next
        BY <2>3, <4>1, <4>3
      <4>. QED  BY <3>2, <4>1, <4>2, <4>3
    <3>4. Sound(run)
      OBVIOUS
    <3>. HIDE DEF run, new
    <3>. QED  BY <2>1, <3>1, <3>3, <3>4 DEF Sound
  <2>4. CASE ~(run.next > Len(run.resolvers)) /\ ~Fails(p)
    <3>1. run.next \in Nat
      BY <1>1 DEF Run
    <3>2. publish' = [publish EXCEPT ![p].next = run.next + 1]
      BY <1>6, <2>4 DEF Checks
    <3>3. ASSUME run.resolvers[run.next] = Raw(run.hash) PROVE run.hash \in served
      <4>1. run.resolvers[run.next][1] = "raw" /\ run.resolvers[run.next][2] = run.hash
        BY <3>3 DEF Raw
      <4>2. MayServe(run.resolvers[run.next], run.hash) = {run.hash \in served}
        BY <4>1 DEF MayServe
      <4>3. PICK serves \in MayServe(run.resolvers[run.next], run.hash) :
              IF serves THEN publish' = [publish EXCEPT ![p].next = run.next + 1] ELSE Fails(p)
        BY <1>6, <2>4, <4>1 DEF Checks
      <4>. QED  BY <2>4, <4>2, <4>3
    <3>. QED  BY <1>1, <2>3, <2>4, <3>1, <3>2, <3>3
  <2>5. CASE Fails(p)
    BY <1>2, <2>5 DEF Fails
  <2>. QED  BY <1>6, <2>2, <2>4, <2>5 DEF Checks
<1>7. CASE Deploy(p)
  <2>1. new.at = "deployed"
    BY <1>1, <1>7 DEF Deploy, Goes, Run
  <2>. QED  BY <2>1 DEF Sound
<1>8. CASE Declines(p)
  BY <1>2, <1>8 DEF Declines, Fails
<1>9. CASE ReadsBack(p)
  <2>1. \E how \in {"published", "mismatch"} : Ends(p, how)
    BY <1>9 DEF ReadsBack
  <2>. QED  BY <1>2, <2>1
<1>. QED  BY <1>3, <1>4, <1>5, <1>6, <1>7, <1>8, <1>9 DEF PublisherStep

LEMMA CheckedStep ==
  ASSUME TypeOK, Pinned, Stored, Checked, [Next]_vars
  PROVE  Checked'
<1>1. \A q \in Publishers : Sound(publish[q])
  BY DEF Checked, Sound
<1>2. served \subseteq served'
  BY StoredStep
<1>3. CASE UNCHANGED publish
  <2>1. \A q \in Publishers : Sound(publish[q])'
    BY <1>1, <1>2, <1>3 DEF Sound, FoundServed
  <2>. QED  BY <2>1 DEF Checked, Sound
<1>4. ASSUME NEW p \in Publishers, PublisherStep(p) PROVE Checked'
  <2>1. /\ served' = served
        /\ \A q \in Publishers : q # p => publish'[q] = publish[q]
    BY <1>4, RunGoesOn, StoreStep
  <2>2. Sound(publish'[p])
    BY <1>1, <1>4, RunSound
  <2>3. \A q \in Publishers : Sound(publish'[q])
    BY <1>1, <2>1, <2>2
  <2>. QED  BY <2>1, <2>3 DEF Checked, Sound, FoundServed
<1>. QED  BY <1>3, <1>4, WhoSteps DEF vars, publishVars, CatchUp, Owns, BootStep, ReadHash, ReadResolvers, Try, NoneYielded

(***************************************************************************)
(* What is deployed after all was stored and checked is served.            *)
(***************************************************************************)
LEMMA KeptStep ==
  ASSUME TypeOK, Pinned, Stored, Checked, Kept, [Next]_vars
  PROVE  Kept' /\ published \subseteq published'
<1>1. served \subseteq served'
  BY StoredStep
<1>2. CASE UNCHANGED published
  BY <1>1, <1>2 DEF Kept
<1>3. ASSUME NEW p \in Publishers, Deploy(p) PROVE Kept' /\ published \subseteq published'
  <2>. DEFINE run == publish[p]
  <2>1. run.at = "confirm"
    BY <1>3 DEF Deploy
  <2>2. CASE ~(run.stored /\ run.checked)
    <3>1. published' = published
      BY <1>3, <2>2 DEF Deploy
    <3>. QED  BY <1>2, <3>1
  <2>3. CASE run.stored /\ run.checked
    <3>1. published' = published \cup {<<run.hash, run.resolvers>>}
      BY <1>3, <2>3 DEF Deploy
    <3>2. Raw(run.hash) \in ToSet(run.resolvers) /\ FoundServed(run.next, run) /\ run.next > Len(run.resolvers)
      BY <2>1, <2>3 DEF Checked
    <3>3. run.hash \in served
      <4>1. PICK i \in 1 .. Len(run.resolvers) : run.resolvers[i] = Raw(run.hash)
        <5>1. run.resolvers \in Seq(Resolver)
          BY DEF TypeOK, Run
        <5>2. DOMAIN run.resolvers = 1 .. Len(run.resolvers)
          BY <5>1, LenProperties
        <5>. QED  BY <3>2, <5>2 DEF ToSet
      <4>2. i < run.next
        <5>1. run.next \in Nat /\ Len(run.resolvers) \in Nat
          BY LenProperties DEF TypeOK, Run
        <5>. QED  BY <3>2, <5>1
      <4>. QED  BY <3>2, <4>1, <4>2 DEF FoundServed
    <3>4. \A pair \in published : pair[1] \in served' /\ Raw(pair[1]) \in ToSet(pair[2])
      BY <1>1 DEF Kept
    <3>5. ASSUME NEW pair, pair = <<run.hash, run.resolvers>>
          PROVE  pair[1] \in served' /\ Raw(pair[1]) \in ToSet(pair[2])
      <4>1. pair[1] = run.hash /\ pair[2] = run.resolvers
        BY <3>5
      <4>. HIDE DEF run
      <4>. QED  BY <1>1, <3>2, <3>3, <4>1
    <3>. QED  BY <3>1, <3>4, <3>5 DEF Kept
  <2>. QED  BY <2>2, <2>3
<1>. QED  BY <1>2, <1>3, WhoSteps DEF vars, publishVars, PublisherStep, Start, FetchesAndCommits, Pushes, Checks,
             Declines, ReadsBack, CatchUp, Owns, BootStep, ReadHash, ReadResolvers, Try, NoneYielded

(***************************************************************************)
(* The raw URL of a bundle that is served yields it, unless it is larger   *)
(* than a harness accepts.                                                 *)
(***************************************************************************)
LEMMA RawYields ==
  ASSUME TypeOK, NEW hash \in served, NEW got \in Gets(Raw(hash)), got # hash
  PROVE  SizeOf[hash] > MaxBytes
<1>1. boot.kinds \subseteq {"kps"}
  BY DEF TypeOK
<1>2. Raw(hash)[1] = "raw" /\ Raw(hash)[2] = hash
  BY DEF Raw
<1>3. got = ReadBodyCapped(hash)
  BY <1>1, <1>2 DEF Gets
<1>. QED  BY <1>3 DEF ReadBodyCapped

(***************************************************************************)
(* A harness whose pair was published looks at every resolver of it.       *)
(***************************************************************************)
LEMMA PassedStep ==
  ASSUME TypeOK, Pinned, Stored, Checked, Kept, Passed, [Next]_vars
  PROVE  Passed'
<1>. DEFINE BootType == [at : {"new", "resolvers", "fetching", "booted", "failed"}, from : Addresses \cup {""},
               kinds : SUBSET {"kps"}, hash : Hash, resolvers : Resolvers, next : Nat,
               bundle : Bundles \cup {NoBundle}, promised : BOOLEAN]
<1>1. boot \in BootType
  BY DEF TypeOK
<1>2. published \subseteq published'
  BY KeptStep
<1>3. CASE UNCHANGED boot
  BY <1>2, <1>3 DEF Passed
<1>4. CASE BootStep
  <2>1. ASSUME NEW a \in Addresses, NEW kinds \in {{}, {"kps"}}, ReadHash(a, kinds) PROVE Passed'
    <3>1. boot'.at = "resolvers" /\ boot'.next = 1
      BY <1>1, <2>1 DEF ReadHash, Passed
    <3>. QED  BY <3>1 DEF Passed
  <2>2. CASE ReadResolvers
    <3>1. /\ boot'.at = "fetching" /\ boot'.hash = boot.hash /\ boot'.next = boot.next
          /\ boot'.promised = (<<boot'.hash, boot'.resolvers>> \in published)
      BY <1>1, <2>2 DEF ReadResolvers
    <3>2. boot.next = 1
      BY <2>2 DEF ReadResolvers, Passed
    <3>3. boot'.promised => <<boot'.hash, boot'.resolvers>> \in published'
      BY <1>2, <3>1
    <3>4. \A i \in 1 .. Len(boot'.resolvers) : ~(i < boot'.next)
      BY <3>1, <3>2
    <3>. QED  BY <3>1, <3>3, <3>4 DEF Passed
  <2>3. CASE Try
    <3>1. PICK got \in Gets(boot.resolvers[boot.next]) :
            boot' = IF got = boot.hash THEN [boot EXCEPT !.at = "booted", !.bundle = got]
                    ELSE [boot EXCEPT !.next = @ + 1]
      BY <2>3 DEF Try
    <3>2. boot.at = "fetching" /\ boot.next \in Nat
      BY <1>1, <2>3 DEF Try
    <3>3. CASE got = boot.hash
      <4>1. boot'.at = "booted"
        BY <1>1, <3>1, <3>3
      <4>. QED  BY <4>1 DEF Passed
    <3>4. CASE got # boot.hash
      <4>1. /\ boot'.at = "fetching" /\ boot'.hash = boot.hash /\ boot'.next = boot.next + 1
            /\ boot'.resolvers = boot.resolvers /\ boot'.promised = boot.promised
        BY <1>1, <3>1, <3>2, <3>4
      <4>2. SUFFICES ASSUME boot.promised
                     PROVE  /\ <<boot.hash, boot.resolvers>> \in published
                            /\ \A i \in 1 .. Len(boot.resolvers) :
                                 i < boot.next + 1 /\ boot.resolvers[i] = Raw(boot.hash) =>
                                   SizeOf[boot.hash] > MaxBytes
        BY <1>2, <4>1 DEF Passed
      <4>3. /\ <<boot.hash, boot.resolvers>> \in published
            /\ \A i \in 1 .. Len(boot.resolvers) :
                 i < boot.next /\ boot.resolvers[i] = Raw(boot.hash) => SizeOf[boot.hash] > MaxBytes
        BY <3>2, <4>2 DEF Passed
      <4>4. boot.hash \in served
        <5>1. <<boot.hash, boot.resolvers>>[1] \in served
          BY <4>3 DEF Kept
        <5>. QED  BY <5>1
      <4>5. boot.resolvers[boot.next] = Raw(boot.hash) => SizeOf[boot.hash] > MaxBytes
        BY <3>1, <3>4, <4>4, RawYields
      <4>6. ASSUME NEW i \in 1 .. Len(boot.resolvers), i < boot.next + 1, boot.resolvers[i] = Raw(boot.hash)
            PROVE  SizeOf[boot.hash] > MaxBytes
        <5>1. CASE i < boot.next
          BY <4>3, <4>6, <5>1
        <5>2. CASE i = boot.next
          BY <4>5, <4>6, <5>2
        <5>. QED  BY <3>2, <4>6, <5>1, <5>2
      <4>. QED  BY <4>3, <4>6
    <3>. QED  BY <3>3, <3>4
  <2>4. CASE NoneYielded
    <3>1. /\ boot.at = "fetching" /\ boot.next > Len(boot.resolvers)
          /\ boot'.at = "failed" /\ boot'.hash = boot.hash /\ boot'.next = boot.next
          /\ boot'.resolvers = boot.resolvers /\ boot'.promised = boot.promised
      BY <1>1, <2>4 DEF NoneYielded
    <3>. QED  BY <1>2, <3>1 DEF Passed
  <2>. QED  BY <1>4, <2>1, <2>2, <2>3, <2>4 DEF BootStep
<1>. QED  BY <1>3, <1>4, WhoSteps DEF vars, PublisherStep, Start, FetchesAndCommits, Pushes, Checks, Deploy, Declines,
             ReadsBack, CatchUp, Owns

-----------------------------------------------------------------------------
(* The theorems. *)

Supply ==
  /\ TypeOK /\ Stored /\ Rebased /\ Named /\ Pinned
  /\ Checked /\ Kept /\ Passed

LEMMA SupplyInit == Init => Supply
<1>. SUFFICES ASSUME Init PROVE Supply
  OBVIOUS
<1>1. TypeOK
  BY TypeInit
<1>2. Len(<<>>) = 0
  OBVIOUS
<1>3. Grows(<<>>)
  BY <1>2 DEF Grows
<1>4. Stored
  BY <1>3 DEF Init, StoreInit, Stored, TreeOf
<1>5. Rebased /\ Checked
  BY DEF Init, Idle, Rebased, Checked
<1>6. Named /\ Pinned
  BY DEF Init, SpecifierInit, Named, Pinned
<1>7. Kept /\ Passed
  BY DEF Init, Kept, Passed
<1>. QED  BY <1>1, <1>4, <1>5, <1>6, <1>7 DEF Supply

LEMMA SupplyStep == Supply /\ [Next]_vars => Supply'
BY TypeStep, StoredStep, RebasedStep, NamedStep, PinnedStep, CheckedStep, KeptStep, PassedStep DEF Supply

LEMMA AlwaysSupply == Spec => []Supply
BY SupplyInit, SupplyStep, PTL DEF Spec

(***************************************************************************)
(* The types of WorkerSupply's variables hold throughout: publish-worker.mjs *)
(* pushes and deploys only bundles it has a hash of, and a harness boots   *)
(* only bundles.                                                           *)
(***************************************************************************)
THEOREM SupplyTyped == Spec => []TypeOK
BY AlwaysSupply, PTL DEF Supply

(***************************************************************************)
(* github-resolver.mjs:74-76: a push is refused only to one who lost a     *)
(* race, whatever a refused push has left behind.                          *)
(***************************************************************************)
THEOREM PushesLoseOnlyRaces == Spec => []OnlyRacesLose
<1>1. Supply => OnlyRacesLose
  BY DEF Supply, Rebased, OnlyRacesLose, CanPush
<1>. QED  BY <1>1, AlwaysSupply, PTL

(***************************************************************************)
(* specifier.ts:61-63: what boots is a bundle the contract has named, out  *)
(* of whichever resolver, and no larger than the cap.                      *)
(***************************************************************************)
THEOREM BootIsPinned == Spec => []BootsPinned
<1>1. Supply => BootsPinned
  BY DEF Supply, Pinned, BootsPinned
<1>. QED  BY <1>1, AlwaysSupply, PTL

(***************************************************************************)
(* publish-worker.mjs:111-114: what was stored, checked and deployed, a    *)
(* harness boots, unless it is larger than harnesses accept.               *)
(***************************************************************************)
THEOREM PublishedAlwaysBoots == Spec => []PublishedBoots
<1>1. ASSUME Supply PROVE PublishedBoots
  <2>1. SUFFICES ASSUME boot.at = "failed", boot.promised PROVE SizeOf[boot.hash] > MaxBytes
    BY DEF PublishedBoots
  <2>2. /\ <<boot.hash, boot.resolvers>> \in published
        /\ \A i \in 1 .. Len(boot.resolvers) :
             i < boot.next /\ boot.resolvers[i] = Raw(boot.hash) => SizeOf[boot.hash] > MaxBytes
        /\ boot.next > Len(boot.resolvers)
    BY <1>1, <2>1 DEF Supply, Passed
  <2>3. Raw(boot.hash) \in ToSet(boot.resolvers)
    <3>1. Raw(<<boot.hash, boot.resolvers>>[1]) \in ToSet(<<boot.hash, boot.resolvers>>[2])
      BY <1>1, <2>2 DEF Supply, Kept
    <3>. QED  BY <3>1
  <2>4. boot.resolvers \in Seq(Resolver) /\ boot.next \in Nat
    <3>1. published \subseteq Hashes \X Seq(Resolver)
      BY <1>1 DEF Supply, TypeOK
    <3>2. boot.next \in Nat
      BY <1>1 DEF Supply, TypeOK
    <3>. QED  BY <2>2, <3>1, <3>2
  <2>5. Len(boot.resolvers) \in Nat /\ DOMAIN boot.resolvers = 1 .. Len(boot.resolvers)
    BY <2>4, LenProperties
  <2>6. PICK i \in 1 .. Len(boot.resolvers) : boot.resolvers[i] = Raw(boot.hash)
    BY <2>3, <2>5 DEF ToSet
  <2>7. i < boot.next
    BY <2>2, <2>4, <2>5
  <2>. QED  BY <2>2, <2>6, <2>7
<1>. QED  BY <1>1, AlwaysSupply, PTL

-----------------------------------------------------------------------------
(* The offscreen document. *)

\* what a worker retains it has written
LogsBounded == \A w \in Workers : logs[w].retained =< logs[w].written

\* a connection in use has a worker, and one not made yet was told nothing
Placed ==
  \A k \in Conns :
    /\ Attached(k) => conn[k].worker \in Workers /\ ~Fresh(conn[k].worker)
    /\ conn[k].state = "new" => conn[k].told = "nothing"

\* a worker not constructed yet has neither run nor failed
Unused ==
  \A w \in Workers : Fresh(w) =>
    /\ ~entry[w].live /\ ~entry[w].reaper /\ ~entry[w].booting /\ ~entry[w].frame
    /\ entry[w].ready = "pending"

\* a boot makes one frame, no worker is ready before it, and one that is to be ready lives
BootSound(e) ==
  /\ e.reading => e.booting
  /\ e.booting => ~e.frame /\ e.ready # "resolved"
  /\ e.ready = "pending" => e.live \/ e.key = None

Pending == \A w \in Workers : BootSound(entry[w])

\* what Running says of an entry
Runs(e) == e.live \/ (e.frame /\ e.ready # "rejected")

\* a cached worker is cached by its key
CacheKeyed == \A key \in Keys : cache[key] # None => entry[cache[key]].key = key

HostInv ==
  /\ HostTypeOK
  /\ LogsBounded
  /\ Placed
  /\ Unused
  /\ Pending
  /\ CacheKeyed
  /\ RefsExact
  /\ RunningIsCached
  /\ RetryIsReal

-----------------------------------------------------------------------------
(* The reference counts. *)

\* the connections keep their workers, and the workers their counts
Stay ==
  /\ \A k \in Conns : conn'[k].state = conn[k].state /\ conn'[k].worker = conn[k].worker
  /\ \A w \in Workers : entry'[w].refs = entry[w].refs

\* one connection is made, and counted
Join(k, w) ==
  /\ conn[k].state = "new" /\ conn'[k].state = "attached" /\ conn'[k].worker = w
  /\ entry'[w].refs = entry[w].refs + 1
  /\ \A j \in Conns \ {k} : conn'[j].state = conn[j].state /\ conn'[j].worker = conn[j].worker
  /\ \A v \in Workers \ {w} : entry'[v].refs = entry[v].refs

\* one connection ends, and is discounted
Leave(k, w) ==
  /\ Attached(k) /\ conn[k].worker = w /\ conn'[k].state = "ended"
  /\ entry'[w].refs = entry[w].refs - 1
  /\ \A j \in Conns \ {k} : conn'[j].state = conn[j].state /\ conn'[j].worker = conn[j].worker
  /\ \A v \in Workers \ {w} : entry'[v].refs = entry[v].refs

(***************************************************************************)
(* The users of a worker are finitely many, and none are left at zero.     *)
(***************************************************************************)
LEMMA UsersFinite ==
  ASSUME NEW w \in Workers
  PROVE  /\ IsFiniteSet(Users(w))
         /\ Cardinality(Users(w)) \in Nat
         /\ Cardinality(Users(w)) = 0 <=> Users(w) = {}
<1>1. Users(w) \subseteq Conns
  BY DEF Users
<1>2. IsFiniteSet(Users(w))
  BY <1>1, FiniteAssumption, FS_Subset
<1>. QED  BY <1>2, FS_CardinalityType, FS_EmptySet

(***************************************************************************)
(* Steps that make and end no connection keep the counts exact.            *)
(***************************************************************************)
LEMMA StayExact ==
  ASSUME RefsExact, Stay
  PROVE  RefsExact'
<1>1. \A w \in Workers : Users(w)' = Users(w)
  BY DEF Stay, Users, Attached
<1>. QED  BY <1>1 DEF Stay, RefsExact

(***************************************************************************)
(* A boot, of a new worker or a cached one, keeps the counts exact.        *)
(***************************************************************************)
LEMMA JoinExact ==
  ASSUME RefsExact, NEW k \in Conns, NEW w \in Workers, Join(k, w)
  PROVE  RefsExact'
<1>1. k \notin Users(w) /\ Users(w)' = Users(w) \cup {k}
  BY DEF Join, Users, Attached
<1>2. \A v \in Workers \ {w} : Users(v)' = Users(v)
  BY DEF Join, Users, Attached
<1>3. Cardinality(Users(w)') = Cardinality(Users(w)) + 1
  BY <1>1, UsersFinite, FS_AddElement
<1>. QED  BY <1>2, <1>3 DEF Join, RefsExact

(***************************************************************************)
(* The end of a connection keeps the counts exact: it was counted, so that *)
(* the count does not go below zero.                                       *)
(***************************************************************************)
LEMMA LeaveExact ==
  ASSUME RefsExact, NEW k \in Conns, NEW w \in Workers, Leave(k, w)
  PROVE  RefsExact' /\ entry[w].refs > 0
<1>1. k \in Users(w) /\ Users(w)' = Users(w) \ {k}
  BY DEF Leave, Users, Attached
<1>2. \A v \in Workers \ {w} : Users(v)' = Users(v)
  BY DEF Leave, Users, Attached
<1>3. Cardinality(Users(w)') = Cardinality(Users(w)) - 1
  BY <1>1, UsersFinite, FS_RemoveElement
<1>4. Cardinality(Users(w)) > 0
  BY <1>1, UsersFinite
<1>. QED  BY <1>2, <1>3, <1>4 DEF Leave, RefsExact

-----------------------------------------------------------------------------
(* The helpers. *)

(***************************************************************************)
(* Connections are told what they wait for, and nothing else changes.      *)
(***************************************************************************)
LEMMA TellFacts ==
  ASSUME NEW cs \in [Conns -> ConnType], NEW w, NEW what \in {"ready", "failed"}
  PROVE  /\ Tell(cs, w, what) \in [Conns -> ConnType]
         /\ \A k \in Conns :
              /\ Tell(cs, w, what)[k].state = cs[k].state
              /\ Tell(cs, w, what)[k].worker = cs[k].worker
              /\ Tell(cs, w, what)[k].told =
                   IF cs[k].state = "attached" /\ cs[k].worker = w /\ cs[k].told = "nothing"
                   THEN what ELSE cs[k].told
<1>1. \A k \in Conns : [cs[k] EXCEPT !.told = what] \in ConnType
  BY DEF ConnType
<1>2. Tell(cs, w, what) \in [Conns -> ConnType]
  BY <1>1 DEF Tell
<1>3. \A k \in Conns :
        /\ [cs[k] EXCEPT !.told = what].state = cs[k].state
        /\ [cs[k] EXCEPT !.told = what].worker = cs[k].worker
        /\ [cs[k] EXCEPT !.told = what].told = what
  BY DEF ConnType
<1>. QED  BY <1>2, <1>3 DEF Tell

(***************************************************************************)
(* The same of the connections that wait for a worker when it dies.        *)
(***************************************************************************)
LEMMA TellDeadFacts ==
  ASSUME NEW cs \in [Conns -> ConnType], NEW w
  PROVE  /\ TellDead(cs, w) \in [Conns -> ConnType]
         /\ \A k \in Conns :
              /\ TellDead(cs, w)[k].state = cs[k].state
              /\ TellDead(cs, w)[k].worker = cs[k].worker
              /\ TellDead(cs, w)[k].told =
                   IF /\ entry[w].ready = "pending"
                      /\ cs[k].state = "attached" /\ cs[k].worker = w /\ cs[k].told = "nothing"
                   THEN "failed" ELSE cs[k].told
<1>1. CASE entry[w].ready = "pending"
  BY <1>1, TellFacts DEF TellDead
<1>2. CASE entry[w].ready # "pending"
  BY <1>2 DEF TellDead
<1>. QED  BY <1>1, <1>2

(***************************************************************************)
(* The workers that run, before a step and after it.                       *)
(***************************************************************************)
LEMMA RunningMeans ==
  /\ \A w \in Workers : Running(w) <=> Runs(entry[w])
  /\ \A w \in Workers : Running(w)' <=> Runs(entry'[w])
<1>1. \A w \in Workers : Running(w) <=> Runs(entry[w])
  BY DEF Running, Stray, Runs
<1>2. \A w \in Workers : Running(w)' <=> Runs(entry'[w])
  BY DEF Running, Stray, Runs
<1>. QED  BY <1>1, <1>2

(***************************************************************************)
(* A worker that dies keeps its key and its count, whether or not its boot *)
(* is over with it.                                                        *)
(***************************************************************************)
LEMMA DeadFacts ==
  ASSUME NEW e \in EntryType, NEW d, d = Dead(e) \/ d = Over(e)
  PROVE  /\ d \in EntryType
         /\ ~d.live /\ ~Runs(d) /\ (BootSound(e) => BootSound(d))
         /\ d.ready = IF e.ready = "pending" THEN "rejected" ELSE e.ready
         /\ d.key = e.key /\ d.refs = e.refs /\ d.reaper = e.reaper
<1>. DEFINE r == IF e.ready = "pending" THEN "rejected" ELSE e.ready
<1>1. \/ d = [e EXCEPT !.live = FALSE, !.frame = FALSE, !.ready = r]
      \/ d = [[e EXCEPT !.live = FALSE, !.frame = FALSE, !.ready = r]
                 EXCEPT !.reading = FALSE, !.booting = FALSE]
  BY DEF Dead, Over
<1>2. r \in {"pending", "resolved", "rejected"} /\ r # "pending" /\ (r = "resolved" => e.ready = "resolved")
  BY DEF EntryType
<1>. HIDE DEF r
<1>3. d \in EntryType
  BY <1>1, <1>2 DEF EntryType
<1>4. d.live = FALSE /\ d.frame = FALSE
  BY <1>1 DEF EntryType
<1>5. d.ready = r
  BY <1>1 DEF EntryType
<1>6. d.key = e.key /\ d.refs = e.refs
  BY <1>1 DEF EntryType
<1>7. d.reaper = e.reaper
  BY <1>1 DEF EntryType
<1>8. \/ d.reading = e.reading /\ d.booting = e.booting
      \/ d.reading = FALSE /\ d.booting = FALSE
  BY <1>1 DEF EntryType
<1>9. ~Runs(d)
  BY <1>4 DEF Runs
<1>10. BootSound(e) => BootSound(d)
  BY <1>2, <1>4, <1>5, <1>8 DEF BootSound
<1>. QED  BY <1>3, <1>4, <1>5, <1>6, <1>7, <1>9, <1>10 DEF r

(***************************************************************************)
(* The logs of a worker that dies keep their counts.                       *)
(***************************************************************************)
LEMMA SilencedFacts ==
  ASSUME NEW ls \in [Workers -> LogType], NEW w \in Workers
  PROVE  /\ Silenced(ls, w) \in [Workers -> LogType]
         /\ \A v \in Workers : /\ Silenced(ls, w)[v].retained = ls[v].retained
                               /\ Silenced(ls, w)[v].written = ls[v].written
<1>1. [ls[w] EXCEPT !.takers = <<>>] =
        [retained |-> ls[w].retained, takers |-> <<>>, written |-> ls[w].written]
  BY DEF LogType
<1>2. Silenced(ls, w) = [ls EXCEPT ![w] = [ls[w] EXCEPT !.takers = <<>>]]
  BY DEF Silenced
<1>3. <<>> \in Seq(Conns)
  OBVIOUS
<1>. QED  BY <1>1, <1>2, <1>3 DEF LogType

-----------------------------------------------------------------------------
(* The steps. *)

(***************************************************************************)
(* The initial state.                                                      *)
(***************************************************************************)
LEMMA InvInit == HostInit => HostInv
<1>. SUFFICES ASSUME HostInit PROVE HostInv
  OBVIOUS
<1>1. HostTypeOK
  BY BoundAssumption DEF HostInit, HostTypeOK, ConnType, EntryType, LogType
<1>2. LogsBounded /\ Placed /\ Unused /\ Pending
  BY DEF HostInit, LogsBounded, Placed, Unused, Pending, BootSound, Attached, Fresh
<1>3. CacheKeyed /\ RunningIsCached
  BY DEF HostInit, CacheKeyed, RunningIsCached, Running
<1>4. \A w \in Workers : Users(w) = {}
  BY DEF HostInit, Users, Attached
<1>5. RefsExact
  BY <1>4, FS_EmptySet DEF RefsExact, HostInit
<1>6. RetryIsReal
  BY <1>4 DEF RetryIsReal, HostInit
<1>. QED  BY <1>1, <1>2, <1>3, <1>5, <1>6 DEF HostInv

(***************************************************************************)
(* What a connection forwards and swallows is counted, and nothing else.   *)
(***************************************************************************)
LEMMA CountFacts ==
  ASSUME NEW c \in ConnType, NEW d,
         d = [c EXCEPT !.forwarded = @ + 1] \/ d = [c EXCEPT !.swallowed = @ + 1]
  PROVE  d \in ConnType /\ d.state = c.state /\ d.worker = c.worker /\ d.told = c.told
<1>1. c.forwarded + 1 \in Nat /\ c.swallowed + 1 \in Nat
  BY DEF ConnType
<1>2. CASE d = [c EXCEPT !.forwarded = @ + 1]
  BY <1>1, <1>2 DEF ConnType
<1>3. CASE d = [c EXCEPT !.swallowed = @ + 1]
  BY <1>1, <1>3 DEF ConnType
<1>. QED  BY <1>2, <1>3

(***************************************************************************)
(* The provider answers.                                                   *)
(***************************************************************************)
LEMMA ProviderAnswersKeeps ==
  ASSUME HostInv, NEW w \in Workers, ProviderAnswers(w)
  PROVE  HostInv'
<1>. USE DEF HostInv
<1>1. HostTypeOK'
  <2>1. entry' \in [Workers -> EntryType]
    <3>1. entry \in [Workers -> EntryType]
      BY DEF HostTypeOK
    <3>2. entry' = [entry EXCEPT ![w] = [entry[w] EXCEPT !.reading = FALSE]]
      BY <3>1 DEF ProviderAnswers
    <3>3. [entry[w] EXCEPT !.reading = FALSE] \in EntryType
      BY <3>1 DEF EntryType
    <3>. QED  BY <3>1, <3>2, <3>3
  <2>. QED  BY <2>1 DEF ProviderAnswers, HostTypeOK
<1>2. LogsBounded'
  BY DEF ProviderAnswers, LogsBounded
<1>3. Placed'
  BY DEF ProviderAnswers, HostTypeOK, EntryType, Placed, Attached, Fresh
<1>4. Unused' /\ Pending' /\ CacheKeyed'
  BY NoneAssumption DEF ProviderAnswers, HostTypeOK, EntryType, Unused, Pending, BootSound, CacheKeyed, Fresh
<1>5. RefsExact'
  BY StayExact DEF ProviderAnswers, Stay, HostTypeOK, EntryType
<1>6. RunningIsCached'
  BY RunningMeans DEF ProviderAnswers, HostTypeOK, EntryType, RunningIsCached, Runs
<1>7. RetryIsReal'
  BY DEF ProviderAnswers, HostTypeOK, EntryType, RetryIsReal, Users, Attached
<1>. QED  BY <1>1, <1>2, <1>3, <1>4, <1>5, <1>6, <1>7

(***************************************************************************)
(* The frame is made.  A worker that still may be ready was living before. *)
(***************************************************************************)
LEMMA StartsKeeps ==
  ASSUME HostInv, NEW w \in Workers, Starts(w)
  PROVE  HostInv'
<1>. USE DEF HostInv
<1>1. HostTypeOK'
  <2>1. entry' \in [Workers -> EntryType]
    <3>1. entry \in [Workers -> EntryType]
      BY DEF HostTypeOK
    <3>2. entry' = [entry EXCEPT ![w] = [entry[w] EXCEPT !.booting = FALSE, !.frame = TRUE]]
      BY <3>1 DEF Starts
    <3>3. [entry[w] EXCEPT !.booting = FALSE, !.frame = TRUE] \in EntryType
      BY <3>1 DEF EntryType
    <3>. QED  BY <3>1, <3>2, <3>3
  <2>. QED  BY <2>1 DEF Starts, HostTypeOK
<1>2. LogsBounded'
  BY DEF Starts, LogsBounded
<1>3. Placed'
  BY DEF Starts, HostTypeOK, EntryType, Placed, Attached, Fresh
<1>4. Unused' /\ Pending' /\ CacheKeyed'
  BY NoneAssumption DEF Starts, HostTypeOK, EntryType, Unused, Pending, BootSound, CacheKeyed, Fresh
<1>5. RefsExact'
  BY StayExact DEF Starts, Stay, HostTypeOK, EntryType
<1>6. RunningIsCached'
  <2>1. entry[w].ready # "rejected" => entry[w].live
    BY DEF Starts, HostTypeOK, EntryType, Unused, Pending, BootSound, Fresh
  <2>2. \A v \in Workers : Runs(entry'[v]) => Runs(entry[v])
    BY <2>1 DEF Starts, HostTypeOK, EntryType, Runs
  <2>3. \A v \in Workers : /\ entry'[v].key = entry[v].key /\ entry'[v].refs = entry[v].refs
                           /\ entry'[v].reaper = entry[v].reaper
    BY DEF Starts, HostTypeOK, EntryType
  <2>4. cache' = cache
    BY DEF Starts
  <2>. QED  BY <2>2, <2>3, <2>4, RunningMeans DEF RunningIsCached
<1>7. RetryIsReal'
  BY DEF Starts, HostTypeOK, EntryType, RetryIsReal, Users, Attached
<1>. QED  BY <1>1, <1>2, <1>3, <1>4, <1>5, <1>6, <1>7

(***************************************************************************)
(* The worker is ready.                                                    *)
(***************************************************************************)
LEMMA WorkerReadyKeeps ==
  ASSUME HostInv, NEW w \in Workers, WorkerReady(w)
  PROVE  HostInv'
<1>. USE DEF HostInv
<1>1. HostTypeOK'
  <2>1. entry' \in [Workers -> EntryType]
    BY DEF WorkerReady, HostTypeOK, EntryType
  <2>2. conn' \in [Conns -> ConnType]
    BY TellFacts DEF WorkerReady, HostTypeOK
  <2>. QED  BY <2>1, <2>2 DEF WorkerReady, HostTypeOK
<1>2. LogsBounded'
  BY DEF WorkerReady, LogsBounded
<1>3. Placed'
  BY TellFacts DEF WorkerReady, HostTypeOK, EntryType, Placed, Attached, Fresh
<1>4. Unused' /\ Pending' /\ CacheKeyed'
  BY NoneAssumption DEF WorkerReady, HostTypeOK, EntryType, Unused, Pending, BootSound, CacheKeyed, Fresh
<1>5. RefsExact'
  BY StayExact, TellFacts DEF WorkerReady, Stay, HostTypeOK, EntryType
<1>6. RunningIsCached'
  BY RunningMeans DEF WorkerReady, HostTypeOK, EntryType, RunningIsCached, Runs
<1>7. RetryIsReal'
  BY TellFacts DEF WorkerReady, HostTypeOK, EntryType, RetryIsReal, Users, Attached
<1>. QED  BY <1>1, <1>2, <1>3, <1>4, <1>5, <1>6, <1>7

(***************************************************************************)
(* The worker logs an entry.                                               *)
(***************************************************************************)
LEMMA LogKeeps ==
  ASSUME HostInv, NEW w \in Workers, Log(w)
  PROVE  HostInv'
<1>. USE DEF HostInv
<1>1. entry' = entry /\ cache' = cache
  BY DEF Log
<1>. DEFINE ts == logs[w].takers
            k == Head(ts)
            n == logs[w].retained
            m == logs[w].written
            new(r, t) == [logs EXCEPT ![w] = [retained |-> r, takers |-> t, written |-> m + 1]]
<1>2. /\ ts \in Seq(Conns) /\ n \in Nat /\ m \in Nat /\ m + 1 \in 0 .. MaxLogs /\ n =< m
      /\ logs[w] = [retained |-> n, takers |-> ts, written |-> m]
      /\ logs \in [Workers -> LogType]
  BY BoundAssumption DEF Log, HostTypeOK, LogType, LogsBounded
<1>3. PICK r \in 0 .. MaxLogs, t \in Seq(Conns) : r =< m + 1 /\ logs' = new(r, t)
  <2>1. CASE ts = <<>>
    <3>1. n + 1 \in 0 .. MaxLogs /\ n + 1 =< m + 1
      BY <1>2, BoundAssumption
    <3>2. logs' = new(n + 1, ts)
      BY <1>2, <2>1 DEF Log
    <3>. QED  BY <1>2, <3>1, <3>2
  <2>2. CASE ts # <<>> /\ Attached(k)
    <3>1. n \in 0 .. MaxLogs /\ n =< m + 1 /\ Append(Tail(ts), k) \in Seq(Conns)
      BY <1>2, <2>2, BoundAssumption
    <3>2. logs' = new(n, Append(Tail(ts), k))
      BY <1>2, <2>2 DEF Log
    <3>. QED  BY <3>1, <3>2
  <2>3. CASE ts # <<>> /\ ~Attached(k)
    <3>1. n \in 0 .. MaxLogs /\ n =< m + 1 /\ Tail(ts) \in Seq(Conns)
      BY <1>2, <2>3, BoundAssumption
    <3>2. logs' = new(n, Tail(ts))
      BY <1>2, <2>3 DEF Log
    <3>. QED  BY <3>1, <3>2
  <2>. QED  BY <2>1, <2>2, <2>3
<1>4. logs' \in [Workers -> LogType] /\ LogsBounded'
  BY <1>2, <1>3 DEF LogType, LogsBounded
<1>5. /\ conn' \in [Conns -> ConnType]
      /\ \A j \in Conns : /\ conn'[j].state = conn[j].state /\ conn'[j].worker = conn[j].worker
                          /\ conn'[j].told = conn[j].told
  <2>1. CASE conn' = conn
    BY <2>1 DEF HostTypeOK
  <2>2. ASSUME NEW j \in Conns, conn' = [conn EXCEPT ![j].forwarded = @ + 1]
        PROVE  <1>5!1 /\ <1>5!2
    <3>1. conn \in [Conns -> ConnType]
      BY DEF HostTypeOK
    <3>2. conn' = [conn EXCEPT ![j] = [conn[j] EXCEPT !.forwarded = @ + 1]]
      BY <2>2
    <3>. QED  BY <3>1, <3>2, CountFacts
  <2>3. ASSUME NEW j \in Conns, conn' = [conn EXCEPT ![j].swallowed = @ + 1]
        PROVE  <1>5!1 /\ <1>5!2
    <3>1. conn \in [Conns -> ConnType]
      BY DEF HostTypeOK
    <3>2. conn' = [conn EXCEPT ![j] = [conn[j] EXCEPT !.swallowed = @ + 1]]
      BY <2>3
    <3>. QED  BY <3>1, <3>2, CountFacts
  <2>. QED  BY <1>2, <2>1, <2>2, <2>3 DEF Log
<1>6. HostTypeOK'
  BY <1>1, <1>4, <1>5 DEF HostTypeOK
<1>7. Placed' /\ Unused' /\ Pending' /\ CacheKeyed'
  BY <1>1, <1>5 DEF Placed, Unused, Pending, CacheKeyed, Attached, Fresh
<1>8. RefsExact'
  BY <1>1, <1>5, StayExact DEF Stay
<1>9. RunningIsCached'
  BY <1>1, RunningMeans DEF RunningIsCached
<1>10. RetryIsReal'
  <2>1. \A v \in Workers : Users(v)' = Users(v)
    BY <1>5 DEF Users, Attached
  <2>2. \A v \in Workers : \A j \in Users(v) : conn'[j].told = conn[j].told
    BY <1>5 DEF Users
  <2>. QED  BY <1>1, <2>1, <2>2 DEF RetryIsReal
<1>. QED  BY <1>4, <1>6, <1>7, <1>8, <1>9, <1>10

(***************************************************************************)
(* The worker fails.                                                       *)
(***************************************************************************)
LEMMA WorkerFailsKeeps ==
  ASSUME HostInv, NEW w \in Workers, WorkerFails(w)
  PROVE  HostInv'
<1>. USE DEF HostInv
<1>0. /\ entry \in [Workers -> EntryType] /\ logs' = Silenced(logs, w) /\ ~Fresh(w) /\ Running(w)
      /\ BootSound(entry[w])
  BY DEF WorkerFails, HostTypeOK, Unused, Running, Pending
<1>. DEFINE d == entry'[w]
<1>1. /\ entry' \in [Workers -> EntryType] /\ \A v \in Workers \ {w} : entry'[v] = entry[v]
      /\ ~d.live /\ BootSound(d) /\ d.key = entry[w].key /\ d.refs = entry[w].refs
      /\ d.reaper = entry[w].reaper
      /\ d.ready = IF entry[w].ready = "pending" THEN "rejected" ELSE entry[w].ready
      /\ entry[w].ready = "pending" => ~Runs(d)
  <2>1. CASE entry[w].ready = "pending"
    <3>1. entry' = [entry EXCEPT ![w] = Over(entry[w])]
      BY <2>1 DEF WorkerFails
    <3>. QED  BY <1>0, <2>1, <3>1, DeadFacts
  <2>2. CASE entry[w].ready # "pending"
    <3>1. entry' = [entry EXCEPT ![w] = [entry[w] EXCEPT !.live = FALSE]]
      BY <2>2 DEF WorkerFails
    <3>2. [entry[w] EXCEPT !.live = FALSE] \in EntryType
      BY <1>0 DEF EntryType
    <3>3. d = [entry[w] EXCEPT !.live = FALSE]
      BY <1>0, <3>1
    <3>4. /\ d.key = entry[w].key /\ d.refs = entry[w].refs /\ d.ready = entry[w].ready
          /\ d.live = FALSE /\ d.reaper = entry[w].reaper /\ d.reading = entry[w].reading
          /\ d.booting = entry[w].booting /\ d.frame = entry[w].frame
      BY <1>0, <3>3 DEF EntryType
    <3>5. BootSound(d)
      BY <1>0, <2>2, <3>4 DEF BootSound
    <3>6. entry' \in [Workers -> EntryType] /\ \A v \in Workers \ {w} : entry'[v] = entry[v]
      BY <1>0, <3>1, <3>2
    <3>. QED  BY <2>2, <3>4, <3>5, <3>6
  <2>. QED  BY <2>1, <2>2
<1>. HIDE DEF d
<1>2. /\ cache' \in [Keys -> Workers \cup {None}]
      /\ \A key \in Keys : cache'[key] = IF entry[w].ready = "pending" /\ cache[key] = w
                                          THEN None ELSE cache[key]
  <2>1. entry[w].key \in Keys /\ \A key \in Keys : cache[key] = w <=> key = entry[w].key
    BY <1>0 DEF EntryType, RunningIsCached, Fresh
  <2>2. cache \in [Keys -> Workers \cup {None}] /\ cache[entry[w].key] = w
    BY <2>1 DEF HostTypeOK
  <2>3. cache' = IF entry[w].ready = "pending" THEN [cache EXCEPT ![entry[w].key] = None] ELSE cache
    BY <2>2 DEF WorkerFails, Evicted
  <2>. QED  BY <2>1, <2>2, <2>3
<1>3. conn' = TellDead(conn, w)
  BY DEF WorkerFails
<1>4. HostTypeOK' /\ LogsBounded'
  BY <1>0, <1>1, <1>2, <1>3, TellFacts, SilencedFacts DEF HostTypeOK, TellDead, LogsBounded
<1>e. \A v \in Workers : entry'[v].key = entry[v].key /\ entry'[v].refs = entry[v].refs
  BY <1>1 DEF d
<1>5. Placed'
  BY <1>0, <1>3, <1>e, TellFacts DEF HostTypeOK, TellDead, Placed, Attached, Fresh
<1>6. Unused' /\ Pending' /\ CacheKeyed'
  <2>1. Unused'
    BY <1>0, <1>1, <1>e DEF Unused, Fresh
  <2>2. Pending'
    BY <1>1 DEF Pending, d
  <2>3. CacheKeyed'
    BY <1>2, <1>e DEF HostTypeOK, CacheKeyed
  <2>. QED  BY <2>1, <2>2, <2>3
<1>7. RefsExact'
  BY <1>3, <1>e, StayExact, TellFacts DEF Stay, HostTypeOK, TellDead
<1>8. RunningIsCached'
  <2>. SUFFICES ASSUME NEW v \in Workers, Runs(entry'[v])
                PROVE  /\ \A key \in Keys : cache'[key] = v <=> key = entry'[v].key
                       /\ entry'[v].reaper <=> entry'[v].refs = 0
    BY RunningMeans DEF RunningIsCached
  <2>1. /\ entry[w].ready = "pending" => v # w
        /\ entry'[v].reaper = entry[v].reaper
    BY <1>1 DEF d
  <2>2. \A key \in Keys : cache'[key] = v <=> cache[key] = v
    BY <1>2, <2>1, NoneAssumption
  <2>3. Running(v)
    BY <1>0, <1>1, RunningMeans
  <2>4. \A key \in Keys : cache[key] = v <=> key = entry[v].key
    BY <2>3 DEF RunningIsCached
  <2>5. entry[v].reaper <=> entry[v].refs = 0
    BY <2>3 DEF RunningIsCached
  <2>6. entry'[v].reaper <=> entry'[v].refs = 0
    BY <1>e, <2>1, <2>5
  <2>. QED  BY <1>e, <2>2, <2>4, <2>6
<1>9. RetryIsReal'
  <2>1. \A v \in Workers : entry'[v].ready = IF v = w /\ entry[v].ready = "pending"
                                             THEN "rejected" ELSE entry[v].ready
    BY <1>1 DEF d
  <2>2. \A key \in Keys : cache'[key] # None => entry'[cache'[key]].ready # "rejected"
    BY <1>2, <2>1 DEF HostTypeOK, RetryIsReal
  <2>3. conn \in [Conns -> ConnType] /\ \A v \in Workers : entry[v].ready \in {"pending", "resolved", "rejected"}
    BY <1>0 DEF HostTypeOK, EntryType
  <2>4. \A j \in Conns :
          /\ conn'[j].state = conn[j].state /\ conn'[j].worker = conn[j].worker
          /\ conn'[j].told = IF /\ entry[w].ready = "pending" /\ conn[j].state = "attached"
                               /\ conn[j].worker = w /\ conn[j].told = "nothing"
                            THEN "failed" ELSE conn[j].told
    BY <1>3, <2>3, TellDeadFacts
  <2>5. \A v \in Workers : \A j \in Users(v)' :
          conn'[j].told = CASE entry'[v].ready = "pending" -> "nothing"
                            [] entry'[v].ready = "resolved" -> "ready"
                            [] entry'[v].ready = "rejected" -> "failed"
    <3>. TAKE v \in Workers
    <3>. TAKE j \in Users(v)'
    <3>1. j \in Conns /\ conn[j].state = "attached" /\ conn[j].worker = v
      BY <2>4 DEF Users, Attached
    <3>2. conn[j].told = CASE entry[v].ready = "pending" -> "nothing"
                           [] entry[v].ready = "resolved" -> "ready"
                           [] entry[v].ready = "rejected" -> "failed"
      BY <3>1 DEF RetryIsReal, Users, Attached
    <3>3. CASE v = w
      BY <2>1, <2>3, <2>4, <3>1, <3>2, <3>3
    <3>4. CASE v # w
      BY <2>1, <2>4, <3>1, <3>2, <3>4
    <3>. QED  BY <3>3, <3>4
  <2>. QED  BY <2>2, <2>5 DEF RetryIsReal
<1>. QED  BY <1>4, <1>5, <1>6, <1>7, <1>8, <1>9

(***************************************************************************)
(* An evicted worker is cached by no key, and the others stay.             *)
(***************************************************************************)
LEMMA EvictedFacts ==
  ASSUME HostInv, NEW w \in Workers, ~Fresh(w)
  PROVE  /\ Evicted(w) \in [Keys -> Workers \cup {None}]
         /\ \A key \in Keys : Evicted(w)[key] = IF cache[key] = w THEN None ELSE cache[key]
<1>1. entry[w].key \in Keys
  BY DEF HostInv, HostTypeOK, EntryType, Fresh
<1>2. \A key \in Keys : cache[key] = w => key = entry[w].key
  BY NoneAssumption DEF HostInv, CacheKeyed
<1>3. cache \in [Keys -> Workers \cup {None}]
  BY DEF HostInv, HostTypeOK
<1>. QED  BY <1>1, <1>2, <1>3 DEF Evicted

(***************************************************************************)
(* A connection ends, which stays in use or runs on unused.                *)
(***************************************************************************)
LEMMA LeaveLiving ==
  ASSUME HostInv, NEW k \in Conns, NEW w \in Workers, Attached(k), conn[k].worker = w,
         NEW e \in EntryType, e.key = entry[w].key, e.refs = entry[w].refs - 1,
         e.ready = entry[w].ready, BootSound(e), Runs(e) <=> Running(w), e.live <=> entry[w].live,
         e.booting <=> entry[w].booting, e.frame <=> entry[w].frame,
         Running(w) => (e.reaper <=> e.refs = 0),
         entry' = [entry EXCEPT ![w] = e],
         conn' = [conn EXCEPT ![k].state = "ended"],
         cache' = cache, logs' = logs
  PROVE  HostInv'
<1>0. /\ HostTypeOK /\ LogsBounded /\ Placed /\ Unused /\ Pending /\ CacheKeyed /\ RefsExact
      /\ RunningIsCached /\ RetryIsReal
  BY DEF HostInv
<1>1. /\ entry \in [Workers -> EntryType] /\ conn \in [Conns -> ConnType]
      /\ ~Fresh(w)
  BY <1>0 DEF HostTypeOK, Placed
<1>2. /\ conn' \in [Conns -> ConnType] /\ conn'[k].state = "ended"
      /\ \A j \in Conns : conn'[j].worker = conn[j].worker /\ conn'[j].told = conn[j].told
      /\ \A j \in Conns \ {k} : conn'[j] = conn[j]
  BY <1>0, <1>1 DEF ConnType
<1>3. /\ entry' \in [Workers -> EntryType] /\ entry'[w] = e
      /\ \A v \in Workers \ {w} : entry'[v] = entry[v]
  BY <1>0, <1>1
<1>4. HostTypeOK' /\ LogsBounded'
  BY <1>0, <1>2, <1>3 DEF HostTypeOK, LogsBounded
<1>5. Placed'
  BY <1>0, <1>2, <1>3 DEF Placed, Attached, Fresh
<1>6. Unused' /\ Pending' /\ CacheKeyed'
  <2>1. Unused'
    BY <1>0, <1>1, <1>3 DEF Unused, Fresh
  <2>2. Pending'
    BY <1>0, <1>3 DEF Pending
  <2>3. CacheKeyed'
    BY <1>0, <1>3 DEF HostTypeOK, CacheKeyed
  <2>. QED  BY <2>1, <2>2, <2>3
<1>7. RefsExact'
  BY <1>0, <1>2, <1>3, LeaveExact DEF Leave
<1>8. RunningIsCached'
  <2>. SUFFICES ASSUME NEW v \in Workers, Runs(entry'[v])
                PROVE  /\ \A key \in Keys : cache'[key] = v <=> key = entry'[v].key
                       /\ entry'[v].reaper <=> entry'[v].refs = 0
    BY <1>0, RunningMeans DEF RunningIsCached
  <2>1. CASE v = w
    <3>1. Running(w) /\ v = w
      BY <1>3, <2>1
    <3>2. \A key \in Keys : cache[key] = w <=> key = entry[w].key
      BY <1>0, <3>1 DEF RunningIsCached
    <3>3. e.reaper <=> e.refs = 0
      BY <3>1
    <3>. QED  BY <1>3, <3>1, <3>2, <3>3
  <2>2. CASE v # w
    BY <1>0, <1>3, <2>2, RunningMeans DEF RunningIsCached
  <2>. QED  BY <2>1, <2>2
<1>9. RetryIsReal'
  <2>1. \A v \in Workers : entry'[v].ready = entry[v].ready
    BY <1>0, <1>3
  <2>2. \A v \in Workers : Users(v)' \subseteq Users(v)
    BY <1>0, <1>2 DEF Users, Attached
  <2>3. \A key \in Keys : cache[key] \in Workers \cup {None}
    BY <1>0 DEF HostTypeOK
  <2>4. \A v \in Workers : Users(v) \subseteq Conns
    BY DEF Users
  <2>5. \A key \in Keys : cache'[key] # None => entry'[cache'[key]].ready # "rejected"
    BY <1>0, <2>1, <2>3 DEF RetryIsReal
  <2>6. \A v \in Workers : \A j \in Users(v)' :
          conn'[j].told = CASE entry'[v].ready = "pending" -> "nothing"
                            [] entry'[v].ready = "resolved" -> "ready"
                            [] entry'[v].ready = "rejected" -> "failed"
    <3>. TAKE v \in Workers
    <3>. TAKE j \in Users(v)'
    <3>1. j \in Users(v) /\ j \in Conns
      BY <2>2, <2>4
    <3>2. conn[j].told = CASE entry[v].ready = "pending" -> "nothing"
                           [] entry[v].ready = "resolved" -> "ready"
                           [] entry[v].ready = "rejected" -> "failed"
      BY <1>0, <3>1 DEF RetryIsReal
    <3>3. conn'[j].told = conn[j].told /\ entry'[v].ready = entry[v].ready
      BY <1>2, <2>1, <3>1
    <3>. QED  BY <3>2, <3>3
  <2>. QED  BY <2>5, <2>6 DEF RetryIsReal
<1>. QED  BY <1>4, <1>5, <1>6, <1>7, <1>8, <1>9 DEF HostInv

(***************************************************************************)
(* A connection ends, and with it its worker, which leaves the cache.      *)
(***************************************************************************)
LEMMA LeaveDying ==
  ASSUME HostInv, NEW k \in Conns, NEW w \in Workers, Attached(k), conn[k].worker = w,
         entry' \in [Workers -> EntryType],
         ~Runs(entry'[w]), BootSound(entry'[w]),
         entry'[w].key = entry[w].key, entry'[w].refs = entry[w].refs - 1,
         entry'[w].ready = IF entry[w].ready = "pending" THEN "rejected" ELSE entry[w].ready,
         \A v \in Workers \ {w} : entry'[v] = entry[v],
         conn' \in [Conns -> ConnType], conn'[k].state = "ended",
         \A j \in Conns \ {k} :
           /\ conn'[j].state = conn[j].state /\ conn'[j].worker = conn[j].worker
           /\ conn'[j].told = IF /\ entry[w].ready = "pending" /\ conn[j].state = "attached"
                                /\ conn[j].worker = w /\ conn[j].told = "nothing"
                             THEN "failed" ELSE conn[j].told,
         cache' = Evicted(w), logs' = Silenced(logs, w)
  PROVE  HostInv'
<1>1. /\ HostTypeOK /\ LogsBounded /\ Placed /\ Unused /\ Pending /\ CacheKeyed /\ RefsExact
      /\ RunningIsCached /\ RetryIsReal
  BY DEF HostInv
<1>2. ~Fresh(w) /\ logs \in [Workers -> LogType]
      /\ entry[w].ready \in {"pending", "resolved", "rejected"}
  BY <1>1 DEF HostTypeOK, EntryType, Placed
<1>3. /\ cache' \in [Keys -> Workers \cup {None}]
      /\ \A key \in Keys : cache'[key] = IF cache[key] = w THEN None ELSE cache[key]
  BY <1>2, EvictedFacts
<1>4. /\ logs' \in [Workers -> LogType]
      /\ \A v \in Workers : /\ logs'[v].retained = logs[v].retained
                            /\ logs'[v].written = logs[v].written
  BY <1>2, SilencedFacts
<1>5. HostTypeOK' /\ LogsBounded'
  BY <1>1, <1>3, <1>4 DEF HostTypeOK, LogsBounded
<1>6. Placed'
  <2>1. \A v \in Workers : ~Fresh(v) => entry'[v].key # None
    BY DEF Fresh
  <2>2. \A j \in Conns : Attached(j)' => Attached(j) /\ conn'[j].worker = conn[j].worker
    BY DEF Attached
  <2>3. \A j \in Conns : conn'[j].state = "new" => conn'[j].told = "nothing"
    BY <1>1 DEF Placed, Attached
  <2>. QED  BY <1>1, <2>1, <2>2, <2>3 DEF Placed, Fresh
<1>7. Unused' /\ Pending' /\ CacheKeyed'
  <2>1. Unused'
    BY <1>1, <1>2 DEF Unused, Fresh
  <2>2. Pending'
    BY <1>1 DEF Pending
  <2>3. CacheKeyed'
    BY <1>1, <1>3 DEF HostTypeOK, CacheKeyed
  <2>. QED  BY <2>1, <2>2, <2>3
<1>8. RefsExact'
  <2>. Leave(k, w)
    BY DEF Leave
  <2>. QED  BY <1>1, LeaveExact
<1>9. RunningIsCached'
  <2>. SUFFICES ASSUME NEW v \in Workers, Runs(entry'[v])
                PROVE  /\ \A key \in Keys : cache'[key] = v <=> key = entry'[v].key
                       /\ entry'[v].reaper <=> entry'[v].refs = 0
    BY RunningMeans DEF RunningIsCached
  <2>1. v # w /\ entry'[v] = entry[v]
    OBVIOUS
  <2>2. \A key \in Keys : cache'[key] = v <=> cache[key] = v
    BY <1>3, <2>1, NoneAssumption
  <2>. QED  BY <1>1, <2>1, <2>2, RunningMeans DEF RunningIsCached
<1>10. RetryIsReal'
  <2>1. \A key \in Keys : cache'[key] # None => entry'[cache'[key]].ready # "rejected"
    BY <1>1, <1>3 DEF HostTypeOK, RetryIsReal
  <2>2. \A v \in Workers : \A j \in Users(v)' :
          conn'[j].told = CASE entry'[v].ready = "pending" -> "nothing"
                            [] entry'[v].ready = "resolved" -> "ready"
                            [] entry'[v].ready = "rejected" -> "failed"
    <3>. TAKE v \in Workers
    <3>. TAKE j \in Users(v)'
    <3>1. j \in Conns \ {k} /\ conn[j].state = "attached" /\ conn[j].worker = v
      BY DEF Users, Attached
    <3>2. conn[j].told = CASE entry[v].ready = "pending" -> "nothing"
                           [] entry[v].ready = "resolved" -> "ready"
                           [] entry[v].ready = "rejected" -> "failed"
      BY <1>1, <3>1 DEF RetryIsReal, Users, Attached
    <3>3. CASE v = w
      BY <1>2, <3>1, <3>2, <3>3
    <3>4. CASE v # w
      BY <3>1, <3>2, <3>4
    <3>. QED  BY <3>3, <3>4
  <2>. QED  BY <2>1, <2>2 DEF RetryIsReal
<1>. QED  BY <1>5, <1>6, <1>7, <1>8, <1>9, <1>10 DEF HostInv

\* the connections when one of them ends
Ending(k) == [conn EXCEPT ![k].state = "ended"]

(***************************************************************************)
(* What a connection that ends leaves behind, when its worker dies.        *)
(***************************************************************************)
LEMMA EndedFacts ==
  ASSUME NEW k \in Conns, NEW w, conn \in [Conns -> ConnType]
  PROVE  /\ TellDead(Ending(k), w) \in [Conns -> ConnType]
         /\ TellDead(Ending(k), w)[k].state = "ended"
         /\ \A j \in Conns \ {k} :
              /\ TellDead(Ending(k), w)[j].state = conn[j].state
              /\ TellDead(Ending(k), w)[j].worker = conn[j].worker
              /\ TellDead(Ending(k), w)[j].told =
                   IF /\ entry[w].ready = "pending" /\ conn[j].state = "attached"
                      /\ conn[j].worker = w /\ conn[j].told = "nothing"
                   THEN "failed" ELSE conn[j].told
<1>1. /\ Ending(k) \in [Conns -> ConnType] /\ Ending(k)[k].state = "ended"
      /\ \A j \in Conns \ {k} : Ending(k)[j] = conn[j]
  BY DEF Ending, ConnType
<1>. QED  BY <1>1, TellDeadFacts

(***************************************************************************)
(* A connection ends, and its worker dies with one share less.             *)
(***************************************************************************)
LEMMA EndKills ==
  ASSUME HostInv, NEW k \in Conns, NEW w \in Workers, Attached(k), conn[k].worker = w,
         NEW e \in EntryType, e.key = entry[w].key, e.refs = entry[w].refs - 1,
         e.ready = entry[w].ready, BootSound(e), NEW d, d = Dead(e) \/ d = Over(e),
         entry' = [entry EXCEPT ![w] = d],
         cache' = Evicted(w), conn' = TellDead(Ending(k), w), logs' = Silenced(logs, w)
  PROVE  HostInv'
<1>1. conn \in [Conns -> ConnType] /\ entry \in [Workers -> EntryType]
  BY DEF HostInv, HostTypeOK
<1>2. /\ entry' \in [Workers -> EntryType]
      /\ ~Runs(entry'[w]) /\ BootSound(entry'[w])
      /\ entry'[w].key = entry[w].key /\ entry'[w].refs = entry[w].refs - 1
      /\ entry'[w].ready = IF entry[w].ready = "pending" THEN "rejected" ELSE entry[w].ready
      /\ \A v \in Workers \ {w} : entry'[v] = entry[v]
  BY <1>1, DeadFacts
<1>3. /\ conn' \in [Conns -> ConnType] /\ conn'[k].state = "ended"
      /\ \A j \in Conns \ {k} :
           /\ conn'[j].state = conn[j].state /\ conn'[j].worker = conn[j].worker
           /\ conn'[j].told = IF /\ entry[w].ready = "pending" /\ conn[j].state = "attached"
                                /\ conn[j].worker = w /\ conn[j].told = "nothing"
                             THEN "failed" ELSE conn[j].told
  BY <1>1, EndedFacts
<1>. QED  BY <1>2, <1>3, LeaveDying

(***************************************************************************)
(* A connection is counted.                                                *)
(***************************************************************************)
LEMMA Counted ==
  ASSUME HostInv, NEW k \in Conns, NEW w \in Workers, Attached(k), conn[k].worker = w
  PROVE  entry[w] \in EntryType /\ entry[w].refs > 0
<1>1. k \in Users(w) /\ entry[w].refs = Cardinality(Users(w))
  BY DEF Users, HostInv, RefsExact
<1>. QED  BY <1>1, UsersFinite DEF HostInv, HostTypeOK

(***************************************************************************)
(* The port of a connection is gone.                                       *)
(***************************************************************************)
LEMMA DetachKeeps ==
  ASSUME HostInv, NEW k \in Conns, Detach(k)
  PROVE  HostInv'
<1>1. Attached(k) /\ conn \in [Conns -> ConnType] /\ entry \in [Workers -> EntryType]
  BY DEF Detach, HostInv, HostTypeOK
<1>2. PICK w \in Workers : conn[k].worker = w
  BY <1>1 DEF HostInv, Placed
<1>3. entry[w] \in EntryType /\ entry[w].refs > 0
  BY <1>1, <1>2, Counted
<1>. DEFINE e == [entry[w] EXCEPT !.refs = @ - 1, !.reaper = (entry[w].refs = 1)]
<1>4. /\ e \in EntryType /\ e.key = entry[w].key /\ e.refs = entry[w].refs - 1
      /\ e.ready = entry[w].ready /\ BootSound(e) /\ (Runs(e) <=> Running(w))
      /\ (e.booting <=> entry[w].booting) /\ (e.frame <=> entry[w].frame)
      /\ (e.live <=> entry[w].live) /\ (e.reaper <=> entry[w].refs = 1)
  <2>1. entry[w].refs - 1 \in Nat /\ (entry[w].refs = 1) \in BOOLEAN
    BY <1>3 DEF EntryType
  <2>2. e \in EntryType
    BY <1>3, <2>1 DEF EntryType
  <2>3. e.key = entry[w].key /\ e.refs = entry[w].refs - 1 /\ e.ready = entry[w].ready
    BY <1>3 DEF EntryType
  <2>4. e.reading <=> entry[w].reading
    BY <1>3 DEF EntryType
  <2>5. e.live <=> entry[w].live
    BY <1>3 DEF EntryType
  <2>6. e.reaper <=> entry[w].refs = 1
    BY <1>3 DEF EntryType
  <2>7. e.booting <=> entry[w].booting
    BY <1>3 DEF EntryType
  <2>8. e.frame <=> entry[w].frame
    BY <1>3 DEF EntryType
  <2>. HIDE DEF e
  <2>9. BootSound(entry[w])
    BY DEF HostInv, Pending
  <2>10. BootSound(e)
    BY <2>3, <2>4, <2>5, <2>7, <2>8, <2>9 DEF BootSound
  <2>11. Runs(e) <=> Running(w)
    BY <2>3, <2>5, <2>8 DEF Runs, Running, Stray
  <2>. QED  BY <2>2, <2>3, <2>5, <2>6, <2>7, <2>8, <2>10, <2>11
<1>5. \/ /\ entry' = [entry EXCEPT ![w] = Over(e)] \/ entry' = [entry EXCEPT ![w] = Dead(e)]
         /\ cache' = Evicted(w)
         /\ conn' = TellDead(Ending(k), w)
         /\ logs' = Silenced(logs, w)
      \/ /\ entry' = [entry EXCEPT ![w] = e]
         /\ conn' = [conn EXCEPT ![k].state = "ended"]
         /\ cache' = cache /\ logs' = logs
  BY <1>2 DEF Detach, Ending
<1>. HIDE DEF e
<1>6. CASE /\ entry' = [entry EXCEPT ![w] = Over(e)] \/ entry' = [entry EXCEPT ![w] = Dead(e)]
           /\ cache' = Evicted(w)
           /\ conn' = TellDead(Ending(k), w)
           /\ logs' = Silenced(logs, w)
  BY <1>1, <1>2, <1>4, <1>6, EndKills
<1>7. CASE /\ entry' = [entry EXCEPT ![w] = e]
           /\ conn' = [conn EXCEPT ![k].state = "ended"]
           /\ cache' = cache /\ logs' = logs
  <2>1. e.refs \in Nat /\ entry[w].refs \in Nat
    BY <1>3, <1>4 DEF EntryType
  <2>2. e.reaper <=> e.refs = 0
    BY <1>4, <2>1
  <2>. QED  BY <1>1, <1>2, <1>4, <1>7, <2>2, LeaveLiving
<1>. QED  BY <1>5, <1>6, <1>7

(***************************************************************************)
(* A connection is closed.  A living worker it leaves to others was not    *)
(* unused, so that its reaper is rightly not armed.                        *)
(***************************************************************************)
LEMMA CloseKeeps ==
  ASSUME HostInv, NEW k \in Conns, Close(k)
  PROVE  HostInv'
<1>1. Attached(k) /\ conn \in [Conns -> ConnType] /\ entry \in [Workers -> EntryType]
  BY DEF Close, HostInv, HostTypeOK
<1>2. PICK w \in Workers : conn[k].worker = w
  BY <1>1 DEF HostInv, Placed
<1>3. entry[w] \in EntryType /\ entry[w].refs > 0
  BY <1>1, <1>2, Counted
<1>. DEFINE e == [entry[w] EXCEPT !.refs = @ - 1]
<1>4. /\ e \in EntryType /\ e.key = entry[w].key /\ e.refs = entry[w].refs - 1
      /\ e.ready = entry[w].ready /\ BootSound(e) /\ (Runs(e) <=> Running(w))
      /\ (e.booting <=> entry[w].booting) /\ (e.frame <=> entry[w].frame)
      /\ (e.live <=> entry[w].live) /\ (e.reaper <=> entry[w].reaper)
  <2>1. entry[w].refs - 1 \in Nat
    BY <1>3 DEF EntryType
  <2>2. e \in EntryType
    BY <1>3, <2>1 DEF EntryType
  <2>3. e.key = entry[w].key /\ e.refs = entry[w].refs - 1 /\ e.ready = entry[w].ready
    BY <1>3 DEF EntryType
  <2>4. e.reading <=> entry[w].reading
    BY <1>3 DEF EntryType
  <2>5. e.live <=> entry[w].live
    BY <1>3 DEF EntryType
  <2>6. e.reaper <=> entry[w].reaper
    BY <1>3 DEF EntryType
  <2>7. e.booting <=> entry[w].booting
    BY <1>3 DEF EntryType
  <2>8. e.frame <=> entry[w].frame
    BY <1>3 DEF EntryType
  <2>. HIDE DEF e
  <2>9. BootSound(entry[w])
    BY DEF HostInv, Pending
  <2>10. BootSound(e)
    BY <2>3, <2>4, <2>5, <2>7, <2>8, <2>9 DEF BootSound
  <2>11. Runs(e) <=> Running(w)
    BY <2>3, <2>5, <2>8 DEF Runs, Running, Stray
  <2>. QED  BY <2>2, <2>3, <2>5, <2>6, <2>7, <2>8, <2>10, <2>11
<1>5. \/ /\ entry' = [entry EXCEPT ![w] = Over(e)] \/ entry' = [entry EXCEPT ![w] = Dead(e)]
         /\ cache' = Evicted(w)
         /\ conn' = TellDead(Ending(k), w)
         /\ logs' = Silenced(logs, w)
      \/ /\ ~(entry[w].refs = 1 /\ cache[entry[w].key] = w)
         /\ entry' = [entry EXCEPT ![w] = e]
         /\ conn' = [conn EXCEPT ![k].state = "ended"]
         /\ cache' = cache /\ logs' = logs
  BY <1>2 DEF Close, Ending
<1>. HIDE DEF e
<1>6. CASE /\ entry' = [entry EXCEPT ![w] = Over(e)] \/ entry' = [entry EXCEPT ![w] = Dead(e)]
           /\ cache' = Evicted(w)
           /\ conn' = TellDead(Ending(k), w)
           /\ logs' = Silenced(logs, w)
  BY <1>1, <1>2, <1>4, <1>6, EndKills
<1>7. CASE /\ ~(entry[w].refs = 1 /\ cache[entry[w].key] = w)
           /\ entry' = [entry EXCEPT ![w] = e]
           /\ conn' = [conn EXCEPT ![k].state = "ended"]
           /\ cache' = cache /\ logs' = logs
  <2>1. e.refs \in Nat /\ entry[w].refs \in Nat /\ ~Fresh(w) /\ entry[w].key \in Keys \cup {None}
    BY <1>1, <1>2, <1>3, <1>4 DEF EntryType, HostInv, Placed
  <2>2. Running(w) => ~entry[w].reaper /\ cache[entry[w].key] = w
    BY <1>3, <2>1 DEF HostInv, RunningIsCached, Fresh
  <2>3. Running(w) => (e.reaper <=> e.refs = 0)
    BY <1>4, <1>7, <2>1, <2>2
  <2>. QED  BY <1>1, <1>2, <1>4, <1>7, <2>3, LeaveLiving
<1>. QED  BY <1>5, <1>6, <1>7

(***************************************************************************)
(* An entry whose reaper is over.                                          *)
(***************************************************************************)
LEMMA UnarmedFacts ==
  ASSUME NEW d \in EntryType
  PROVE  /\ [d EXCEPT !.reaper = FALSE] \in EntryType
         /\ [d EXCEPT !.reaper = FALSE].reaper = FALSE
         /\ Runs([d EXCEPT !.reaper = FALSE]) <=> Runs(d)
         /\ BootSound([d EXCEPT !.reaper = FALSE]) <=> BootSound(d)
         /\ [d EXCEPT !.reaper = FALSE].key = d.key
         /\ [d EXCEPT !.reaper = FALSE].refs = d.refs
         /\ [d EXCEPT !.reaper = FALSE].ready = d.ready
<1>. DEFINE u == [d EXCEPT !.reaper = FALSE]
<1>1. u \in EntryType
  BY DEF EntryType
<1>2. /\ u.reaper = FALSE /\ u.live = d.live /\ u.reading = d.reading /\ u.booting = d.booting
      /\ u.frame = d.frame /\ u.key = d.key /\ u.refs = d.refs /\ u.ready = d.ready
  BY DEF EntryType
<1>. HIDE DEF u
<1>3. (Runs(u) <=> Runs(d)) /\ (BootSound(u) <=> BootSound(d))
  BY <1>2 DEF Runs, BootSound
<1>. QED  BY <1>1, <1>2, <1>3 DEF u

(***************************************************************************)
(* A connection that stays has been told what became of its worker.        *)
(***************************************************************************)
LEMMA ToldStays ==
  ASSUME RetryIsReal,
         \A key \in Keys : cache'[key] # None => entry'[cache'[key]].ready # "rejected",
         \A v \in Workers : \A j \in Users(v)' :
           j \in Users(v) /\ conn'[j].told = conn[j].told /\ entry'[v].ready = entry[v].ready
  PROVE  RetryIsReal'
<1>1. \A v \in Workers : \A j \in Users(v)' :
        conn'[j].told = CASE entry'[v].ready = "pending" -> "nothing"
                          [] entry'[v].ready = "resolved" -> "ready"
                          [] entry'[v].ready = "rejected" -> "failed"
  <2>. TAKE v \in Workers
  <2>. TAKE j \in Users(v)'
  <2>1. conn[j].told = CASE entry[v].ready = "pending" -> "nothing"
                         [] entry[v].ready = "resolved" -> "ready"
                         [] entry[v].ready = "rejected" -> "failed"
    BY DEF RetryIsReal
  <2>2. conn'[j].told = conn[j].told /\ entry'[v].ready = entry[v].ready
    OBVIOUS
  <2>. QED  BY <2>1, <2>2
<1>. QED  BY <1>1 DEF RetryIsReal

(***************************************************************************)
(* The reaper's timer.  A reaper that ends no worker finds one that is     *)
(* already dead: of a living worker it is armed only while nobody uses it. *)
(***************************************************************************)
LEMMA ReapKeeps ==
  ASSUME HostInv, NEW w \in Workers, Reap(w)
  PROVE  HostInv'
<1>1. /\ HostTypeOK /\ LogsBounded /\ Placed /\ Unused /\ Pending /\ CacheKeyed /\ RefsExact
      /\ RunningIsCached /\ RetryIsReal
  BY DEF HostInv
<1>2. /\ entry \in [Workers -> EntryType] /\ entry[w].reaper /\ ~Fresh(w) /\ conn' = conn
      /\ entry[w].key \in Keys
  BY <1>1 DEF Reap, HostTypeOK, Unused, EntryType, Fresh
<1>3. CASE entry[w].refs = 0 /\ cache[entry[w].key] = w
  <2>1. /\ entry' = [entry EXCEPT ![w] = [Dead(entry[w]) EXCEPT !.reaper = FALSE]]
        /\ cache' = Evicted(w) /\ logs' = Silenced(logs, w)
    BY <1>3 DEF Reap
  <2>2. /\ entry' \in [Workers -> EntryType] /\ ~Runs(entry'[w]) /\ BootSound(entry'[w])
        /\ entry'[w].key = entry[w].key /\ entry'[w].refs = entry[w].refs
        /\ \A v \in Workers \ {w} : entry'[v] = entry[v]
    <3>1. /\ Dead(entry[w]) \in EntryType /\ ~Runs(Dead(entry[w])) /\ BootSound(Dead(entry[w]))
          /\ Dead(entry[w]).key = entry[w].key /\ Dead(entry[w]).refs = entry[w].refs
      BY <1>1, <1>2, DeadFacts DEF Pending
    <3>. QED  BY <1>2, <2>1, <3>1, UnarmedFacts
  <2>3. /\ cache' \in [Keys -> Workers \cup {None}]
        /\ \A key \in Keys : cache'[key] = IF cache[key] = w THEN None ELSE cache[key]
    BY <1>2, <2>1, EvictedFacts
  <2>4. HostTypeOK' /\ LogsBounded'
    BY <1>1, <1>2, <2>1, <2>2, <2>3, SilencedFacts DEF HostTypeOK, LogsBounded
  <2>5. Placed' /\ Unused' /\ Pending' /\ CacheKeyed'
    <3>1. Placed'
      BY <1>1, <1>2, <2>2 DEF Placed, Attached, Fresh
    <3>2. Unused'
      BY <1>1, <1>2, <2>2 DEF Unused, Fresh
    <3>3. Pending'
      BY <1>1, <2>2 DEF Pending
    <3>4. CacheKeyed'
      BY <1>1, <2>2, <2>3 DEF HostTypeOK, CacheKeyed
    <3>. QED  BY <3>1, <3>2, <3>3, <3>4
  <2>6. RefsExact'
    BY <1>1, <1>2, <2>2, StayExact DEF Stay
  <2>7. RunningIsCached'
    <3>. SUFFICES ASSUME NEW v \in Workers, Runs(entry'[v])
                  PROVE  /\ \A key \in Keys : cache'[key] = v <=> key = entry'[v].key
                         /\ entry'[v].reaper <=> entry'[v].refs = 0
      BY RunningMeans DEF RunningIsCached
    <3>1. v # w /\ entry'[v] = entry[v]
      BY <2>2
    <3>2. \A key \in Keys : cache'[key] = v <=> cache[key] = v
      BY <2>3, <3>1, NoneAssumption
    <3>. QED  BY <1>1, <3>1, <3>2, RunningMeans DEF RunningIsCached
  <2>8. RetryIsReal'
    <3>1. \A key \in Keys : cache'[key] # None => entry'[cache'[key]].ready # "rejected"
      BY <1>1, <2>2, <2>3 DEF HostTypeOK, RetryIsReal
    <3>2. Users(w) = {} /\ \A v \in Workers : Users(v)' = Users(v)
      BY <1>1, <1>2, <1>3, UsersFinite DEF RefsExact, Users, Attached
    <3>3. \A v \in Workers : \A j \in Users(v)' :
            j \in Users(v) /\ conn'[j].told = conn[j].told /\ entry'[v].ready = entry[v].ready
      BY <1>2, <2>2, <3>2
    <3>. QED  BY <1>1, <3>1, <3>3, ToldStays
  <2>. QED  BY <2>4, <2>5, <2>6, <2>7, <2>8 DEF HostInv
<1>4. CASE ~(entry[w].refs = 0 /\ cache[entry[w].key] = w)
  <2>1. ~Running(w)
    BY <1>1, <1>2, <1>4 DEF RunningIsCached
  <2>2. entry' = [entry EXCEPT ![w].reaper = FALSE] /\ cache' = cache /\ logs' = logs
    BY <1>4 DEF Reap
  <2>3. /\ entry' \in [Workers -> EntryType] /\ ~Runs(entry'[w])
        /\ BootSound(entry'[w]) /\ ~entry'[w].reaper
        /\ entry'[w].key = entry[w].key /\ entry'[w].refs = entry[w].refs
        /\ entry'[w].ready = entry[w].ready
        /\ \A v \in Workers \ {w} : entry'[v] = entry[v]
    <3>1. entry' = [entry EXCEPT ![w] = [entry[w] EXCEPT !.reaper = FALSE]]
      BY <2>2
    <3>2. BootSound(entry[w]) /\ ~Runs(entry[w])
      BY <1>1, <2>1, RunningMeans DEF Pending
    <3>. QED  BY <1>2, <3>1, <3>2, UnarmedFacts
  <2>4. HostTypeOK' /\ LogsBounded'
    BY <1>1, <1>2, <2>2, <2>3 DEF HostTypeOK, LogsBounded
  <2>5. Placed' /\ Unused' /\ Pending' /\ CacheKeyed'
    <3>1. Placed'
      BY <1>1, <1>2, <2>3 DEF Placed, Attached, Fresh
    <3>2. Unused'
      BY <1>1, <1>2, <2>3 DEF Unused, Fresh
    <3>3. Pending'
      BY <1>1, <2>3 DEF Pending
    <3>4. CacheKeyed'
      BY <1>1, <2>2, <2>3 DEF HostTypeOK, CacheKeyed
    <3>. QED  BY <3>1, <3>2, <3>3, <3>4
  <2>6. RefsExact'
    BY <1>1, <1>2, <2>3, StayExact DEF Stay
  <2>7. RunningIsCached'
    BY <1>1, <2>2, <2>3, RunningMeans DEF RunningIsCached
  <2>8. RetryIsReal'
    <3>1. \A v \in Workers : entry'[v].ready = entry[v].ready /\ Users(v)' = Users(v)
      BY <1>2, <2>3 DEF Users, Attached
    <3>2. \A key \in Keys : cache'[key] # None => entry'[cache'[key]].ready # "rejected"
      BY <1>1, <2>2, <3>1 DEF HostTypeOK, RetryIsReal
    <3>. QED  BY <1>1, <1>2, <3>1, <3>2, ToldStays
  <2>. QED  BY <2>4, <2>5, <2>6, <2>7, <2>8 DEF HostInv
<1>. QED  BY <1>3, <1>4

(***************************************************************************)
(* The log pump of a new connection.                                       *)
(***************************************************************************)
LEMMA PumpFacts ==
  ASSUME HostInv, NEW k \in Conns, NEW w \in Workers
  PROVE  /\ Pump(k, w) \in [Workers -> LogType]
         /\ \A v \in Workers : Pump(k, w)[v].retained =< Pump(k, w)[v].written
<1>1. /\ logs \in [Workers -> LogType] /\ logs[w] \in LogType
      /\ \A v \in Workers : logs[v].retained =< logs[v].written
  BY DEF HostInv, HostTypeOK, LogsBounded
<1>. DEFINE t == IF entry[w].live THEN Append(logs[w].takers, k) ELSE logs[w].takers
<1>2. t \in Seq(Conns) /\ 0 \in 0 .. MaxLogs /\ 0 =< logs[w].written
  BY <1>1, BoundAssumption DEF LogType
<1>3. Pump(k, w) = [logs EXCEPT ![w] = [logs[w] EXCEPT !.retained = 0, !.takers = t]]
  BY <1>1 DEF Pump
<1>. HIDE DEF t
<1>4. /\ [logs[w] EXCEPT !.retained = 0, !.takers = t] \in LogType
      /\ [logs[w] EXCEPT !.retained = 0, !.takers = t].retained = 0
      /\ [logs[w] EXCEPT !.retained = 0, !.takers = t].written = logs[w].written
  BY <1>1, <1>2 DEF LogType
<1>. QED  BY <1>1, <1>2, <1>3, <1>4

(***************************************************************************)
(* What a new connection knows of the worker it finds.                     *)
(***************************************************************************)
LEMMA FoundFacts ==
  ASSUME NEW c \in ConnType, NEW w \in Workers, entry[w] \in EntryType, logs[w].retained \in Nat
  PROVE  /\ Found(c, w) \in ConnType
         /\ Found(c, w).state = "attached" /\ Found(c, w).worker = w
         /\ Found(c, w).told = CASE entry[w].ready = "pending" -> "nothing"
                                 [] entry[w].ready = "resolved" -> "ready"
                                 [] entry[w].ready = "rejected" -> "failed"
<1>. DEFINE t == CASE entry[w].ready = "resolved" -> "ready"
                   [] entry[w].ready = "rejected" -> "failed"
                   [] OTHER -> "nothing"
            f == c.forwarded + logs[w].retained
<1>1. Found(c, w) = [c EXCEPT !.state = "attached", !.worker = w, !.forwarded = f, !.told = t]
  BY DEF Found
<1>2. /\ t \in {"nothing", "ready", "failed"} /\ f \in Nat
      /\ t = CASE entry[w].ready = "pending" -> "nothing"
               [] entry[w].ready = "resolved" -> "ready"
               [] entry[w].ready = "rejected" -> "failed"
  BY DEF ConnType, EntryType
<1>. HIDE DEF t, f
<1>3. /\ Found(c, w) \in ConnType
      /\ Found(c, w).state = "attached" /\ Found(c, w).worker = w /\ Found(c, w).told = t
  BY <1>1, <1>2 DEF ConnType
<1>. QED  BY <1>2, <1>3

(***************************************************************************)
(* A connection finds its worker in the cache, and is told at once what is *)
(* known of it.                                                            *)
(***************************************************************************)
LEMMA ReuseKeeps ==
  ASSUME HostInv, NEW k \in Conns, NEW key \in Keys, Reuse(k, key)
  PROVE  HostInv'
<1>1. /\ HostTypeOK /\ LogsBounded /\ Placed /\ Unused /\ Pending /\ CacheKeyed /\ RefsExact
      /\ RunningIsCached /\ RetryIsReal
  BY DEF HostInv
<1>2. PICK w \in Workers : cache[key] = w
  BY <1>1 DEF Reuse, HostTypeOK
<1>3. /\ conn[k].state = "new" /\ conn[k].told = "nothing" /\ conn[k] \in ConnType
      /\ entry[w].key = key /\ ~Fresh(w) /\ entry[w] \in EntryType
      /\ entry[w].ready # "rejected" /\ cache' = cache /\ logs[w].retained \in Nat
  BY <1>1, <1>2, NoneAssumption, BoundAssumption
  DEF Reuse, HostTypeOK, LogType, Placed, CacheKeyed, RetryIsReal, Fresh
<1>4. logs' \in [Workers -> LogType] /\ LogsBounded'
  <2>1. logs' = Pump(k, w)
    BY <1>2 DEF Reuse
  <2>. QED  BY <2>1, PumpFacts DEF LogsBounded
<1>5. /\ entry' \in [Workers -> EntryType]
      /\ entry'[w].key = entry[w].key /\ entry'[w].refs = entry[w].refs + 1
      /\ entry'[w].ready = entry[w].ready /\ ~entry'[w].reaper
      /\ (Runs(entry'[w]) <=> Runs(entry[w])) /\ BootSound(entry'[w])
      /\ \A v \in Workers \ {w} : entry'[v] = entry[v]
  <2>1. entry' = [entry EXCEPT ![w].refs = @ + 1, ![w].reaper = FALSE]
    BY <1>2 DEF Reuse
  <2>2. entry[w].refs + 1 \in Nat /\ entry \in [Workers -> EntryType]
    BY <1>1, <1>3 DEF HostTypeOK, EntryType
  <2>3. [entry[w] EXCEPT !.refs = @ + 1, !.reaper = FALSE] \in EntryType
    BY <1>3, <2>2 DEF EntryType
  <2>4. entry' = [entry EXCEPT ![w] = [entry[w] EXCEPT !.refs = @ + 1, !.reaper = FALSE]]
    BY <2>1, <2>2
  <2>5. entry' \in [Workers -> EntryType] /\ \A v \in Workers \ {w} : entry'[v] = entry[v]
    BY <2>2, <2>3, <2>4
  <2>6. entry'[w] = [entry[w] EXCEPT !.refs = @ + 1, !.reaper = FALSE]
    BY <2>2, <2>4
  <2>7. /\ entry'[w].key = entry[w].key /\ entry'[w].refs = entry[w].refs + 1
        /\ entry'[w].ready = entry[w].ready
    BY <1>3, <2>6 DEF EntryType
  <2>8. ~entry'[w].reaper
    BY <1>3, <2>6 DEF EntryType
  <2>9. /\ entry'[w].live = entry[w].live /\ entry'[w].frame = entry[w].frame
        /\ entry'[w].reading = entry[w].reading /\ entry'[w].booting = entry[w].booting
    BY <1>3, <2>6 DEF EntryType
  <2>10. Runs(entry'[w]) <=> Runs(entry[w])
    BY <2>7, <2>9 DEF Runs
  <2>11. BootSound(entry'[w])
    BY <1>1, <2>7, <2>9 DEF Pending, BootSound
  <2>. QED  BY <2>5, <2>7, <2>8, <2>10, <2>11
<1>6. /\ conn' \in [Conns -> ConnType]
      /\ conn'[k].state = "attached" /\ conn'[k].worker = w
      /\ conn'[k].told = CASE entry[w].ready = "pending" -> "nothing"
                           [] entry[w].ready = "resolved" -> "ready"
                           [] entry[w].ready = "rejected" -> "failed"
      /\ \A j \in Conns \ {k} : conn'[j] = conn[j]
  <2>1. conn' = [conn EXCEPT ![k] = Found(conn[k], w)]
    BY <1>2 DEF Reuse
  <2>2. /\ Found(conn[k], w) \in ConnType
        /\ Found(conn[k], w).state = "attached" /\ Found(conn[k], w).worker = w
        /\ Found(conn[k], w).told = CASE entry[w].ready = "pending" -> "nothing"
                                      [] entry[w].ready = "resolved" -> "ready"
                                      [] entry[w].ready = "rejected" -> "failed"
    BY <1>3, FoundFacts
  <2>3. conn \in [Conns -> ConnType]
    BY <1>1 DEF HostTypeOK
  <2>. QED  BY <2>1, <2>2, <2>3
<1>7. HostTypeOK'
  BY <1>1, <1>3, <1>4, <1>5, <1>6 DEF HostTypeOK
<1>8. Placed' /\ Unused' /\ Pending' /\ CacheKeyed'
  <2>1. Placed'
    BY <1>1, <1>3, <1>5, <1>6 DEF Placed, Attached, Fresh
  <2>2. Unused'
    BY <1>1, <1>3, <1>5 DEF Unused, Fresh
  <2>3. Pending'
    BY <1>1, <1>5 DEF Pending
  <2>4. CacheKeyed'
    BY <1>1, <1>3, <1>5 DEF HostTypeOK, CacheKeyed
  <2>. QED  BY <2>1, <2>2, <2>3, <2>4
<1>9. RefsExact'
  <2>. Join(k, w)
    BY <1>3, <1>5, <1>6 DEF Join
  <2>. QED  BY <1>1, JoinExact
<1>10. RunningIsCached'
  <2>1. entry[w].refs \in Nat
    BY <1>3 DEF EntryType
  <2>. QED  BY <1>1, <1>3, <1>5, <2>1, RunningMeans DEF RunningIsCached
<1>11. RetryIsReal'
  <2>1. \A key1 \in Keys : cache'[key1] # None => entry'[cache'[key1]].ready # "rejected"
    BY <1>1, <1>3, <1>5 DEF HostTypeOK, RetryIsReal
  <2>2. \A v \in Workers : entry'[v].ready = entry[v].ready
    BY <1>5
  <2>3. \A v \in Workers : \A j \in Users(v)' :
          conn'[j].told = CASE entry'[v].ready = "pending" -> "nothing"
                            [] entry'[v].ready = "resolved" -> "ready"
                            [] entry'[v].ready = "rejected" -> "failed"
    <3>. TAKE v \in Workers
    <3>. TAKE j \in Users(v)'
    <3>1. CASE j = k
      <4>1. v = w
        BY <1>6, <3>1 DEF Users
      <4>. QED  BY <1>6, <2>2, <3>1, <4>1
    <3>2. CASE j # k
      <4>1. j \in Users(v) /\ conn'[j] = conn[j]
        BY <1>6, <3>2 DEF Users, Attached
      <4>2. conn[j].told = CASE entry[v].ready = "pending" -> "nothing"
                             [] entry[v].ready = "resolved" -> "ready"
                             [] entry[v].ready = "rejected" -> "failed"
        BY <1>1, <4>1 DEF RetryIsReal
      <4>. QED  BY <2>2, <4>1, <4>2
    <3>. QED  BY <3>1, <3>2
  <2>. QED  BY <2>1, <2>3 DEF RetryIsReal
<1>. QED  BY <1>4, <1>7, <1>8, <1>9, <1>10, <1>11 DEF HostInv

\* the connections and the logs when one of them boots a worker
Booting(k, w) == [conn EXCEPT ![k].state = "attached", ![k].worker = w]
Taking(k, w) == [logs EXCEPT ![w].takers = <<k>>]
Booted(e, k, key) ==
  [e EXCEPT !.key = key, !.refs = 1, !.provider = k,
            !.reading = TRUE, !.booting = TRUE, !.live = TRUE]

(***************************************************************************)
(* A new worker, and the connection it is booted for.                      *)
(***************************************************************************)
LEMMA BootingFacts ==
  ASSUME HostInv, NEW k \in Conns, NEW key \in Keys, NEW w \in Workers
  PROVE  /\ Booting(k, w) \in [Conns -> ConnType]
         /\ Booting(k, w)[k].state = "attached" /\ Booting(k, w)[k].worker = w
         /\ Booting(k, w)[k].told = conn[k].told
         /\ \A j \in Conns \ {k} : Booting(k, w)[j] = conn[j]
         /\ Taking(k, w) \in [Workers -> LogType]
         /\ \A v \in Workers : Taking(k, w)[v].retained =< Taking(k, w)[v].written
         /\ Booted(entry[w], k, key) \in EntryType
         /\ Booted(entry[w], k, key).key = key /\ Booted(entry[w], k, key).refs = 1
         /\ Booted(entry[w], k, key).ready = entry[w].ready
         /\ (Booted(entry[w], k, key).reaper <=> entry[w].reaper)
         /\ Booted(entry[w], k, key).live
         /\ Fresh(w) => BootSound(Booted(entry[w], k, key))
<1>1. /\ conn \in [Conns -> ConnType] /\ entry \in [Workers -> EntryType]
      /\ logs \in [Workers -> LogType]
      /\ \A v \in Workers : logs[v].retained =< logs[v].written
  BY DEF HostInv, HostTypeOK, LogsBounded
<1>2. /\ Booting(k, w) \in [Conns -> ConnType]
      /\ Booting(k, w)[k].state = "attached" /\ Booting(k, w)[k].worker = w
      /\ Booting(k, w)[k].told = conn[k].told
      /\ \A j \in Conns \ {k} : Booting(k, w)[j] = conn[j]
  BY <1>1 DEF Booting, ConnType
<1>3. /\ Taking(k, w) \in [Workers -> LogType]
      /\ \A v \in Workers : Taking(k, w)[v].retained =< Taking(k, w)[v].written
  <2>. DEFINE t == <<k>>
  <2>0. t \in Seq(Conns)
    OBVIOUS
  <2>. HIDE DEF t
  <2>1. [logs[w] EXCEPT !.takers = t] \in LogType
    BY <1>1, <2>0 DEF LogType
  <2>2. Taking(k, w) = [logs EXCEPT ![w] = [logs[w] EXCEPT !.takers = t]]
    BY DEF Taking, t
  <2>3. /\ [logs[w] EXCEPT !.takers = t].retained = logs[w].retained
        /\ [logs[w] EXCEPT !.takers = t].written = logs[w].written
    BY <1>1 DEF LogType
  <2>. QED  BY <1>1, <2>1, <2>2, <2>3
<1>4. Booted(entry[w], k, key) \in EntryType
  BY <1>1 DEF Booted, EntryType
<1>5. /\ Booted(entry[w], k, key).key = key /\ Booted(entry[w], k, key).refs = 1
      /\ Booted(entry[w], k, key).ready = entry[w].ready
  BY <1>1 DEF Booted, EntryType
<1>6. Booted(entry[w], k, key).reaper <=> entry[w].reaper
  BY <1>1 DEF Booted, EntryType
<1>7. Booted(entry[w], k, key).live
  BY <1>1 DEF Booted, EntryType
<1>8. Booted(entry[w], k, key).frame = entry[w].frame
  BY <1>1 DEF Booted, EntryType
<1>9. Booted(entry[w], k, key).booting
  BY <1>1 DEF Booted, EntryType
<1>10. Fresh(w) => BootSound(Booted(entry[w], k, key))
  BY <1>5, <1>7, <1>8, <1>9 DEF BootSound, HostInv, Unused
<1>. QED  BY <1>2, <1>3, <1>4, <1>5, <1>6, <1>7, <1>10

(***************************************************************************)
(* A worker is booted.  The one it replaces in the cache, if any, is dead, *)
(* and the connections that waited for it are told.                        *)
(***************************************************************************)
LEMMA BootKeeps ==
  ASSUME HostInv, NEW k \in Conns, NEW key \in Keys, NEW w \in Workers, Boot(k, key, w)
  PROVE  HostInv'
<1>1. /\ HostTypeOK /\ LogsBounded /\ Placed /\ Unused /\ Pending /\ CacheKeyed /\ RefsExact
      /\ RunningIsCached /\ RetryIsReal
  BY DEF HostInv
<1>2. /\ conn[k].state = "new" /\ conn[k].told = "nothing" /\ Fresh(w) /\ ~entry[w].reaper
      /\ entry[w].ready = "pending" /\ ~entry[w].live
      /\ entry \in [Workers -> EntryType] /\ cache \in [Keys -> Workers \cup {None}]
      /\ cache' = [cache EXCEPT ![key] = w] /\ w # None /\ key # None
  BY <1>1, NoneAssumption DEF Boot, HostTypeOK, Placed, Unused
<1>3. Users(w) = {} /\ entry[w].refs = 0
  <2>1. Users(w) = {}
    BY <1>1, <1>2 DEF Placed, Users
  <2>. QED  BY <1>1, <2>1, UsersFinite DEF RefsExact
<1>. DEFINE old == cache[key]
<1>4. /\ entry' \in [Workers -> EntryType] /\ entry'[w] = Booted(entry[w], k, key)
      /\ \A v \in Workers \ {w} : IF v = old THEN entry'[v] = Dead(entry[v])
                                             ELSE entry'[v] = entry[v]
      /\ conn' \in [Conns -> ConnType]
      /\ conn'[k].state = "attached" /\ conn'[k].worker = w /\ conn'[k].told = "nothing"
      /\ \A j \in Conns \ {k} :
           /\ conn'[j].state = conn[j].state /\ conn'[j].worker = conn[j].worker
           /\ conn'[j].told = IF /\ old # None /\ entry[old].ready = "pending"
                                /\ conn[j].state = "attached" /\ conn[j].worker = old
                                /\ conn[j].told = "nothing"
                             THEN "failed" ELSE conn[j].told
      /\ logs' \in [Workers -> LogType] /\ LogsBounded'
  <2>1. CASE old = None
    <3>1. /\ entry' = [entry EXCEPT ![w] = Booted(entry[w], k, key)]
          /\ conn' = Booting(k, w) /\ logs' = Taking(k, w)
      BY <2>1 DEF Boot, Booted, Booting, Taking
    <3>. HIDE DEF old
    <3>. QED  BY <1>2, <2>1, <3>1, BootingFacts, NoneAssumption DEF LogsBounded
  <2>2. ASSUME NEW o \in Workers, old = o
        PROVE  <1>4
    <3>1. o # w /\ o # None
      BY <1>1, <1>2, <2>2, NoneAssumption DEF CacheKeyed, Fresh
    <3>2. /\ entry' = [entry EXCEPT ![w] = Booted(entry[w], k, key), ![o] = Dead(@)]
          /\ conn' = TellDead(Booting(k, w), o) /\ logs' = Silenced(Taking(k, w), o)
      BY <2>2, <3>1 DEF Boot, Booted, Booting, Taking
    <3>3. /\ entry' \in [Workers -> EntryType] /\ entry'[w] = Booted(entry[w], k, key)
          /\ entry'[o] = Dead(entry[o])
          /\ \A v \in Workers \ {w, o} : entry'[v] = entry[v]
      <4>. DEFINE b == Booted(entry[w], k, key)
      <4>1. b \in EntryType /\ Dead(entry[o]) \in EntryType
        BY <1>2, BootingFacts, DeadFacts
      <4>2. entry' = [entry EXCEPT ![w] = b, ![o] = Dead(entry[o])]
        BY <1>2, <3>1, <3>2
      <4>. HIDE DEF b
      <4>3. /\ entry' \in [Workers -> EntryType] /\ entry'[w] = b
            /\ entry'[o] = Dead(entry[o])
            /\ \A v \in Workers \ {w, o} : entry'[v] = entry[v]
        BY <1>2, <3>1, <4>1, <4>2
      <4>. QED  BY <4>3 DEF b
    <3>4. /\ conn' \in [Conns -> ConnType]
          /\ conn'[k].state = "attached" /\ conn'[k].worker = w /\ conn'[k].told = "nothing"
          /\ \A j \in Conns \ {k} :
               /\ conn'[j].state = conn[j].state /\ conn'[j].worker = conn[j].worker
               /\ conn'[j].told = IF /\ entry[o].ready = "pending"
                                    /\ conn[j].state = "attached" /\ conn[j].worker = o
                                    /\ conn[j].told = "nothing"
                                 THEN "failed" ELSE conn[j].told
      <4>1. /\ Booting(k, w) \in [Conns -> ConnType]
            /\ Booting(k, w)[k].state = "attached" /\ Booting(k, w)[k].worker = w
            /\ Booting(k, w)[k].told = "nothing"
            /\ \A j \in Conns \ {k} : Booting(k, w)[j] = conn[j]
        BY <1>2, BootingFacts
      <4>2. /\ conn' \in [Conns -> ConnType]
            /\ \A j \in Conns :
                 /\ conn'[j].state = Booting(k, w)[j].state
                 /\ conn'[j].worker = Booting(k, w)[j].worker
                 /\ conn'[j].told =
                      IF /\ entry[o].ready = "pending" /\ Booting(k, w)[j].state = "attached"
                         /\ Booting(k, w)[j].worker = o /\ Booting(k, w)[j].told = "nothing"
                      THEN "failed" ELSE Booting(k, w)[j].told
        BY <3>2, <4>1, TellDeadFacts
      <4>. QED  BY <3>1, <4>1, <4>2
    <3>5. logs' \in [Workers -> LogType] /\ LogsBounded'
      <4>. DEFINE ls == Taking(k, w)
      <4>1. ls \in [Workers -> LogType] /\ \A v \in Workers : ls[v].retained =< ls[v].written
        BY BootingFacts
      <4>2. logs' = Silenced(ls, o)
        BY <3>2
      <4>. HIDE DEF ls
      <4>3. /\ logs' \in [Workers -> LogType]
            /\ \A v \in Workers : logs'[v].retained = ls[v].retained /\ logs'[v].written = ls[v].written
        BY <4>1, <4>2, SilencedFacts
      <4>. QED  BY <4>1, <4>3 DEF LogsBounded
    <3>. QED  BY <2>2, <3>1, <3>3, <3>4, <3>5
  <2>. QED  BY <1>2, <2>1, <2>2
<1>o. /\ \A q \in Keys \ {key} : cache[q] # None => cache[q] # old
      /\ old # None => old \in Workers /\ old # w /\ entry[old].key = key
      /\ cache[key] = old
  BY <1>1, <1>2 DEF CacheKeyed, Fresh
<1>. HIDE DEF old
<1>5. /\ entry'[w].key = key /\ entry'[w].refs = 1 /\ entry'[w].ready = "pending"
      /\ ~entry'[w].reaper /\ entry'[w].live /\ BootSound(entry'[w])
  BY <1>2, <1>4, BootingFacts
<1>6. /\ \A v \in Workers \ {w} : /\ entry'[v].key = entry[v].key /\ entry'[v].refs = entry[v].refs
                                  /\ v # old => entry'[v] = entry[v]
                                  /\ v = old => /\ ~Runs(entry'[v]) /\ BootSound(entry'[v])
                                                /\ entry'[v].ready =
                                                     IF entry[v].ready = "pending"
                                                     THEN "rejected" ELSE entry[v].ready
  BY <1>1, <1>2, <1>4, DeadFacts DEF Pending
<1>7. /\ cache' \in [Keys -> Workers \cup {None}] /\ cache'[key] = w
      /\ \A q \in Keys \ {key} : cache'[q] = cache[q]
      /\ \A q \in Keys : cache[q] # w
      /\ \A q \in Keys \ {key} : cache[q] # None => cache[q] # old
      /\ old # None => old \in Workers /\ old # w
  <2>1. \A q \in Keys : cache[q] # w
    BY <1>1, <1>2, NoneAssumption DEF CacheKeyed, Fresh
  <2>. QED  BY <1>2, <1>o, <2>1
<1>8. HostTypeOK'
  BY <1>4, <1>7 DEF HostTypeOK
<1>9. Placed' /\ Unused' /\ Pending' /\ CacheKeyed'
  <2>1. Placed'
    BY <1>1, <1>2, <1>4, <1>5, <1>6 DEF Placed, Attached, Fresh
  <2>2. Unused'
    <3>1. \A v \in Workers : Fresh(v)' => v # w /\ Fresh(v) /\ v # old
      BY <1>2, <1>5, <1>6, <1>o, NoneAssumption DEF Fresh
    <3>. QED  BY <1>1, <1>6, <3>1 DEF Unused
  <2>3. Pending'
    BY <1>1, <1>5, <1>6 DEF Pending
  <2>4. CacheKeyed'
    BY <1>1, <1>2, <1>5, <1>6, <1>7 DEF CacheKeyed
  <2>. QED  BY <2>1, <2>2, <2>3, <2>4
<1>10. RefsExact'
  <2>. Join(k, w)
    BY <1>2, <1>3, <1>4, <1>5, <1>6 DEF Join
  <2>. QED  BY <1>1, JoinExact
<1>11. RunningIsCached'
  <2>. SUFFICES ASSUME NEW v \in Workers, Runs(entry'[v])
                PROVE  /\ \A q \in Keys : cache'[q] = v <=> q = entry'[v].key
                       /\ entry'[v].reaper <=> entry'[v].refs = 0
    BY RunningMeans DEF RunningIsCached
  <2>1. CASE v = w
    BY <1>5, <1>7, <2>1
  <2>2. CASE v # w
    <3>1. v # old /\ entry'[v] = entry[v]
      BY <1>6, <2>2
    <3>2. \A q \in Keys : cache[q] = v <=> q = entry[v].key
      BY <1>1, <3>1, RunningMeans DEF RunningIsCached
    <3>3. entry[v].key # key
      BY <1>o, <3>1, <3>2
    <3>4. \A q \in Keys : cache'[q] = v <=> q = entry[v].key
      BY <1>7, <2>2, <3>2, <3>3
    <3>. QED  BY <1>1, <3>1, <3>4, RunningMeans DEF RunningIsCached
  <2>. QED  BY <2>1, <2>2
<1>12. RetryIsReal'
  <2>1. \A q \in Keys : cache'[q] # None => entry'[cache'[q]].ready # "rejected"
    BY <1>1, <1>2, <1>5, <1>6, <1>7 DEF RetryIsReal
  <2>2. \A v \in Workers : \A j \in Users(v)' :
          conn'[j].told = CASE entry'[v].ready = "pending" -> "nothing"
                            [] entry'[v].ready = "resolved" -> "ready"
                            [] entry'[v].ready = "rejected" -> "failed"
    <3>. TAKE v \in Workers
    <3>. TAKE j \in Users(v)'
    <3>1. CASE j = k
      <4>1. v = w
        BY <1>4, <3>1 DEF Users
      <4>. QED  BY <1>4, <1>5, <3>1, <4>1
    <3>2. CASE j # k
      <4>1. j \in Users(v) /\ j \in Conns \ {k} /\ conn[j].state = "attached" /\ conn[j].worker = v
        BY <1>4, <3>2 DEF Users, Attached
      <4>2. conn[j].told = CASE entry[v].ready = "pending" -> "nothing"
                             [] entry[v].ready = "resolved" -> "ready"
                             [] entry[v].ready = "rejected" -> "failed"
        BY <1>1, <4>1 DEF RetryIsReal
      <4>3. v # w
        BY <1>3, <4>1
      <4>4. entry[v].ready \in {"pending", "resolved", "rejected"}
        BY <1>2 DEF EntryType
      <4>5. CASE v = old
        BY <1>4, <1>6, <1>7, <4>1, <4>2, <4>3, <4>4, <4>5, NoneAssumption
      <4>6. CASE v # old
        BY <1>4, <1>6, <4>1, <4>2, <4>3, <4>6
      <4>. QED  BY <4>5, <4>6
    <3>. QED  BY <3>1, <3>2
  <2>. QED  BY <2>1, <2>2 DEF RetryIsReal
<1>. QED  BY <1>4, <1>8, <1>9, <1>10, <1>11, <1>12 DEF HostInv

-----------------------------------------------------------------------------
(* The theorems. *)

(***************************************************************************)
(* Every step keeps the invariant.                                         *)
(***************************************************************************)
LEMMA InvNext == HostInv /\ [HostNext]_hostVars => HostInv'
<1>. SUFFICES ASSUME HostInv, [HostNext]_hostVars PROVE HostInv'
  OBVIOUS
<1>1. CASE HostNext
  BY <1>1, ReuseKeeps, BootKeeps, DetachKeeps, CloseKeeps, ProviderAnswersKeeps, StartsKeeps,
     WorkerReadyKeeps, WorkerFailsKeeps, ReapKeeps, LogKeeps DEF HostNext
<1>2. CASE UNCHANGED hostVars
  <2>1. conn' = conn /\ entry' = entry /\ cache' = cache /\ logs' = logs
    BY <1>2 DEF hostVars
  <2>2. HostTypeOK' /\ LogsBounded' /\ Placed' /\ Unused' /\ Pending' /\ CacheKeyed'
    BY <2>1 DEF HostInv, HostTypeOK, LogsBounded, Placed, Unused, Pending, CacheKeyed, Attached, Fresh
  <2>3. RefsExact'
    BY <2>1, StayExact DEF HostInv, Stay
  <2>4. RunningIsCached'
    BY <2>1, RunningMeans DEF HostInv, RunningIsCached
  <2>5. RetryIsReal'
    <3>1. RetryIsReal /\ \A v \in Workers : Users(v)' = Users(v)
      BY <2>1 DEF HostInv, Users, Attached
    <3>2. \A q \in Keys : cache'[q] # None => entry'[cache'[q]].ready # "rejected"
      BY <2>1, <3>1 DEF RetryIsReal
    <3>. QED  BY <2>1, <3>1, <3>2, ToldStays
  <2>. QED  BY <2>2, <2>3, <2>4, <2>5 DEF HostInv
<1>. QED  BY <1>1, <1>2

(***************************************************************************)
(* The invariant holds in every reachable state.                           *)
(***************************************************************************)
LEMMA Invariant == HostSpec => []HostInv
BY InvInit, InvNext, PTL DEF HostSpec

(***************************************************************************)
(* The state of the offscreen document is always of its type: no count     *)
(* goes below zero.                                                        *)
(***************************************************************************)
THEOREM HostTypeCorrect == HostSpec => []HostTypeOK
<1>1. HostInv => HostTypeOK
  BY DEF HostInv
<1>. QED  BY <1>1, Invariant, PTL

(***************************************************************************)
(* A worker's reference count is always the number of its connections.     *)
(***************************************************************************)
THEOREM CountsExact == HostSpec => []RefsExact
<1>1. HostInv => RefsExact
  BY DEF HostInv
<1>. QED  BY <1>1, Invariant, PTL

(***************************************************************************)
(* A worker that boots or is in a frame is always in the cache, under its  *)
(* key only, and its reaper is armed exactly while nobody uses it; but for *)
(* one that was closed before its frame was made.                          *)
(***************************************************************************)
THEOREM NoWorkerLeaks == HostSpec => []RunningIsCached
<1>1. HostInv => RunningIsCached
  BY DEF HostInv
<1>. QED  BY <1>1, Invariant, PTL

(***************************************************************************)
(* No failed boot is ever found in the cache, and each connection has been *)
(* told what became of the boot it waits for.                              *)
(***************************************************************************)
THEOREM RetriesReal == HostSpec => []RetryIsReal
<1>1. HostInv => RetryIsReal
  BY DEF HostInv
<1>. QED  BY <1>1, Invariant, PTL

=============================================================================
