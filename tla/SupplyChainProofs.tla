-------------------------- MODULE SupplyChainProofs --------------------------
(***************************************************************************)
(* Proofs of the safety properties of SupplyChain, for every set of        *)
(* digests, manifests, policies and log entries, and a log of any size.    *)
(***************************************************************************)
EXTENDS SupplyChain, FiniteSetTheorems, SequenceTheorems, TLAPS

(***************************************************************************)
(* The log                                                                 *)
(***************************************************************************)

LEMMA PublishedIs ==
  \A x : x \in Published <=> \E d \in Digests : \E i \in DOMAIN log[d] : x = <<d, i>>
BY DEF Published

\* The entries of one digest are no more than those of the whole log.
LEMMA LogLength ==
  ASSUME LogInv, NEW d \in Digests
  PROVE  Len(log[d]) \in Nat /\ Len(log[d]) <= MaxLog
<1>1. log[d] \in Seq(Entries) /\ Len(log[d]) \in Nat /\ DOMAIN log[d] = 1 .. Len(log[d])
  BY LenProperties DEF LogInv
<1> DEFINE f == [i \in 1 .. Len(log[d]) |-> <<d, i>>]
<1>2. f \in [1 .. Len(log[d]) -> Published]
  BY <1>1, PublishedIs
<1>3. \A i, j \in 1 .. Len(log[d]) : f[i] = f[j] => i = j
  OBVIOUS
<1>4. f \in Injection(1 .. Len(log[d]), Published)
  BY <1>2, <1>3 DEF Injection, IsInjective
<1>5. Cardinality(1 .. Len(log[d])) <= Cardinality(Published)
  BY <1>4, FS_Injection DEF LogInv
<1>6. Cardinality(1 .. Len(log[d])) = Len(log[d])
  <2>1. 1 \in Int /\ Len(log[d]) \in Int
    BY <1>1
  <2>2. Cardinality(1 .. Len(log[d])) = IF 1 > Len(log[d]) THEN 0 ELSE Len(log[d]) - 1 + 1
    BY <2>1, FS_Interval, Zenon
  <2> QED
    BY <1>1, <2>2
<1>7. Cardinality(Published) \in Nat /\ Cardinality(Published) <= MaxLog
  BY FS_CardinalityType DEF LogInv
<1> QED
  BY <1>1, <1>5, <1>6, <1>7, LogBound

\* An entry that is published comes after the ones that are there.
LEMMA PublishLog ==
  ASSUME LogInv, NEW d \in Digests, NEW e \in Entries, Cardinality(Published) < MaxLog,
         log' = [log EXCEPT ![d] = Append(@, e)]
  PROVE  /\ LogInv'
         /\ \A x \in Digests : /\ Len(log'[x]) \in Nat /\ Len(log[x]) \in Nat
                               /\ Len(log[x]) <= Len(log'[x])
                               /\ \A i \in 1 .. Len(log[x]) : log'[x][i] = log[x][i]
<1>1. log \in [Digests -> Seq(Entries)]
  BY DEF LogInv
<1>2. \A x \in Digests : Len(log[x]) \in Nat /\ DOMAIN log[x] = 1 .. Len(log[x])
  BY <1>1, LenProperties
<1>3. /\ Append(log[d], e) \in Seq(Entries) /\ Len(Append(log[d], e)) = Len(log[d]) + 1
      /\ DOMAIN Append(log[d], e) = 1 .. Len(log[d]) + 1
      /\ \A i \in 1 .. Len(log[d]) : Append(log[d], e)[i] = log[d][i]
  <2>1. log[d] \in Seq(Entries)
    BY <1>1
  <2> QED
    BY <1>2, <2>1
<1>4. log' \in [Digests -> Seq(Entries)]
  BY <1>1, <1>3
<1>5. /\ log'[d] = Append(log[d], e)
      /\ \A x \in Digests : x # d => log'[x] = log[x]
  BY <1>1
<1>6. Published' = Published \cup {<<d, Len(log[d]) + 1>>}
  <2>1. \A x \in Digests : \A i : i \in DOMAIN log'[x] <=> i \in DOMAIN log[x] \/ (x = d /\ i = Len(log[d]) + 1)
    BY <1>2, <1>3, <1>5
  <2>2. \A y : y \in Published' <=> \E x \in Digests : \E i \in DOMAIN log'[x] : y = <<x, i>>
    BY DEF Published
  <2>3. \A y : y \in Published' <=> y \in Published \/ y = <<d, Len(log[d]) + 1>>
    BY <2>1, <2>2, PublishedIs
  <2> QED
    BY <2>3
<1>7. IsFiniteSet(Published') /\ Cardinality(Published') <= MaxLog
  <2>1. IsFiniteSet(Published) /\ Cardinality(Published) \in Nat
    BY FS_CardinalityType DEF LogInv
  <2> DEFINE x == <<d, Len(log[d]) + 1>>
             S == Published \cup {x}
  <2>2. IsFiniteSet(S) /\ Cardinality(S) = IF x \in Published THEN Cardinality(Published)
                                            ELSE Cardinality(Published) + 1
    BY <2>1, FS_AddElement, Zenon
  <2>3. Published' = S
    BY <1>6
  <2> HIDE DEF S, x
  <2> QED
    BY <2>1, <2>2, <2>3, LogBound
<1>8. LogInv'
  BY <1>4, <1>7 DEF LogInv
<1>9. \A x \in Digests : /\ Len(log'[x]) \in Nat /\ Len(log[x]) \in Nat
                         /\ Len(log[x]) <= Len(log'[x])
                         /\ \A i \in 1 .. Len(log[x]) : log'[x][i] = log[x][i]
  BY <1>2, <1>3, <1>5
<1> QED
  BY <1>8, <1>9

(***************************************************************************)
(* The manifests                                                           *)
(***************************************************************************)

\* What is looked up was pinned by a manifest that its quote binds.
LEMMA LookedUpIsPinned ==
  ASSUME NEW d \in AllDigests
  PROVE  \E t \in Tiers : /\ manifest[t].register = "match"
                          /\ \E i \in DOMAIN manifest[t].images : manifest[t].images[i].digest = d
<1>1. PICK t \in Tiers : d \in ExtractImageDigests(t)
  BY DEF AllDigests, Tiers
<1>2. d \in ToSet(DigestsOf(t))
  BY <1>1 DEF ExtractImageDigests
<1>3. PICK i \in DOMAIN Refs(t) : d = Refs(t)[i].digest
  BY <1>2 DEF ToSet, DigestsOf
<1>4. Bound(manifest[t]) /\ Refs(t) = manifest[t].images
  <2>1. DOMAIN <<>> = {}
    OBVIOUS
  <2> QED
    BY <1>3, <2>1 DEF Refs
<1> QED
  BY <1>3, <1>4 DEF Bound

LEMMA SameManifest ==
  ASSUME UNCHANGED manifest
  PROVE  AllDigests' = AllDigests
BY DEF AllDigests, ExtractImageDigests, DigestsOf, Refs, Bound

(***************************************************************************)
(* The inductive invariant                                                 *)
(***************************************************************************)

LEMMA InitInv ==
  ASSUME Init
  PROVE  Inv
<1>1. /\ log = [d \in Digests |-> <<>>] /\ search = [d \in Digests |-> "none"]
      /\ fetch = [d \in Digests |-> NoFetch] /\ pc = "search" /\ policy \in Policies /\ manifest \in Evidence
  BY DEF Init
<1>2. <<>> \in Seq(Entries) /\ Len(<<>>) = 0 /\ DOMAIN <<>> = {}
  BY EmptySeq
<1>3. LogInv
  <2>1. Published = {}
    BY <1>1, <1>2 DEF Published
  <2> QED
    BY <1>1, <1>2, <2>1, FS_EmptySet, LogBound DEF LogInv
<1>4. fetch \in [Digests -> FetchState] /\ search \in [Digests -> {"none", "ok", "absent", "error"}]
  BY <1>1 DEF FetchState, NoFetch
<1>5. ASSUME NEW d \in Digests PROVE ReadingInv(d) /\ search[d] = "none"
  <2>1. fetch[d] = NoFetch /\ Len(log[d]) = 0 /\ search[d] = "none"
    BY <1>1, <1>2
  <2> QED
    BY <2>1 DEF ReadingInv, NoFetch
<1> QED
  BY <1>1, <1>3, <1>4, <1>5 DEF Inv

\* A step that leaves the log alone and moves the search or the loop of one
\* digest.
LEMMA StepInv ==
  ASSUME Inv, UNCHANGED <<policy, manifest, log>>, pc' \in {"search", "fetch", "done"},
         search' \in [Digests -> {"none", "ok", "absent", "error"}],
         \A d \in Digests : search'[d] # search[d] => d \in AllDigests,
         fetch' \in [Digests -> FetchState],
         \A d \in Digests : fetch'[d] = fetch[d] \/ ReadingInv(d)'
  PROVE  Inv'
<1>1. LogInv' /\ AllDigests' = AllDigests
  BY SameManifest DEF Inv, LogInv, Published
<1>2. ASSUME NEW d \in Digests PROVE ReadingInv(d)'
  <2>1. CASE fetch'[d] = fetch[d]
    BY <2>1 DEF Inv, ReadingInv, IsFulcio
  <2> QED
    BY <2>1
<1> QED
  BY <1>1, <1>2 DEF Inv

\* One round of the loop of a digest.
LEMMA FetchInv ==
  ASSUME Inv, NEW d \in Digests, NEW f \in FetchState, SetFetch(d, f),
         UNCHANGED <<pc, policy, manifest, offline, log, search>>,
         /\ f.n <= Len(log[d]) /\ f.at \in 1 .. f.n + 1 /\ f.fallback < f.at
         /\ (f.st = "idle" => f.n = 0) /\ (f.st # "found" => f.chosen = 0)
         /\ f.st = "reading" /\ ~f.missed => \A i \in 1 .. f.at - 1 : ~IsFulcio(log[d][i])
         /\ f.st = "found" => /\ f.chosen \in 1 .. f.n
                              /\ \/ f.missed \/ IsFulcio(log[d][f.chosen])
                                 \/ \A i \in 1 .. f.n : ~IsFulcio(log[d][i])
  PROVE  Inv'
<1>1. fetch \in [Digests -> FetchState] /\ pc \in {"search", "fetch", "done"}
      /\ search \in [Digests -> {"none", "ok", "absent", "error"}]
  BY DEF Inv
<1>2. fetch' = [fetch EXCEPT ![d] = f]
  BY DEF SetFetch
<1>3. fetch' \in [Digests -> FetchState] /\ fetch'[d] = f /\ \A x \in Digests : x # d => fetch'[x] = fetch[x]
  BY <1>1, <1>2
<1>4. ReadingInv(d)'
  BY <1>3 DEF ReadingInv, IsFulcio
<1> QED
  BY <1>1, <1>3, <1>4, StepInv

LEMMA SearchInv ==
  ASSUME Inv, NEW d \in Digests, Search(d)
  PROVE  Inv'
<1>1. d \in AllDigests /\ UNCHANGED <<pc, policy, manifest, offline, log, fetch>>
  BY DEF Search, Asked
<1>2. \E r \in {"ok", "absent", "error"} : search' = [search EXCEPT ![d] = r]
  BY DEF Search
<1>3. /\ search' \in [Digests -> {"none", "ok", "absent", "error"}]
      /\ \A x \in Digests : search'[x] # search[x] => x = d
  BY <1>2 DEF Inv
<1>4. fetch' \in [Digests -> FetchState] /\ pc' \in {"search", "fetch", "done"}
  BY <1>1 DEF Inv
<1> QED
  BY <1>1, <1>3, <1>4, StepInv

LEMMA ListInv ==
  ASSUME Inv, NEW d \in Digests, ListEntries(d)
  PROVE  Inv'
<1>1. /\ fetch[d] \in FetchState /\ ReadingInv(d) /\ Len(log[d]) \in Nat /\ fetch[d].st = "idle"
      /\ UNCHANGED <<pc, policy, manifest, offline, log, search>>
  BY LogLength DEF Inv, ListEntries
<1>2. CASE SetFetch(d, [fetch[d] EXCEPT !.st = "reading", !.n = Len(log[d])])
  <2> DEFINE f == [fetch[d] EXCEPT !.st = "reading", !.n = Len(log[d])]
  <2>1. /\ f \in FetchState /\ f.st = "reading" /\ f.n = Len(log[d]) /\ f.at = fetch[d].at
        /\ f.fallback = fetch[d].fallback /\ f.chosen = fetch[d].chosen
    BY <1>1 DEF FetchState
  <2>2. fetch[d].at = 1 /\ fetch[d].fallback = 0 /\ fetch[d].chosen = 0
    BY <1>1 DEF ReadingInv, FetchState
  <2>3. SetFetch(d, f)
    BY <1>2
  <2> HIDE DEF f
  <2>4. f.at \in 1 .. f.n + 1 /\ 1 .. f.at - 1 = {}
    BY <1>1, <2>1, <2>2
  <2> QED
    BY <1>1, <2>1, <2>2, <2>3, <2>4, FetchInv
<1>3. CASE SetFetch(d, [fetch[d] EXCEPT !.st = "error"])
  <2> DEFINE f == [fetch[d] EXCEPT !.st = "error"]
  <2>1. /\ f \in FetchState /\ f.st = "error" /\ f.n = fetch[d].n /\ f.at = fetch[d].at
        /\ f.fallback = fetch[d].fallback /\ f.chosen = fetch[d].chosen
    BY <1>1 DEF FetchState
  <2> HIDE DEF f
  <2> QED
    BY <1>1, <1>3, <2>1, FetchInv DEF ReadingInv, f
<1> QED
  BY <1>2, <1>3 DEF ListEntries

\* The first Fulcio entry ends the loop; until then no entry that was looked at
\* is one, unless its fetch failed.
LEMMA ReadInv ==
  ASSUME Inv, NEW d \in Digests, ReadEntry(d)
  PROVE  Inv'
<1>1. /\ fetch[d] \in FetchState /\ ReadingInv(d) /\ Len(log[d]) \in Nat
      /\ fetch[d].st = "reading" /\ fetch[d].at <= fetch[d].n
      /\ UNCHANGED <<pc, policy, manifest, offline, log, search>>
  BY LogLength DEF Inv, ReadEntry
<1> DEFINE e == log[d][fetch[d].at]
<1>2. CASE IsFulcio(e) /\ SetFetch(d, [fetch[d] EXCEPT !.st = "found", !.chosen = fetch[d].at])
  <2> DEFINE f == [fetch[d] EXCEPT !.st = "found", !.chosen = fetch[d].at]
  <2>1. /\ f \in FetchState /\ f.st = "found" /\ f.n = fetch[d].n /\ f.at = fetch[d].at
        /\ f.fallback = fetch[d].fallback /\ f.chosen = fetch[d].at
    BY <1>1 DEF FetchState
  <2>2. f.chosen \in 1 .. f.n /\ IsFulcio(log[d][f.chosen])
    BY <1>1, <1>2, <2>1 DEF ReadingInv, FetchState
  <2> HIDE DEF f
  <2>3. SetFetch(d, f)
    BY <1>2 DEF f
  <2> QED
    BY <1>1, <2>1, <2>2, <2>3, FetchInv DEF ReadingInv
<1>3. ASSUME NEW k \in {fetch[d].fallback, fetch[d].at}, NEW b \in BOOLEAN,
             SetFetch(d, [fetch[d] EXCEPT !.at = fetch[d].at + 1, !.fallback = k, !.missed = b]),
             ~b => ~fetch[d].missed /\ ~IsFulcio(e)
      PROVE  Inv'
  <2> DEFINE f == [fetch[d] EXCEPT !.at = fetch[d].at + 1, !.fallback = k, !.missed = b]
  <2>1. /\ f \in FetchState /\ f.st = "reading" /\ f.n = fetch[d].n /\ f.at = fetch[d].at + 1
        /\ f.fallback = k /\ f.chosen = fetch[d].chosen /\ f.missed = b
    <3>1. k \in Nat /\ fetch[d].at + 1 \in Nat
      BY <1>1 DEF FetchState
    <3> QED
      BY <1>1, <3>1 DEF FetchState
  <2>2. f.at \in 1 .. f.n + 1 /\ f.fallback < f.at
    BY <1>1, <2>1 DEF ReadingInv, FetchState
  <2>3. ~f.missed => \A i \in 1 .. f.at - 1 : ~IsFulcio(log[d][i])
    <3> SUFFICES ASSUME ~b, NEW i \in 1 .. f.at - 1 PROVE ~IsFulcio(log[d][i])
      BY <2>1
    <3>1. fetch[d].at \in Nat /\ (i = fetch[d].at \/ i \in 1 .. fetch[d].at - 1)
      BY <1>1, <2>1 DEF FetchState
    <3> QED
      BY <1>1, <1>3, <3>1 DEF ReadingInv
  <2> HIDE DEF f
  <2>4. SetFetch(d, f)
    BY <1>3 DEF f
  <2> QED
    BY <1>1, <2>1, <2>2, <2>3, <2>4, FetchInv DEF ReadingInv
<1>4. CASE SetFetch(d, TakeEntry(d, e, fetch[d])) /\ ~IsFulcio(e)
  <2>1. PICK k \in {fetch[d].fallback, fetch[d].at} :
          TakeEntry(d, e, fetch[d]) = [fetch[d] EXCEPT !.at = fetch[d].at + 1, !.fallback = k]
    BY <1>4 DEF TakeEntry
  <2>2. [fetch[d] EXCEPT !.at = fetch[d].at + 1, !.fallback = k]
          = [fetch[d] EXCEPT !.at = fetch[d].at + 1, !.fallback = k, !.missed = fetch[d].missed]
    BY <1>1 DEF FetchState
  <2>3. fetch[d].missed \in BOOLEAN
    BY <1>1 DEF FetchState
  <2> QED
    BY <1>3, <1>4, <2>1, <2>2, <2>3
<1>5. CASE SetFetch(d, TakeEntry(d, e, fetch[d])) /\ IsFulcio(e)
  BY <1>2, <1>5 DEF TakeEntry
<1>6. CASE SetFetch(d, [fetch[d] EXCEPT !.at = @ + 1, !.missed = TRUE])
  <2>1. [fetch[d] EXCEPT !.at = @ + 1, !.missed = TRUE]
          = [fetch[d] EXCEPT !.at = fetch[d].at + 1, !.fallback = fetch[d].fallback, !.missed = TRUE]
    BY <1>1 DEF FetchState
  <2> QED
    BY <1>3, <1>6, <2>1
<1> QED
  BY <1>4, <1>5, <1>6 DEF ReadEntry

LEMMA EndEntriesInv ==
  ASSUME Inv, NEW d \in Digests, EndEntries(d)
  PROVE  Inv'
<1>1. /\ fetch[d] \in FetchState /\ ReadingInv(d) /\ Len(log[d]) \in Nat
      /\ fetch[d].st = "reading" /\ fetch[d].at > fetch[d].n
      /\ UNCHANGED <<pc, policy, manifest, offline, log, search>>
  BY LogLength DEF Inv, EndEntries
<1> DEFINE s == IF fetch[d].fallback = 0 THEN "error" ELSE "found"
           f == [fetch[d] EXCEPT !.chosen = fetch[d].fallback, !.st = s]
<1>2. /\ f \in FetchState /\ f.st = s /\ f.n = fetch[d].n /\ f.at = fetch[d].at
      /\ f.fallback = fetch[d].fallback /\ f.chosen = fetch[d].fallback /\ f.missed = fetch[d].missed
  BY <1>1 DEF FetchState
<1>3. fetch[d].at = fetch[d].n + 1 /\ fetch[d].n \in Nat /\ fetch[d].fallback \in 0 .. fetch[d].n
  BY <1>1 DEF ReadingInv, FetchState
<1>4. fetch[d].missed \/ \A i \in 1 .. fetch[d].n : ~IsFulcio(log[d][i])
  BY <1>1, <1>3 DEF ReadingInv
<1>5. SetFetch(d, f)
  BY DEF EndEntries
<1>6. f.st = "found" => f.chosen \in 1 .. f.n
  BY <1>2, <1>3
<1>7. f.st \in {"error", "found"} /\ (f.st = "error" => f.chosen = 0)
  BY <1>2
<1> HIDE DEF f, s
<1> QED
  BY <1>1, <1>2, <1>3, <1>4, <1>5, <1>6, <1>7, FetchInv DEF ReadingInv

\* What was listed and chosen stays what it was when the log grows.
LEMMA PublishInv ==
  ASSUME Inv, NEW d \in Digests, NEW e \in Entries, Publish(d, e)
  PROVE  Inv'
<1>1. /\ LogInv'
      /\ \A x \in Digests : /\ Len(log'[x]) \in Nat /\ Len(log[x]) \in Nat
                            /\ Len(log[x]) <= Len(log'[x])
                            /\ \A i \in 1 .. Len(log[x]) : log'[x][i] = log[x][i]
  BY PublishLog DEF Inv, Publish
<1>2. UNCHANGED <<pc, policy, manifest, offline, search, fetch>>
  BY DEF Publish
<1>3. ASSUME NEW x \in Digests PROVE ReadingInv(x)'
  <2>1. ReadingInv(x) /\ fetch[x] \in FetchState
    BY DEF Inv
  <2>2. \A i \in 1 .. fetch[x].n : log'[x][i] = log[x][i]
    BY <1>1, <2>1 DEF ReadingInv, FetchState
  <2>3. 1 .. fetch[x].at - 1 \subseteq 1 .. fetch[x].n
    BY <2>1 DEF ReadingInv, FetchState
  <2>4. fetch[x].n <= Len(log'[x])
    BY <1>1, <2>1 DEF ReadingInv, FetchState
  <2> QED
    BY <1>2, <2>1, <2>2, <2>3, <2>4 DEF ReadingInv, IsFulcio
<1>4. AllDigests' = AllDigests
  BY <1>2, SameManifest
<1> QED
  BY <1>1, <1>2, <1>3, <1>4 DEF Inv

\* The steps that leave the log and the loops alone.
LEMMA MoveInv ==
  ASSUME Inv, EndSearch \/ EndFetch \/ UNCHANGED vars
  PROVE  Inv'
<1>1. UNCHANGED <<policy, manifest, log, search, fetch>> /\ pc' \in {"search", "fetch", "done"}
  BY DEF Inv, EndSearch, EndFetch, vars
<1>2. /\ search' \in [Digests -> {"none", "ok", "absent", "error"}]
      /\ fetch' \in [Digests -> FetchState]
  BY <1>1 DEF Inv
<1> QED
  BY <1>1, <1>2, StepInv

(***************************************************************************)
(* Theorems                                                                *)
(***************************************************************************)

\* The inductive invariant of the supply chain checks holds: only digests that
\* a bound manifest pins are looked up, and each loop over the entries of a
\* digest is where the entries it has seen put it, while the log grows.
THEOREM Invariance == Spec => []Inv
<1>1. Init => Inv
  BY InitInv
<1>2. Inv /\ [Next]_vars => Inv'
  <2> SUFFICES ASSUME Inv, [Next]_vars PROVE Inv'
    OBVIOUS
  <2>1. CASE Client
    BY <2>1, SearchInv, ListInv, ReadInv, EndEntriesInv, MoveInv DEF Client
  <2>2. CASE \E d \in Digests, e \in Entries : Publish(d, e)
    BY <2>2, PublishInv
  <2>3. CASE Done \/ UNCHANGED vars
    BY <2>3, MoveInv DEF Done
  <2> QED
    BY <2>1, <2>2, <2>3 DEF Next
<1> QED
  BY <1>1, <1>2, PTL DEF Spec

\* The search and the loops have their types, and an entry is chosen exactly
\* where FetchRekorProvenance found one, among those it listed.
THEOREM TypeCorrect == Spec => []TypeOK
<1>1. ASSUME Inv PROVE TypeOK
  <2>1. ASSUME NEW d \in Digests
        PROVE  /\ Len(log[d]) <= MaxLog
               /\ fetch[d] \in [st : {"idle", "reading", "found", "error"}, n : 0 .. MaxLog,
                                at : 1 .. MaxLog + 1, fallback : 0 .. MaxLog, chosen : 0 .. MaxLog,
                                missed : BOOLEAN]
               /\ (fetch[d].st = "found") = (fetch[d].chosen \in 1 .. fetch[d].n)
    <3>1. Len(log[d]) \in Nat /\ Len(log[d]) <= MaxLog /\ fetch[d] \in FetchState /\ ReadingInv(d)
      BY <1>1, LogLength DEF Inv
    <3>2. /\ fetch[d].n \in 0 .. MaxLog /\ fetch[d].at \in 1 .. MaxLog + 1
          /\ fetch[d].fallback \in 0 .. MaxLog /\ fetch[d].chosen \in 0 .. MaxLog
      BY <3>1, LogBound DEF ReadingInv, FetchState
    <3>3. (fetch[d].st = "found") = (fetch[d].chosen \in 1 .. fetch[d].n)
      BY <3>1 DEF ReadingInv, FetchState
    <3> QED
      BY <3>1, <3>2, <3>3 DEF FetchState
  <2> QED
    BY <1>1, <2>1 DEF Inv, TypeOK
<1> QED
  BY <1>1, Invariance, PTL

\* verifySupplyChain looks up, and so lets pass, only digests that a manifest
\* pins whose hash is in the measured register (VerifyComposeBinding).
THEOREM AttestedImages == Spec => []OnlyAttestedImages
<1>1. Inv => OnlyAttestedImages
  BY LookedUpIsPinned DEF Inv, OnlyAttestedImages
<1> QED
  BY <1>1, Invariance, PTL

\* FetchRekorProvenance cannot be front-run: if every listed entry could be
\* read and one is a Fulcio entry, the chosen entry is one, however many other
\* entries come before it and whatever is published meanwhile.
THEOREM FrontRunning == Spec => []NoFrontRunning
<1>1. Inv => NoFrontRunning
  BY DEF Inv, ReadingInv, NoFrontRunning
<1> QED
  BY <1>1, Invariance, PTL

\* sigstore_verification and build_transparency_log pass together only if each
\* digest that the bound manifests pin, up to the cap, is exempted by the policy
\* or has an entry in the log, with its proofs, that satisfies the policy.
THEOREM PassIsVouched == Spec => []PassMeansVouched
<1>1. ASSUME Inv PROVE PassMeansVouched
  <2> SUFFICES ASSUME evalSigstoreVerification = "Pass", evalBuildTransparencyLog = "Pass",
                      NEW d \in AllDigests, ~ComposeOnly(d)
               PROVE  Vouched(d)
    BY DEF PassMeansVouched
  <2>1. Asked = AllDigests /\ search[d] = "ok"
    BY DEF evalSigstoreVerification, Asked
  <2>2. d \in OkDigests
    BY <2>1 DEF OkDigests
  <2>3. ~EntryFails(d)
    BY <2>2 DEF evalBuildTransparencyLog
  <2>4. d \in Digests
    BY <1>1, LookedUpIsPinned, EvidenceAssumption DEF Inv
  <2> DEFINE e == log[d][fetch[d].chosen]
             r == DigestToRepo(d)
  <2>5. Classify(d) # "failed" /\ fetch[d].st = "found" /\ SETVerified(e) /\ InclusionVerified(e)
    BY <2>3 DEF EntryFails, LogProven
  <2>6. fetch[d].chosen \in DOMAIN log[d] /\ e \in Entries
    <3>1. ReadingInv(d) /\ fetch[d] \in FetchState /\ log[d] \in Seq(Entries) /\ Len(log[d]) \in Nat
      BY <1>1, <2>4, LogLength DEF Inv, LogInv
    <3>2. fetch[d].chosen \in 1 .. Len(log[d])
      BY <2>5, <3>1 DEF ReadingInv, FetchState
    <3> QED
      BY <3>1, <3>2
  <2>7. e.set = "signed" /\ e.proof.valid /\ e.proof.index \in 0 .. e.proof.size - 1
    BY <2>5, <2>6, EntriesAssumption DEF SETVerified, InclusionVerified
  <2>8. r \in DOMAIN policy /\ policy[r].provenance = "fulcio" => FulcioMatches(e, policy[r])
    <3> SUFFICES ASSUME r \in DOMAIN policy, policy[r].provenance = "fulcio"
                 PROVE  FulcioMatches(e, policy[r])
      OBVIOUS
    <3>1. ~NoPolicy /\ InPolicy(r)
      BY DEF NoPolicy, InPolicy
    <3>2. Classify(d) = IF fetch[d].st # "error" /\ FulcioMatches(e, policy[r]) THEN "fulcio" ELSE "failed"
      BY <3>1 DEF Classify
    <3> QED
      BY <2>5, <3>2
  <2> QED
    BY <2>6, <2>7, <2>8 DEF Vouched, FulcioMatches, IsFulcio
<1> QED
  BY <1>1, Invariance, PTL

=============================================================================
