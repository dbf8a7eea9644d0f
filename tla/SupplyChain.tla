----------------------------- MODULE SupplyChain -----------------------------
(***************************************************************************)
(* The supply chain checks of one verification: which container images the *)
(* attested compose manifests pin, what the transparency log says of their *)
(* digests, and what the report makes of it (compose.go, sigstore.go,      *)
(* rekor.go and the supply chain factors of report.go).                    *)
(*                                                                         *)
(* One goroutine per digest searches the log, then one per digest that was *)
(* found reads its entries; anybody may publish entries meanwhile, and     *)
(* every request may fail.  A manifest is the sequence of its pinned image *)
(* references, each with its repository already normalised.  A log entry   *)
(* says what its verifier is, whether its signatures check out, and whom   *)
(* its certificate names.  A manifest is present when the evidence has it  *)
(* and the quote that could bind it was parsed.                            *)
(***************************************************************************)
EXTENDS Integers, Sequences, FiniteSets, SequencesExt

CONSTANTS Digests,      \* image digests
          Repos,        \* image repositories
          NoRepo,       \* a digest without repository
          Evidence,     \* manifests that a model and its gateway may attest together
          Policies,     \* supply chain policies; the empty one is no policy
          Entries,      \* entries that may be published
          GitHub,       \* the issuer expected where there is no policy
          NoKey,        \* an image whose signing key is not pinned
          MaxDigests,   \* maxImageDigests
          MaxProofHashes, \* longest inclusion proof that is looked at
          MaxLog        \* bound: entries published altogether

\* An inclusion proof gives its index and tree size as integers, of any sign.
ASSUME EntriesAssumption == \A e \in Entries : e.proof.index \in Int /\ e.proof.size \in Int
ASSUME LogBound == MaxLog \in Nat

Tiers == {"model", "gateway"}

ASSUME EvidenceAssumption ==
  \A m \in Evidence : \A t \in Tiers : \A i \in DOMAIN m[t].images : m[t].images[i].digest \in Digests

VARIABLES pc,        \* "search", "fetch", "done"
          policy,    \* the provider's supply chain policy
          manifest,  \* what each tier attested: its images and whether MRConfigID binds them
          offline,   \* --offline
          log,       \* the transparency log, per digest
          search,    \* per digest: the outcome of CheckSigstoreDigests
          fetch      \* per digest: the state of FetchRekorProvenance

vars == <<pc, policy, manifest, offline, log, search, fetch>>

NoFetch == [st |-> "idle", n |-> 0, at |-> 1, fallback |-> 0, chosen |-> 0, missed |-> FALSE]

-----------------------------------------------------------------------------
(* Images of the manifests that the quotes bind. *)

\* mutant: the register is not compared
BoundIfPresent(m) == m.present

\* VerifyComposeBinding: the measured register starts with 1 and the hash of
\* the manifest; a short or an empty register binds nothing.
Bound(m) == m.present /\ m.register = "match"

Refs(t) == IF Bound(manifest[t]) THEN manifest[t].images ELSE <<>>

ImageRepos(t) == {Refs(t)[i].repo : i \in DOMAIN Refs(t)} \ {NoRepo}

DigestsOf(t) == [i \in DOMAIN Refs(t) |-> Refs(t)[i].digest]

FirstAt(s, x) == Min({i \in DOMAIN s : s[i] = x})

\* Distinct digests, in order, no more than the cap.
ExtractImageDigests(t) ==
  LET ds == DigestsOf(t)
  IN  {d \in ToSet(ds) : Cardinality({ds[j] : j \in 1 .. FirstAt(ds, d) - 1}) < MaxDigests}

\* The digests of both tiers that are looked up.
AllDigests == ExtractImageDigests("model") \cup ExtractImageDigests("gateway")

Named(refs) == SelectSeq(refs, LAMBDA r : r.repo # NoRepo)

\* The repository that names a digest first, the model's manifest before the
\* gateway's.
DigestToRepo(d) ==
  LET refs == Named(Refs("model")) \o Named(Refs("gateway"))
      at == {i \in DOMAIN refs : refs[i].digest = d}
  IN  IF at = {} THEN NoRepo ELSE refs[Min(at)].repo

-----------------------------------------------------------------------------
(* Reading the transparency log. *)

\* verifySET: present, decodable and signed by the log.
SETVerified(e) == e.set = "signed"

\* verifyInclusionProof: the bounds are checked before the index and the size
\* become unsigned, then the hash chain.
InclusionVerified(e) ==
  /\ e.proof.present
  /\ e.proof.index >= 0
  /\ e.proof.size > 0
  /\ e.proof.index < e.proof.size
  /\ e.proof.hashes <= MaxProofHashes
  /\ e.proof.valid

\* An entry whose body, verifier or certificate cannot be decoded is skipped.
Readable(e) == e.verifier \in {"rawKey", "certificate"}

\* A certificate without issuer is no Fulcio certificate.
IsFulcio(e) == e.verifier = "certificate" /\ e.issuer # "none"

Init == /\ pc = "search"
        /\ policy \in Policies
        /\ manifest \in Evidence
        /\ offline \in BOOLEAN
        /\ log = [d \in Digests |-> <<>>]
        /\ search = [d \in Digests |-> "none"]
        /\ fetch = [d \in Digests |-> NoFetch]

\* The entries of the log, each with its digest and its place.
Published == UNION {{d} \X DOMAIN log[d] : d \in Digests}

\* Somebody publishes an entry for a digest.
Publish(d, e) ==
  /\ Cardinality(Published) < MaxLog
  /\ log' = [log EXCEPT ![d] = Append(@, e)]
  /\ UNCHANGED <<pc, policy, manifest, offline, search, fetch>>

Asked == IF offline THEN {} ELSE AllDigests

\* checkDigestViaRekor, in the goroutine of the digest.
Search(d) ==
  /\ pc = "search"
  /\ d \in Asked
  /\ search[d] = "none"
  /\ \/ search' = [search EXCEPT ![d] = IF log[d] = <<>> THEN "absent" ELSE "ok"]
     \/ search' = [search EXCEPT ![d] = "error"]
  /\ UNCHANGED <<pc, policy, manifest, offline, log, fetch>>

\* wg.Wait of CheckSigstoreDigests.
EndSearch ==
  /\ pc = "search"
  /\ \A d \in Asked : search[d] # "none"
  /\ pc' = "fetch"
  /\ UNCHANGED <<policy, manifest, offline, log, search, fetch>>

OkDigests == {d \in Asked : search[d] = "ok"}

SetFetch(d, f) == fetch' = [fetch EXCEPT ![d] = f]

\* fetchRekorUUIDs in FetchRekorProvenance: the entries known at this moment.
ListEntries(d) ==
  /\ pc = "fetch"
  /\ d \in OkDigests
  /\ fetch[d].st = "idle"
  /\ \/ /\ log[d] # <<>>
        /\ SetFetch(d, [fetch[d] EXCEPT !.st = "reading", !.n = Len(log[d])])
     \/ SetFetch(d, [fetch[d] EXCEPT !.st = "error"])
  /\ UNCHANGED <<pc, policy, manifest, offline, log, search>>

\* mutant: the first entry ends the loop
TakeFirstEntry(d, e, f) == [f EXCEPT !.st = "found", !.chosen = f.at]

\* What the loop makes of an entry that was fetched: the first Fulcio entry
\* ends it, the first other verifier is the fallback.
TakeEntry(d, e, f) ==
  IF IsFulcio(e) THEN [f EXCEPT !.st = "found", !.chosen = f.at]
  ELSE [f EXCEPT !.at = f.at + 1,
                 !.fallback = IF Readable(e) /\ f.fallback = 0 THEN f.at ELSE f.fallback]

\* mutant: a failed entry is tried again for ever
ReadEntryAgain(d) ==
  /\ pc = "fetch"
  /\ fetch[d].st = "reading"
  /\ fetch[d].at <= fetch[d].n
  /\ \/ SetFetch(d, TakeEntry(d, log[d][fetch[d].at], fetch[d]))
     \/ SetFetch(d, [fetch[d] EXCEPT !.missed = ~@])
  /\ UNCHANGED <<pc, policy, manifest, offline, log, search>>

\* One round of the loop over the entries; the fetch of an entry may fail.
ReadEntry(d) ==
  /\ pc = "fetch"
  /\ fetch[d].st = "reading"
  /\ fetch[d].at <= fetch[d].n
  /\ \/ SetFetch(d, TakeEntry(d, log[d][fetch[d].at], fetch[d]))
     \/ SetFetch(d, [fetch[d] EXCEPT !.at = @ + 1, !.missed = TRUE])
  /\ UNCHANGED <<pc, policy, manifest, offline, log, search>>

\* mutant: no entry is not an error
EndEntriesAnyway(d) ==
  /\ pc = "fetch"
  /\ fetch[d].st = "reading"
  /\ fetch[d].at > fetch[d].n
  /\ SetFetch(d, [fetch[d] EXCEPT !.chosen = fetch[d].fallback, !.st = "found"])
  /\ UNCHANGED <<pc, policy, manifest, offline, log, search>>

\* The loop ended without a Fulcio entry: the fallback, or an error.
EndEntries(d) ==
  /\ pc = "fetch"
  /\ fetch[d].st = "reading"
  /\ fetch[d].at > fetch[d].n
  /\ SetFetch(d, [fetch[d] EXCEPT !.chosen = fetch[d].fallback,
                                  !.st = IF fetch[d].fallback = 0 THEN "error" ELSE "found"])
  /\ UNCHANGED <<pc, policy, manifest, offline, log, search>>

\* wg.Wait of FetchRekorProvenances.
EndFetch ==
  /\ pc = "fetch"
  /\ \A d \in OkDigests : fetch[d].st \in {"found", "error"}
  /\ pc' = "done"
  /\ UNCHANGED <<policy, manifest, offline, log, search, fetch>>

Done == pc = "done" /\ UNCHANGED vars

Client == \/ \E d \in Digests : Search(d) \/ ListEntries(d) \/ ReadEntry(d) \/ EndEntries(d)
          \/ EndSearch
          \/ EndFetch

Next == \/ Client
        \/ \E d \in Digests, e \in Entries : Publish(d, e)
        \/ Done

\* Requests to the log have timeouts, so every goroutine goes on.
Spec == Init /\ [][Next]_vars /\ WF_vars(Client)

-----------------------------------------------------------------------------
(* The factors of the report. *)

NoPolicy == policy = <<>>

InPolicy(r) == r \in DOMAIN policy

\* compose_binding, of either tier.
evalComposeBinding(t) == IF ~manifest[t].present THEN "Skip"
                         ELSE IF Bound(manifest[t]) THEN "Pass" ELSE "Fail"

ComposeOnly(d) == /\ ~NoPolicy
                  /\ InPolicy(DigestToRepo(d))
                  /\ policy[DigestToRepo(d)].provenance = "compose"

\* sigstore_verification.
evalSigstoreVerification ==
  IF Asked = {} THEN "Skip"
  ELSE IF \A d \in Asked : search[d] = "ok" \/ ComposeOnly(d) THEN "Pass" ELSE "Fail"

\* verifyFulcioEntry: the certificate, the identity and the source repository.
FulcioMatches(e, img) ==
  /\ e.dsse \/ img.noDSSE
  /\ IsFulcio(e)
  /\ e.issuer = img.issuer
  /\ img.identities = {} \/ e.identity \in img.identities
  /\ e.source \in img.sources

\* classifyRekorEntry: an entry of a Fulcio image must match its policy; an
\* entry of any other image must not come from an unexpected key; without a
\* policy a certificate must come from GitHub.  A failed fetch of an image
\* that needs no Fulcio entry counts as an entry without log proofs.
Classify(d) ==
  LET repo == DigestToRepo(d)
      failed == fetch[d].st = "error"
      e == log[d][fetch[d].chosen]
      rawOrPlain == ~failed /\ ~IsFulcio(e)
  IN  CASE ~NoPolicy /\ InPolicy(repo) /\ policy[repo].provenance = "fulcio" ->
             IF ~failed /\ FulcioMatches(e, policy[repo]) THEN "fulcio" ELSE "failed"
        [] ~NoPolicy /\ InPolicy(repo) /\ policy[repo].provenance # "fulcio" ->
             IF /\ ~failed
                /\ policy[repo].provenance = "sigstore"
                /\ policy[repo].key \notin {NoKey, e.key}
             THEN "failed" ELSE "sigstore"
        [] NoPolicy -> IF failed \/ rawOrPlain THEN "sigstore"
                       ELSE IF e.issuer = GitHub THEN "fulcio" ELSE "failed"
        [] OTHER -> IF failed THEN "sigstore" ELSE "failed"

\* The log proofs of the entry that was chosen; a failed fetch has none.
LogProven(d) == /\ fetch[d].st = "found"
                /\ SETVerified(log[d][fetch[d].chosen])
                /\ InclusionVerified(log[d][fetch[d].chosen])

\* mutant: the log proofs are not looked at
UnprovenPasses(d) == Classify(d) = "failed"

\* rekorProvenanceResult, for one digest.
EntryFails(d) == Classify(d) = "failed" \/ ~LogProven(d)

\* checkImageRepoPolicy.
RepoPolicyViolated ==
  /\ ~NoPolicy
  /\ \/ ImageRepos("model") = {}
     \/ \E r \in ImageRepos("model") : ~(InPolicy(r) /\ policy[r].model)
     \/ LET gatewayImages == {r \in DOMAIN policy : policy[r].gateway}
        IN  IF gatewayImages = {} THEN ImageRepos("gateway") # {}
            ELSE \/ ImageRepos("gateway") = {}
                 \/ \E r \in ImageRepos("gateway") : r \notin gatewayImages

\* build_transparency_log.  A provider without policy needs one Fulcio entry
\* to pass, and a compose hash to be skipped where nothing was fetched.
evalBuildTransparencyLog ==
  CASE RepoPolicyViolated -> "Fail"
    [] ~RepoPolicyViolated /\ OkDigests = {} ->
         IF NoPolicy /\ manifest["model"].hash THEN "Skip" ELSE "Fail"
    [] ~RepoPolicyViolated /\ OkDigests # {} ->
         IF \E d \in OkDigests : EntryFails(d) THEN "Fail"
         ELSE IF ~NoPolicy \/ \E d \in OkDigests : Classify(d) = "fulcio" THEN "Pass" ELSE "Skip"

-----------------------------------------------------------------------------
(* Properties. *)

\* The shape of the state.
TypeOK ==
  /\ pc \in {"search", "fetch", "done"}
  /\ policy \in Policies
  /\ manifest \in Evidence
  /\ \A d \in Digests : Len(log[d]) <= MaxLog
  /\ search \in [Digests -> {"none", "ok", "absent", "error"}]
  /\ fetch \in [Digests -> [st : {"idle", "reading", "found", "error"}, n : 0 .. MaxLog,
                            at : 1 .. MaxLog + 1, fallback : 0 .. MaxLog, chosen : 0 .. MaxLog,
                            missed : BOOLEAN]]
  /\ \A d \in Digests : (fetch[d].st = "found") = (fetch[d].chosen \in 1 .. fetch[d].n)

\* Both factors pass only if every digest that the bound manifests pin, up to
\* the cap, is really vouched for: it is one the policy exempts, or the log
\* holds, with its timestamp signed and its inclusion proven, an entry of the
\* identity and source repository that the policy of its image asks for
\* (verifySupplyChain, whatever was published between the two lookups and
\* whichever request failed).
Vouched(d) ==
  \E i \in DOMAIN log[d] :
    LET e == log[d][i] IN
    /\ e.set = "signed" /\ e.proof.valid /\ e.proof.index \in 0 .. e.proof.size - 1
    /\ LET r == DigestToRepo(d) IN
       (r \in DOMAIN policy /\ policy[r].provenance = "fulcio") =>
         /\ e.verifier = "certificate" /\ e.issuer = policy[r].issuer
         /\ policy[r].identities # {} => e.identity \in policy[r].identities
         /\ e.source \in policy[r].sources
         /\ e.dsse \/ policy[r].noDSSE

PassMeansVouched ==
  (pc = "done" /\ evalSigstoreVerification = "Pass" /\ evalBuildTransparencyLog = "Pass") =>
    \A d \in AllDigests : Vouched(d) \/ ComposeOnly(d)

\* Nothing of a manifest that the quote does not bind reaches the log or the
\* policy: a passing report is about attested images only.
OnlyAttestedImages ==
  \A d \in Digests : search[d] # "none" =>
    \E t \in Tiers : /\ manifest[t].register = "match"
                     /\ \E i \in DOMAIN manifest[t].images : manifest[t].images[i].digest = d

\* An entry that somebody publishes first cannot hide the entry of the build:
\* unless a fetch failed, the chosen entry is a Fulcio one if the log listed
\* one (FetchRekorProvenance, F-23).
NoFrontRunning ==
  \A d \in Digests :
    (fetch[d].st = "found" /\ ~fetch[d].missed) =>
      ((\E i \in 1 .. fetch[d].n : IsFulcio(log[d][i])) => IsFulcio(log[d][fetch[d].chosen]))

\* Every verification ends.
VerificationEnds == <>(pc = "done")

-----------------------------------------------------------------------------
(* The inductive invariant. *)

\* The log only grows, up to its bound.
LogInv == /\ log \in [Digests -> Seq(Entries)]
          /\ IsFiniteSet(Published) /\ Cardinality(Published) <= MaxLog

FetchState == [st : {"idle", "reading", "found", "error"}, n : Nat, at : Nat, fallback : Nat,
               chosen : Nat, missed : BOOLEAN]

\* The loop of FetchRekorProvenance over the n entries that were listed, of
\* which the ones before at were looked at.
ReadingInv(d) ==
  LET f == fetch[d] IN
  /\ f.n <= Len(log[d]) /\ f.at \in 1 .. f.n + 1 /\ f.fallback < f.at
  /\ (f.st = "idle" => f.n = 0) /\ (f.st # "found" => f.chosen = 0)
  /\ f.st = "reading" /\ ~f.missed => \A i \in 1 .. f.at - 1 : ~IsFulcio(log[d][i])
  /\ f.st = "found" => /\ f.chosen \in 1 .. f.n
                       /\ \/ f.missed \/ IsFulcio(log[d][f.chosen])
                          \/ \A i \in 1 .. f.n : ~IsFulcio(log[d][i])

Inv == /\ pc \in {"search", "fetch", "done"} /\ policy \in Policies /\ manifest \in Evidence
       /\ search \in [Digests -> {"none", "ok", "absent", "error"}]
       /\ fetch \in [Digests -> FetchState]
       /\ LogInv
       /\ \A d \in Digests : /\ ReadingInv(d)
                             /\ search[d] # "none" => d \in AllDigests

=============================================================================
