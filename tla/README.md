# A TLA+ verification of teep

teep is a local HTTP proxy between an LLM client and inference providers that run
in trusted execution environments (TEEs).  For every provider and model it fetches
an attestation, verifies it into a report of pass/fail/skip *factors*, refuses to
forward anything while an enforced factor fails, encrypts the request to the key
the attestation binds (E2EE), and decrypts what comes back.  The logic that is hard
to test is in how concurrent requests share caches, single-use nonces and failure
markers while every step of every attempt can fail; in what forty-five factors,
three layers of configuration and verifiers that stop early add up to; and in what
an untrusted upstream can make the relays pass on.  That is what this project
models, model-checks with TLC and proves with TLAPS.

Source paths below are relative to the repository; line numbers are in
`PROJECT.json` under `map`.

## 1. Inventory

| component | state | operations | hard behaviour |
|---|---|---|---|
| request path, shared client (`internal/proxy/proxy.go`) | per-goroutine locals; shared report cache, signing-key cache, negative cache, `e2eeFailed` map | `handleEndpoint`, `attestAndCache`, `relayWithRetry`, `doUpstreamRoundtrip`, `buildUpstreamBody`, `handleE2EEDecryptionFailure`, `clearE2EEFailureIfFresh` | several lock-protected accesses per request, no lock around the sequence; two nested retry loops; headers may or may not have been sent |
| request path, pinned connections (`proxy.go` `handlePinned*`, `provider/neardirect/pinned.go`, `provider/nearcloud/pinned.go`) | SPKI cache, report cache, signing-key cache, a singleflight group | dial, compare SPKI, attest on the same connection, relay | an SPKI hit skips attestation while the other caches expire on their own |
| Chutes nonce pool (`provider/chutes/noncepool.go`) | batches per chute, failure counts, singleflight group | `Take`, `take`, `doRefresh`, `MarkFailed`, `Invalidate` | single-use nonces, expiry, refreshes that race each other |
| attestation caches (`attestation/attestation.go`, `attestation/spki.go`) | maps with fetch times, at most 1000 entries (1024 domains of 16 pins) | `Get`, `Put`, `Delete`, `IsBlocked`, `Record` | expiry boundary, eviction at the limit |
| Proof of Cloud (`attestation/poc.go`) | nonces, partial signatures, a channel | `CheckQuote`: parallel stage 1, chained stage 2 | late and missing answers, a quorum, refusals in the middle |
| supply chain (`attestation/compose.go`, `sigstore.go`, `rekor.go`) | per digest: search result, entries read | `CheckSigstoreDigests`, `FetchRekorProvenances`, the factors | the log grows between two lookups, anybody writes to it, every request can fail |
| evidence (`attestation/tdx.go`, `sev.go`, `nvidia*.go`, `eventlog.go`, the providers' `reportdata.go`, `tinfoil/verify.go`, `measurements.go`) | none | one verifier per kind of evidence | early returns leave later checks undone |
| configuration, report and policy (`config/config.go`, `defaults`, `attestation/report.go`, `applicability.go`) | the report | `loadTOML`, the merges, `BuildReport`, `Blocked`, `MarkE2EEUsable`, `MarkE2EEFailed` | enforced skips become failures; deferred and inapplicable factors; marks that arrive in any order |
| E2EE encryption and relays (`e2ee/*.go`) | session keys, the response stream | one encryptor and one relay loop per protocol | forged, replayed, reordered, truncated or cleartext answers; failure before or after the first byte reached the client |
| resolvers (`neardirect/endpoints.go`, `tinfoil/resolver.go`, `chutes/resolve.go`), TLS/CT checker (`tlsct`) | mapping or verdict and its fetch time | `Resolve`, `CheckTLSState` | stale entries |
| capture, dashboard, command line, lint (`capture`, `proxy/dashboard.go`, `cmd`) | files, counters | | |

Interaction.  A handler goroutine calls the attester, the verifiers and the relays
in sequence; it meets other goroutines only through the caches, the `e2eeFailed`
map and the nonce pool.  Each of those is an object whose operations are atomic
(a mutex, a `sync.Map`), so a step of a handler in the models makes at most one
such access, and the steps of all handlers interleave freely.  Within one
verification `ProofOfCloud` and `SupplyChain` start goroutines of their own.

How the modules fit together: `Verification` is one fetch and verification, whose
report is what `ProxyRequest` and `PinnedPath` draw from `Docs`; the answers of
`ProofOfCloud` and `SupplyChain` are what `Verification` takes from `world`; the
`Send` and `Relay` steps of the request paths are what `Relay` opens up for one
request, and the material they encrypt with comes from `NoncePool`.

What must be right: nothing is forwarded under a report an enforced factor blocks,
and a report that does not block means what its factors say; nothing is sent to an
E2EE provider except encrypted to a key that verified REPORTDATA binds, and nothing
reaches the client that was not sealed for it; a nonce is used once; every session
key is wiped; the client gets one answer; a failure makes the proxy attest again,
and never blocks it for ever.

## 2. Modules

| module | models | proofs |
|---|---|---|
| `NonceSource` | what a call of `Take` promises | |
| `NoncePool` | `provider/chutes/noncepool.go`; implements `NonceSource` | `NoncePoolProofs` |
| `Exchange` | what the proxy promises of every request | |
| `ProxyRequest` | the request path over the shared client, for one provider and model; implements `Exchange` | `ProxyRequestProofs` |
| `ProxyHistory` | `ProxyRequest` with auxiliary variables for the origin of evidence | |
| `PinnedPath` | the request path over pinned connections, for several models of one provider; implements `Exchange` | `PinnedPathProofs` |
| `QuorumVote` | what a Proof of Cloud lookup promises | |
| `ProofOfCloud` | `attestation/poc.go`; implements `QuorumVote` | `ProofOfCloudProofs` |
| `SupplyChain` | compose manifests, the transparency log, the supply chain factors | `SupplyChainProofs` |
| `Evidence` | the verifiers of quotes, GPUs, REPORTDATA and measurements, as operators | |
| `Verification` (extends `Evidence`) | configuration, one verification of any provider, its report | `VerificationProofs` |
| `FieldCrypto` | which fields are sealed and opened, as operators | |
| `Relay` (extends `FieldCrypto`) | one exchange: encryption, the relay functions, the retry | `RelayProofs` |
| `MC*` | constants for TLC | |

### NonceSource and NoncePool

`NonceSource` is the promise of `Take`: a call waits until it is given material, with
an instance key and a nonce that no other call has, or fails; one failure may end
several calls, those that waited for the same refresh.

`pools`, `failures` and `flight` are the fields of `NoncePool` (the singleflight
group is `flight`: the leader refreshing each chute).  A call of `Take` is a process
with a program counter: `Resolve`, `FastTake` (the locked `take`), `Join` (lead or
wait), `Fetch`, `Install` (the locked store of `doRefresh`), `EndFlight` (the result
reaches the leader and all waiters, which is why an error of the leader's own
context is everybody's error) and `Retake`.  `MarkFailed` and `Invalidate` may come
at any time: the material of the request that calls them may come from an
attestation rather than from `Take`.

A nonce is its identity: fetch number, instance, position.  `inst.nonces[1:]` is
the increment of the first unconsumed position.  The five lifetime constants are
parameters; the switch on `nonce_expires_in` and the margin rule are translated as
they are.  `ImplementsSource` is the refinement: the pool, its clock and its failures are
hidden, and a call is `done`, `failed` or waiting.

### Exchange

The promise that both request paths keep, each with its own mapping (`Phase`,
`Verdict`).  A request is idle, held, sealed or plain (on the wire), answered, relaying
or closing.  A body leaves only from "held", in the clear only where the provider has no
E2EE; an answer is relayed only after an exchange and under a verdict; a retry goes back
to "held" and seals again; nothing is sent from "closing".  A body on the wire that is
none of sealed and plain, because its session has a used nonce or an unbound key or its
peer was not vouched for, maps to no phase at all and would break the refinement.

### ProxyRequest

`req[r]` holds the locals of handler goroutine `r`, in the order the code assigns
them, and a program counter at each point where another goroutine can intervene:

    Arrive -> Lookup -> Attest -> Store -> Admit -> Gate
           -> BuildPlain | BuildFromRaw | BuildFromCache -> FetchKey | BuildFails
           -> PrepareFails | Send -> ForwardStatus | Relay
           -> Promote                              (success)
            | Mark -> Demote -> PutDemoted -> Wipe -> WipeKey   (decryption failure)

`UpstreamError`, `BuildError`, `NextRelay` and `NextSend` are the `continue`s and
returns of the two loops: `doUpstreamRoundtrip` repeats the build and the POST,
`relayWithRetry` repeats the whole round trip, both up to `chutesMaxAttempts` times
for Chutes and once for the others.  `Zeroed` is `zeroE2EE`/`Session.Zero`.

The provider is a variable chosen once (`prov`): with or without E2EE, with a nonce
pool (Chutes), with EHBP and TLS binding (Tinfoil).  An attestation is a document
drawn from `Docs`: its key, whether REPORTDATA binds it, whether another enforced
factor fails.  A cache entry carries its age in ticks, one tick past the TTL being
"expired"; `Tick` may happen between any two steps.  The nonce pool appears as what
`NoncePool` establishes: material with an unused nonce, or an error.

`Evict` is a full cache that drops this pair's entry because another pair is put:
it may happen between any two steps, as which entry is the oldest depends on pairs
the model leaves out.

### ProxyHistory

Adds three variables and never constrains: whether the cached report, and the one a
request holds, was fetched before the last E2EE decryption failure, and which
requests arrived after that failure had been handled.

### PinnedPath

For neardirect and nearcloud a request runs on one TLS connection: the SPKI of the
peer is looked up, and on a miss the backend is attested on that connection before
the request is written to it.  `req[r]` is again a handler goroutine:

    Arrive -> PreDispatch -> DeleteDomain -> GetKey -> Dial -> Check
           -> Join -> Recheck -> AttestOnConn -> AddSPKI -> Land   (SPKI miss)
           -> EncryptBody -> SendRequest -> StoreReport
           -> CheckMarker -> ClearMarker -> PutKey -> Relay -> Promote
            | Mark -> Demote -> PutDemoted -> Wipe -> WipeKey      (decryption failure)
            | Record                                               (any other error)

`PreDispatch` to `GetKey` and `StoreReport` to the end are the proxy's
`handlePinnedChat`/`handlePinnedNonChat` with the functions they call, the steps
between are `HandlePinned`.  `flight[p]` is the singleflight call for a peer; `Land`
hands its report, signing key or error to the leader and to all waiters, whatever
model they asked for.  A blocked report makes `HandlePinned` return an empty 502
with the report, which the proxy then enforces.

Reports and keys carry the model whose attestation they come from.  There is no
clock: `Expire` may drop any entry of any cache at any moment, which is what the
TTLs and the entry caps amount to for a request, whatever their values.  A model may
resolve to another domain at each call of `Resolve`, so the domain evicted and the
domain dialled may differ.  The wiping of session keys is left out: `handlePinnedChat`
does not zero the session of a non-200 answer, nor nearcloud that of an answer that
cannot be read, and no property is stated about it.

### QuorumVote and ProofOfCloud

`QuorumVote` is the promise: peers vote for a machine or against it; a machine is
the outcome only when a quorum supports it, "unregistered" only when some peer said
no.  `ProofOfCloud` is `CheckQuote`: one goroutine per peer posts and puts its result
into a channel (`Post`), the main one receives until the first refusal or the quorum
(`Receive`), checks machine and moniker, sorts by peer, and goes round the chain
(`ReturnSigs`, `ReturnToken`, `RefuseSignature`, `FailStage2`).  The final token is any
record of claims, and `ValidClaims` and `WrapperAgrees` decide, with the window and the
expiry at their boundaries.  `Vote` maps what each peer said and the result to
`QuorumVote`; `ImplementsVote` is the refinement.

### SupplyChain

A manifest is the sequence of its pinned images; only a manifest that the quote binds
has any (`Bound`, `Refs`).  `Search` is one goroutine of `CheckSigstoreDigests`;
`ListEntries`, `ReadEntry` and `EndEntries` are one of `FetchRekorProvenances`, with
the entry chosen by `TakeEntry`; `EndSearch` and `EndFetch` are the two `wg.Wait`s.
`Publish` lets anybody add an entry at any moment.  An entry states what holds of it:
its verifier, its SET, its inclusion proof (with the signed numbers), whom its
certificate names.  The factors `evalComposeBinding`, `evalSigstoreVerification` and
`evalBuildTransparencyLog` are operators over that state.

### Evidence and Verification

The evidence of a tier is a record of what is true of the document: is the quote
genuine, does the debug bit stand, does REPORTDATA commit to the key and to our
nonce.  `Evidence` has the verifiers as operators on it, with the early returns that
leave later results at their zero value.

`Verification` runs them in order: `Load` (a configuration file, or a refusal),
`Fetch`, `VerifyQuotes`, `VerifyNVIDIA`, `VerifyPoC`, `VerifySupplyChain`,
`VerifyTinfoilSupplyChain`, `LiveTest` (command line only), `MakeReport`; then requests
that ended mark the report (`MarkE2EEUsable`, `MarkE2EEFailed`).  It covers the eight
providers, both callers (`mode`) and `--offline`.  `Deviate` changes one field of the
evidence or one service's answer from what an honest provider would have; a
configuration other than the default costs as much.  A factor is a pair of tier and
name, since the gateway's evaluators repeat the model's.

### FieldCrypto and Relay

A JSON document is a function from paths to what the code can tell of a value:
absent, null, empty, cleartext, sealed, forged, or not a string.  `FieldCrypto` has
`EncryptRequest` for each endpoint and the decryption of chunks, whole messages and
the other endpoints' answers, with the policy `IsResponseFieldEncrypted` of Venice
and NEAR.  A choice has its delta or message or not: without it `DecryptChoice` leaves
it alone, its logprobs too, as the early returns of `DecryptSSEChunk` and
`decryptResponseChoices` do.  `Relay` is one request: `Encrypt`, `Send`, `Unwrap` (EHBP), then the
relay function that `relayResponse` or `handlePinnedNonChat` picks, which reads one
line at a time from whatever the upstream sends, and `Retry` or `Conclude`.  An EHBP
chunk opens only under its own number; a Chutes stream has its stream key.  A line that
does not begin with exactly `data: ` is copied as it is (`VerbatimLines`), whatever it
says; a chunk may come without choices, with an empty one, or without a delta.

## 3. Runs

| run | result | about |
|---|---|---|
| `MCNoncePool` | pass, 0.55 M states | two calls of `Take`, clock 0..6 |
| `MCProxyRequest` | pass, 3.2 M states | two concurrent requests, four kinds of provider |
| `MCProxyRecovery` | pass, 0.22 M states | recovery from the failure marker and termination, two requests |
| `MCPinnedPath` | pass, 0.9 M states | two concurrent pinned requests, three configurations |
| `MCProofOfCloud` | pass, 0.11 M states | three peers, quorum two, 48 tokens |
| `MCSupplyChain` | pass, 0.5 M states | three digests, seven pairs of manifests, three policies, ten kinds of entry |
| `MCVerification` | pass, 0.76 M states | eight providers, up to two deviations |
| `MCRelay` | pass, 1.5 M states | five protocols, six endpoints |
| `MCProxyAttempts`, `MCHistoryReattest`, `MCPinnedKey`, `MCRelayUsable` | violation | see section 6 |

Bounds, and why they are enough to meet the interesting cases:

* *Two calls of `Take`* are a leader and a waiter, two takers of one instance, or a
  taker racing a refresh.  The answers have a keyless instance, two usable ones and
  a rejected lifetime.  With `MaxClock = 6`, `MaxTTL = 3` and a margin of 1, batches
  expire and are replaced within the run, at, before and after the boundary.  The
  theorems cover any number of calls, chutes and answers.
* *Two requests* is one that fails and one that uses what the first left or wiped.
  `MaxAttempts = 2` makes both loops retry; the code's value is 3.  `TTL = 1` gives
  entries that are fresh, at the boundary and expired; `NegTTL = 1` a block and its
  end.  The documents are a good one and one whose key REPORTDATA does not bind
  (blocked by the enforced binding factor).  `MCProxyRecovery` has the two kinds of
  provider whose key comes from the cache, since the marker concerns them, and checks
  there that every request is answered; that Chutes' loops end is the theorem
  `RetriesBounded`.  `MCProxyAttempts` is one Chutes request with the code's
  `MaxAttempts = 3`.
* `MCPinnedPath`: two requests are a leader and a waiter, or one whose pin, report or
  key the other adds, replaces or drops.  One model with two backends makes the model
  move between the eviction and the dial; the documents are a good one, a blocked one
  and an unbound one that allow_fail lets pass; the configurations are E2EE without
  and with `--force`, and no E2EE.  `MCPinnedKey` has two models and one gateway.
* `MCProofOfCloud`: with three peers and a quorum of two an answer can come after the
  quorum.  Every token differs from a good one in one claim, the numbers by one on
  both sides of each boundary.
* `MCSupplyChain`: two digests are looked up and a third is beyond the cap
  (`MaxDigests = 2`, 64 in the code).  Two entries altogether (`MaxLog = 2` bounds
  `Published`, the places taken in the log) are an entry and one that precedes or
  follows it.
* `MCVerification`: two deviations (`MaxDeviations = 2`) reach what one wrong field
  hides of another, such as a nonce mismatch that ends the GPU checks before the
  signatures; every field and service, of both tiers, takes part.
* `MCRelay`: two lines of a stream (four for Chutes and EHBP) are a part that was
  delivered and one that is wrong.  `ChunkLimit = 3` is EHBP's 2^31 - 1.  Messages have
  one varied field, or the content and another: fields are decrypted independently.
* Handlers are interchangeable, so `MCProxyRequest` and `MCHistoryReattest` use
  symmetry; the runs with a liveness property do not.

Fairness.  `WF(Step(r))` for every call of `Take` and every handler of the shared client
once it has started: goroutines are scheduled, locks are released, and every network
operation there has a timeout (the HTTP clients' 30 seconds, and context deadlines of 5
minutes for the upstream, 30 for streams).  Nothing is assumed about arrivals, the clock or
what the network answers.  `ProofOfCloud` and `SupplyChain` assume the same of their
goroutines, for the same reason; `Publish` has no fairness.  On pinned connections it is
not so: the dial has its 30 seconds, but the body of an attestation is read after its
deadline was cleared (`neardirect/pinned.go:407-411`, `nearcloud/pinned.go:469-473`), and
the request, its answer and the relay have none (`neardirect/pinned.go:213-221`,
`nearcloud/pinned.go:146-153`).  `PinnedPath` therefore assumes fairness of every step but
those, `Unbounded`: a peer may stall there for ever.  `MCProxyRecovery` alone assumes more, as recovery must: clients keep
asking, time passes, and an attestation asked for infinitely often is good infinitely
often (strong fairness on the good outcome of `Arrive` and `Attest`).

`CHECK_DEADLOCK FALSE` where the modelled activity really ends: in the nonce pool run
every call returns once and the clock is bounded; a verification ends with its report
or its refusal, an exchange with its answer.

## 4. What the passing runs show

* `NonceSingleUse`, `NewerBatchesOnly`: popping under the lock and one refresh at a
  time suffice for single use, under any refresh, expiry and invalidation.
* `FreshWhenHandedOut`: the clamp and the margin keep a nonce within the lifetime
  the server promised, provided the answer took no longer than the margin to arrive.
* `ImplementsSource`: whatever the server's answers mix, what a call is given has a key
  and a nonce of its own, once.  `TakeReturns`.
* `ForwardedOnlyIfVerified`: although a blocked report is cached before it is
  enforced, no request that reads it goes on.
* `SentOnlyToBoundKey`: under an enforced binding factor and without `--force`,
  whatever the key cache, the request's own attestation or a re-fetched one supply.
* `NonceNeverReused`, `SessionsZeroed`, `AnsweredOnce`: across both loops and all
  failures.
* `ImplementsExchange`, on both paths: the order of things.  Nothing is relayed that was
  not first sent, nothing sent that was not sealed for that attempt, and a verdict does not
  change under an answer that is being relayed, however retries, shared attestations and
  wiped caches interleave.
* `EveryRequestReturns`, `MarkerIsCleared` of `MCProxyRecovery`: also while full caches
  evict entries.
* `SentOnlyToAttestedPeer`: a pin made by one request is good for all, also when
  evictions and expiries come between its lookup and the write.
* `SentOnlyToBoundKey` of `PinnedPath`: unlike on the shared path, it holds under
  `--force` too, since the pinned path caches a key only after the binding check.
* `RelayedOnlyUnderReport`: a request that was sent over a pin while its report
  expired ends in an error, not in an answer.
* `NoOrphanedWaiter`: nobody waits on a singleflight call that has ended, whether it
  failed, was blocked or found the peer pinned.  `EveryRequestReturns` of `PinnedPath`: a
  request returns again and again, or is at last stuck at a read or write without a
  deadline, its own or that of the leader it waits for (`Stuck`).  So a peer that stalls
  holds the requests to that peer, which may be for ever, and no others; section 6 has
  what the code's comment says of it.
* `MarkerClearedByFreshReport`.
* `RegisteredIsVouched`, `ImplementsVote`, `ChainInPeerOrder`, `LookupEnds`: whatever
  order answers come in, and whoever drops out in stage 2, "registered" means that a
  quorum with different monikers named that machine and the token says so too; and no
  goroutine stays blocked on the channel when the lookup returns early.
* `PassMeansVouched`: when `sigstore_verification` and `build_transparency_log` pass,
  every digest the bound manifests pin, up to the cap of 64, has an entry in the log
  that is signed, included and by the identity its image's policy names, or is one the
  policy exempts; although the log is read twice and may change or fail in between.
  `NoFrontRunning`, `OnlyAttestedImages`, `VerificationEnds`.
* `AdmittedIsAttested`: a report that does not block keeps the promise of each
  enforced factor that has one, stated on the evidence and not on the verifiers' results.
  `Promise` has one for the nonce, certificate chain, quote signature, debug bit,
  measurements, REPORTDATA, both TCB factors, the GPU nonce and signatures, the compose
  binding, the event log, the CPU-GPU chain, the transparency log and the code.  The other
  names, about half of them, it leaves alone: they state a presence (`nvidia_payload_present`)
  or a service's word (`cpu_id_registry`), or are about the channel (`e2ee_capable`).  The
  exceptions it names are in the code: an undecodable SEV policy hides the debug bit
  and the TCB from every factor but `tee_hardware_config`, a wrong GPU nonce hides
  the GPU signatures from every factor but the nonce and claims ones, and a gateway
  without a quote has no factors, so that only `build_transparency_log` stops it.
* `HonestIsAdmitted`: the default lists, with and without `--offline`, do not lock out
  an honest provider, with the exceptions below; `FailureIsFinal`.
* `DeliveredIsAuthentic`: in the first delta of a chunk, in what is reassembled and in
  every message and the data of a whole answer, what the policy of a session wants sealed
  never reaches the client otherwise; an EHBP body arrives in order, and nothing after a
  gap.  What a relay copies without a look it leaves out, and names: lines without
  `data: `, the later choices of a stream, and choices without delta or message, whose
  logprobs are not looked at either.  Section 6 has the consequence.
* `OneAnswer`, `SentSealed`: the latter for the paths that `EncryptRequest` looks at.

Each property has a mutant in `PROJECT.json`: a plausible mistake in the code that
makes TLC report that property.

## 5. What is proved

TLAPS checks the theorems for every value of the constants: any number of calls,
chutes, handlers, models, peers, documents and attempts, any configuration files, any
log.  Every safety invariant, action property and refinement of the passing runs is a
theorem; so are the types of `ProxyRequest` and `PinnedPath`, which no run repeats.  In
each module the inductive invariant (`IInv` or `Inv`) is a conjunction of named parts,
was checked with TLC on the run's instance first, and is proved action by action.

`NoncePoolProofs` (assumptions: the constants' types and `2 * SafetyMargin < MaxTTL
<= RejectTTL`, true of 10 s, 5 min and 1 h).  The inductive invariant `IInv` says
that the singleflight group knows its one leader (`LeaderInv`), batches are numbered
by the fetches that brought them (`NumberInv`), a number is in one place, cached or
held by its leader (`PlaceInv`), a leader brings something newer than what is cached
(`NewerInv`), and a nonce handed out from a cached batch lies before the head of its
list (`ConsumedInv`).  The last one makes single use inductive: without `PlaceInv` a
batch could be cached twice and its nonces start again.  `Implements` is the refinement
of `NonceSource`: `DoneInv` says that a call that is done has its material, and each
step either gives material to one call (`GiveRefines`, whose nonce is new by `SingleUse` in
the state after it), fails the leader and its waiters (`FailRefines`), or is invisible.
`MaterialAssumption` (no material is the null value) keeps the two apart.  Theorems:
`TypeCorrect`, `SingleUse`, `Keyed`, `Fresh`, `Newer`, `Implements`.

`ProxyRequestProofs`.  The inductive invariant is a predicate on one handler's
locals (`RequestInv`), since safety never depends on what another handler is doing
but only on what it may have left in a cache: a forwarded request has a report that
was enforced, a session exists only between encryption and the end of the attempt,
no header precedes the relay, and an attestation whose nonce is spent is never at a
point where it is used to encrypt.  `OnlyBoundKeys` adds `BoundInv`, about the
caches too: under `BindingEnforced` an unbound key never enters one.  That hypothesis
is needed: with `--force`, or with the binding factor in allow_fail, `attestAndCache`
caches a key that REPORTDATA does not bind, and a request whose own report is bound
may then encrypt to it.  `RetriesBounded` (a request makes at most `MaxAttempts * MaxAttempts`
POSTs, which is not what the comment at `proxy.go:84` promises, see section 6, but does show
that the loops end) needs `CountInv`: the POSTs made so far are at
most those of the finished relay attempts, `MaxAttempts` each, plus the sends of this
one, with room for one more wherever a POST is still to come.  `ExchangesOnly` is the
refinement of `Exchange`, under `BindingEnforced` as well and for the same reason.  It has
three parts: from which place a handler goes to which (`Walks`, action by action), which
phase each place is (`PhaseFacts`; that a body at "send" is sealed or plain, and that an
answer at "relay" has its verdict, are the two invariants at work), and that each walk is
then a step of `Exchange` or a stutter (`WalksTurn`, `TurnRefines`).  Theorems:
`TypeCorrect`, `Verified`, `NonceUsedOnce`, `Zeroing`, `OneAnswer`, `OnlyBoundKeys`,
`RetriesBounded`, `ExchangesOnly`.

`PinnedPathProofs`.  `RequestInv` says of one handler, given the provider and the set of
vouched peers, what its peer, key, session and report are at each step; `CachesInv` that
E2EE caches bound keys only and that pins are of vouched peers; `FlightInv` that a
singleflight call and its one leader know each other and every waiter has a call.
`FlightInv` is needed for the waiters: `Land` hands them what the leader obtained for
*its* peer, so a waiter's peer is vouched for only because it is the leader's.
Assumptions: a binding document has a key (`VerifyReportData` rejects an empty one), and
`None` is no value of the caches.  `ExchangesOnly` is the refinement of `Exchange`, along the
same three parts but without a hypothesis, as this path checks the binding itself.  A phase
depends on `vouched`, which other handlers extend; the invariant removes that dependence
(`Stage`, `Phased`), so that a step of one handler leaves the phases of the others alone.
`Land` is the exception: it moves a leader and its waiters together, which is one `Close` of
them all, or invisible (`LandRefines`).  Theorems: `TypeCorrect`, `AttestedPeers`,
`BoundKeys`, `Reported`, `LiveLeaders`, `MarkerCleared`, `ExchangesOnly`.

`ProofOfCloudProofs`, for any finite set of peers and any quorum.  `OncePerPeer`: a peer is
in one place, posting, in the channel or received, so that a quorum of answers is a quorum
of peers.  `Standing`: the peers of a lookup under way still say what they answered, since
a peer that takes it back in stage 2 ends the lookup.  `Progress` ties the program counter
to the number of answers.  The sort by peer is a rank argument: the position of an answer
is the number of answers whose peer comes no later, which is a bijection because no peer
occurs twice.  `Refinement` shows that the initial state maps to one of `QuorumVote`, that
every step maps to `Cast`, `Decide` or `Refuse` of it or to a stutter, and so that the
lookup implements the vote.  Assumptions: times are integers (`TokensAssumption`) and no machine
is called by a word the code uses for something else (`IdsAssumption`).  Theorems:
`TypeCorrect`, `Vouched`, `PeerOrder`, `Refinement`.

`RelayProofs`.  `PartsInv`: every part the client has, and every part a relay that
reassembles still holds, is one this attempt could open; `NumberInv`: EHBP's reads count the
parts, each in its place, which is what excludes gaps; `AnswerInv`: only a relay that
streams gives the client anything before it returns, and nothing precedes the header.  So
a retry, which needs that no header was written, starts with a client that has nothing.
`Delivered` is for any set of deltas and items, so for any chunk, with or without choices and
delta; of a verbatim line it only says that it comes in a stream.  `BodiesAssumption` says that request bodies have the
paths `EncryptRequest` looks at, the model and the roles.  Theorems: `TypeCorrect`,
`Delivered`, `OneAnswerGiven`, `Sealing`.

`SupplyChainProofs`.  `ReadingInv` is the invariant of the loop in `FetchRekorProvenance`:
unless a read failed, no entry before the current one is a Fulcio one, and the entry chosen
is one of those listed.  `LogInv` says that the log only grows: entries keep their places,
so what was listed stays true while `Publish` goes on.  Assumptions: digests of the
manifests are digests, the signed numbers of an inclusion proof are integers, `MaxLog` is a
number.  Theorems: `TypeCorrect`, `AttestedImages`, `FrontRunning`, `PassIsVouched`.

`VerificationProofs`, for every set of configuration files and any number of deviations.
`EvidenceInv`: a deviation stays within what the provider's parser delivers (only Tinfoil has
SEV guests, only nearcloud a gateway); `ResultsInv`: each result is what its verifier makes of
the document, which no longer changes once it was fetched; `ReportInv`: the report is the one
`BuildReport` made, but for `e2ee_usable`, and its counters are those of its statuses.
`Admission` then goes factor by factor: a report that does not block has `Pass` for a
required factor (`RequiredPasses`: an enforced skip was promoted), a `Pass` of the evaluator
says something of the result, and the result something of the document (`QuoteFacts`).
`TypeCorrect` includes that the counters add up.  `Availability` adds `HonestInv`: as long as
nothing was off everything is the default and the results are the good ones; then every
factor that the default lists enforce passes (`HonestCore`, `HonestModel`).  Theorems:
`TypeCorrect`, `Admission`, `Availability`, `FinalFailure`.

Only model-checked: the liveness properties (`TakeReturns`, `EveryRequestReturns`,
`MarkerIsCleared`, `LookupEnds`, `VerificationEnds`), since liveness under fairness is outside
the prover's reach; and the four claims of section 6, which are refuted by counterexamples.

## 6. Disagreements between the code and its comments

Each of these is a run that TLC ends with a counterexample.

* `AttemptsWithinMaximum` (`MCProxyAttempts`): `proxy.go:84` says that `chutesMaxAttempts`
  (3) "is the maximum number of Chutes E2EE upstream attempts".  `relayWithRetry` (line
  1643) makes up to that many relay attempts and `doUpstreamRoundtrip` (line 2490) up to that
  many upstream attempts in each, 9 POSTs in all.
* `FailureForcesReattestation` (`MCHistoryReattest`): a request in flight during a
  decryption failure puts its older report back after the handler deleted it.
* `KeyOfModel` (`MCPinnedKey`): the singleflight key of a pinned attestation leaves out
  the model, so of two requests for two models of the gateway the waiter gets the other
  model's report and signing key, and caches both under its own model.
* `UsableMeansDecrypted` (`MCRelayUsable`): a Chutes stream that ends before its first
  chunk counts as a successful E2EE round trip and promotes `e2ee_usable`.

Seen while modelling and left without a run:

* A peer of a pinned connection that stalls in the body of its attestation, in its answer
  or while the request is written holds its request, and at the attestation every
  singleflight waiter, for ever: `neardirect/pinned.go:31` says that `readTimeout` "is the
  overall read timeout for attestation responses", but it is cleared before the body is
  read (see the fairness in section 3).
* An upstream of Venice or NEAR can put text in the clear into a stream: a line without the
  exact prefix `data: ` is copied (`relay.go:1300-1303`), and so are a chunk without choices
  or without a delta, with its logprobs (`relay.go:579-595`), the later choices of a
  chunk, and in a whole answer a choice without a message (`relay.go:831-834`).
  `docs/audit_prompts/gateway_inference.md:606` has non-encrypted content fields in an E2EE
  session "treated as errors", and `proxy.go:15` "Abort on any decryption failure".
* The pinned handlers build their report without `ReportInput.Inapplicable`
  (`neardirect/pinned.go:352`, `nearcloud/pinned.go:402`), so `nvswitch_binding` and
  `sigstore_code_verified`, which have nothing to look at for a NEAR provider
  (`applicability.go:9-10`), are enforced skips, and with the default policy every pinned
  NEAR report blocks.  `HonestIsAdmitted` leaves pinned connections out for that reason.
* A refresh that fetched before `Invalidate` installs after it (`noncepool.go:255`), and
  the next `Take` is served from it, although the comment at line 114 promises a refresh.
* Each successful E2EE relay puts the promoted report back with a new fetch time
  (`proxy.go:1599`), so under steady traffic the evidence outlives the TTL (line 62).
* The TLS peer is compared with the attested key only when the request holds the
  attestation (`proxy.go:2551`), not on a report-cache hit as line 2389 suggests.
* On a pinned connection the cached report is enforced after the request was sent, so a
  model whose cached report is blocked for a factor other than the binding one is still
  sent its request over a pin that another model's attestation made; the answer is
  withheld.
* With the default policy Phala Cloud always blocks (it has no measurements to compare),
  and so does an offline verification of Tinfoil on the command line or of an SEV guest.
* Venice, NEAR and Chutes streams have no order protection between chunks, and a stream that is cut counts
  as complete.  A Venice or NEAR answer that is reassembled keeps strings and tool calls
  only, and any failure of it, a read error too, counts as a decryption failure.
* Images beyond the first 64 digests of a manifest are not looked up at all.

## 7. Not modelled, and the plan

Not modelled: cryptography and the parsing of documents (facts of the evidence, the
entries and the leaves); the cache of NRAS signing keys; the resolvers and the TLS/CT
checker, which are memos whose every answer the request paths already allow; the
streams of the command line's live test, whose outcome `LiveTest` takes as given;
captures, dashboard, help texts and the linter, which have no state that a property
here is about.  Environment variables, connection limits and file permissions of the
configuration are left out.  What is left out of the larger components is noted with
each of them in `PROJECT.json`.

Next: the JWKS cache and the resolvers, as modules of their own with the caches' expiry and
fallbacks.
