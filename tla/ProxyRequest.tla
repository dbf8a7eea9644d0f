---------------------------- MODULE ProxyRequest ----------------------------
(***************************************************************************)
(* One inference request through the proxy, for a provider whose upstream  *)
(* is reached through the shared HTTP client (internal/proxy/proxy.go:     *)
(* handleEndpoint, attestAndCache, relayWithRetry, doUpstreamRoundtrip,    *)
(* buildUpstreamBody and the failure handlers they call).                  *)
(*                                                                         *)
(* Requests is a set of handler goroutines that serve requests for the     *)
(* same provider and model for ever; they share the report cache, the      *)
(* signing-key cache, the negative cache and the e2eeFailed marker, each   *)
(* access being atomic and each step of a goroutine making at most one     *)
(* access that other goroutines can see.                                   *)
(*                                                                         *)
(* Abstractions.  An attestation is a document: the signing key it names,  *)
(* whether REPORTDATA binds that key, and whether an enforced factor fails *)
(* (ReportPolicy says how).  A cache entry carries its age instead of its  *)
(* fetch time; ages stop growing one past the TTL.  The nonce pool is      *)
(* what NoncePool promises: key material with an unused nonce.             *)
(***************************************************************************)
EXTENDS Integers, FiniteSets

CONSTANTS
  Requests,        \* handler goroutines
  Keys, NoKey,     \* signing keys; NoKey is the empty string
  Docs,            \* what the attestation endpoint may serve
  None,
  Providers,       \* the kinds of provider configured
  Forced,          \* cfg.Force
  UsableEnforced,  \* e2ee_usable is not in the allow_fail list
  MaxAttempts,     \* chutesMaxAttempts
  TTL, NegTTL      \* in ticks: AttestationCacheTTL and negativeCacheTTL

\* What provider.Provider says of the one that serves the model: prov.E2EE; it
\* has an E2EEMaterialFetcher and SkipSigningKeyCache (chutes); its Encryptor
\* returns an EHBP session, and prov.UsesTLSBinding (both tinfoil).
Provider == [e2ee : BOOLEAN, pool : BOOLEAN, ehbp : BOOLEAN, tls : BOOLEAN]

Doc == [key : Keys \cup {NoKey}, bound : BOOLEAN, blocked : BOOLEAN]

ASSUME DocsAssumption == /\ Docs \subseteq Doc
                         \* VerifyReportData rejects an empty signing key
                         /\ \A d \in Docs : d.bound => d.key # NoKey
ASSUME NullAssumption ==
  /\ NoKey \notin Keys
  /\ None \notin [key : Keys \cup {NoKey}, bound : BOOLEAN, nonce : {"fresh", "spent"}]
ASSUME FlagAssumption == /\ {Forced, UsableEnforced} \subseteq BOOLEAN
                         /\ Providers \subseteq Provider
                         /\ \A p \in Providers : p.pool => p.e2ee /\ ~p.ehbp /\ ~p.tls
ASSUME BoundAssumption == /\ MaxAttempts \in Nat \ {0}
                          /\ TTL \in Nat \ {0} /\ NegTTL \in Nat \ {0}

VARIABLES
  prov,      \* the provider the model resolved to; it never changes
  cache,     \* attestation.Cache, the entry of this provider and model
  keyCache,  \* attestation.SigningKeyCache
  neg,       \* attestation.NegativeCache: the age of the recorded failure
  failed,    \* Server.e2eeFailed holds the marker
  req        \* the local variables of each handler goroutine

vars == <<prov, cache, keyCache, neg, failed, req>>

(***************************************************************************)
(* Types                                                                   *)
(***************************************************************************)

\* A verification report: the REPORTDATA binding factor, whether another
\* enforced factor fails, and e2ee_usable.
Report == [bound : BOOLEAN, blocked : BOOLEAN, usable : {"skip", "pass", "fail"}]

\* Key material: a RawAttestation, and a session encrypted to its key.
Raw == [key : Keys \cup {NoKey}, bound : BOOLEAN, nonce : {"fresh", "spent"}]

\* The attempts of a retry loop, counted from 1.
Tries == 1 .. MaxAttempts

PCs == {"idle", "lookup", "attest", "store", "admit", "gate", "build", "fetchkey",
        "send", "relay", "promote", "mark", "demote", "putdemoted", "wipe", "wipekey"}

Request ==
  [pc       : PCs,
   rep      : Report \cup {None},       \* attestResult.Report
   raw      : Raw \cup {None},          \* attestResult.Raw
   active   : BOOLEAN,                  \* attestResult.E2EEActive
   relayTry : Tries,                    \* attempt of relayWithRetry
   sendTry  : Tries,                    \* attempt of doUpstreamRoundtrip
   sess     : Raw \cup {None},          \* the attempt's session or EHBP context
   resp     : {"none", "ok", "status"}, \* the upstream answer: 200 or not
   peer     : {"none", "attested", "other"},  \* its TLS peer
   hdr      : Nat,                      \* response headers sent to the client
   out      : {"none", "ok", "failed"}, \* the outcome logged
   sends    : Nat]                      \* ghost: upstream POSTs made

TypeOK ==
  /\ prov \in Providers
  /\ cache \in [rep : Report, age : 0 .. TTL + 1] \cup {None}
  /\ keyCache \in [key : Keys, bound : BOOLEAN, age : 0 .. TTL + 1] \cup {None}
  /\ neg \in 0 .. NegTTL
  /\ failed \in BOOLEAN
  /\ req \in [Requests -> Request]

Idle == [pc |-> "idle", rep |-> None, raw |-> None, active |-> FALSE,
         relayTry |-> 1, sendTry |-> 1, sess |-> None, resp |-> "none", peer |-> "none",
         hdr |-> 0, out |-> "none", sends |-> 0]

Init ==
  /\ prov \in Providers
  /\ cache = None
  /\ keyCache = None
  /\ neg = NegTTL      \* no recorded failure blocks
  /\ failed = FALSE
  /\ req = [r \in Requests |-> Idle]

(***************************************************************************)
(* Helpers                                                                 *)
(***************************************************************************)

\* Get: the entry is present and time.Since(fetchedAt) <= ttl.
Hit(entry) == entry # None /\ entry.age <= TTL

\* NegativeCache.IsBlocked: time.Since < ttl.
IsBlocked == neg < NegTTL

\* VerificationReport.Blocked: some enforced factor fails.
Blocked(report) == report.blocked \/ (UsableEnforced /\ report.usable = "fail")

\* The handler returns: its locals go, the reply and the outcome remain.
Return(q, outcome) ==
  [Idle EXCEPT !.out = outcome, !.hdr = q.hdr, !.sess = q.sess]

\* http.Error unless headers were already sent, then return.
FailAgain(q) == Return([q EXCEPT !.hdr = @ + 1], "failed")   \* mutant: headerSent ignored
Fail(q) == Return([q EXCEPT !.hdr = IF @ = 0 THEN 1 ELSE @], "failed")

\* zeroE2EE(session, meta, ehbp)
ZeroedNothing(q) == q   \* mutant
Zeroed(q) == [q EXCEPT !.sess = None]

Chutes(q) == q.active /\ prov.pool
MaxTry(q) == IF Chutes(q) THEN MaxAttempts ELSE 1

\* continue in relayWithRetry.
NextRelay(q) == [Zeroed(q) EXCEPT !.pc = "build", !.relayTry = @ + 1, !.sendTry = 1,
                                  !.resp = "none", !.peer = "none"]
\* continue in doUpstreamRoundtrip.
NextSend(q) == [Zeroed(q) EXCEPT !.pc = "build", !.sendTry = @ + 1]

\* doUpstreamRoundtrip returned an error, having zeroed its sessions: another
\* relay attempt, or the client gets the error.
UpstreamError(q) ==
  IF q.relayTry < MaxTry(q) /\ q.hdr = 0 THEN NextRelay(q)
                                         ELSE Fail(Zeroed(q))

\* buildUpstreamBody returned an error: retried unless the client went away.
BuildErrorForever(q, cancelled) ==   \* mutant: the attempt is not counted
  IF cancelled THEN UpstreamError(q) ELSE [Zeroed(q) EXCEPT !.pc = "build"]
BuildError(q, cancelled) ==
  IF q.sendTry < MaxTry(q) /\ ~cancelled THEN NextSend(q)
                                         ELSE UpstreamError(q)

Older(age) == IF age <= TTL THEN age + 1 ELSE age

Set(r, q) == req' = [req EXCEPT ![r] = q]

(***************************************************************************)
(* handleEndpoint, up to the attestation                                   *)
(***************************************************************************)

\* A request arrives: it is malformed, or the negative cache blocks it, or it
\* goes on to attestAndCache.
Arrive(r) ==
  /\ req[r].pc = "idle"
  /\ \/ Set(r, Fail(Idle))
     \/ IsBlocked /\ Set(r, Fail(Idle))
     \/ ~IsBlocked /\ Set(r, [Idle EXCEPT !.pc = "lookup"])
  /\ UNCHANGED <<prov, cache, keyCache, neg, failed>>

(***************************************************************************)
(* attestAndCache                                                          *)
(***************************************************************************)

\* s.cache.Get
Lookup(r) ==
  /\ req[r].pc = "lookup"
  /\ \/ /\ Hit(cache)
        /\ Set(r, [req[r] EXCEPT !.pc = "admit", !.rep = cache.rep])
     \/ /\ ~Hit(cache)
        /\ Set(r, [req[r] EXCEPT !.pc = "attest"])
  /\ UNCHANGED <<prov, cache, keyCache, neg, failed>>

NewReport(d) == [bound |-> d.bound, blocked |-> d.blocked, usable |-> "skip"]
NewRaw(d) == [key |-> d.key, bound |-> d.bound, nonce |-> "fresh"]

\* fetchAndVerify: a fetch error is recorded in the negative cache; any other
\* outcome is a report, passing or blocked, and the raw attestation.
Attest(r) ==
  /\ req[r].pc = "attest"
  /\ \/ /\ neg' = 0
        /\ Set(r, Fail(req[r]))
     \/ /\ \E d \in Docs :
             Set(r, [req[r] EXCEPT !.pc = "store", !.rep = NewReport(d), !.raw = NewRaw(d)])
        /\ UNCHANGED neg
  /\ UNCHANGED <<prov, cache, keyCache, failed>>

\* s.cache.Put, also for a blocked report.
Store(r) ==
  /\ req[r].pc = "store"
  /\ cache' = [rep |-> req[r].rep, age |-> 0]
  /\ Set(r, [req[r] EXCEPT !.pc = "admit"])
  /\ UNCHANGED <<prov, keyCache, neg, failed>>

\* enforceReport: a blocked report ends the request, unless --force.
EnforceNothing(report) == TRUE   \* mutant
Enforce(report) == ~Blocked(report) \/ Forced

\* The key of a fresh attestation is cached once the report is enforced.
CachedKey(r) ==
  IF req[r].raw # None /\ req[r].raw.key # NoKey
    THEN [key |-> req[r].raw.key, bound |-> req[r].raw.bound, age |-> 0]
    ELSE keyCache

\* enforceReport, signingKeyCache.Put and the decision to use E2EE.
Admit(r) ==
  LET q == req[r]
      e2eeActive == prov.e2ee /\ q.rep.bound
  IN
  /\ q.pc = "admit"
  /\ \/ /\ ~Enforce(q.rep)
        /\ Set(r, Fail(q))
        /\ UNCHANGED keyCache
     \/ /\ Enforce(q.rep)
        /\ keyCache' = CachedKey(r)
        /\ Set(r, [q EXCEPT !.active = e2eeActive,
                            !.pc = IF e2eeActive THEN "gate" ELSE "build"])
  /\ UNCHANGED <<prov, cache, neg, failed>>

\* The request fetched its attestation itself.
ReattestedIfUsable(q) == q.raw # None /\ q.rep.usable = "pass"   \* mutant
Reattested(q) == q.raw # None

\* clearE2EEFailureIfFresh: with the marker set, only a request that
\* re-attested goes on, and clears the marker.
Gate(r) ==
  /\ req[r].pc = "gate"
  /\ \/ /\ ~failed
        /\ Set(r, [req[r] EXCEPT !.pc = "build"])
        /\ UNCHANGED failed
     \/ /\ failed /\ Reattested(req[r])
        /\ failed' = FALSE
        /\ Set(r, [req[r] EXCEPT !.pc = "build"])
     \/ /\ failed /\ ~Reattested(req[r])
        /\ Set(r, [req[r] EXCEPT !.pc = "wipe"])
        /\ UNCHANGED failed
  /\ UNCHANGED <<prov, cache, keyCache, neg>>

(***************************************************************************)
(* doUpstreamRoundtrip and buildUpstreamBody                               *)
(***************************************************************************)

\* raw is the request's own attestation only on the very first attempt.
FreshRawAlways(q) == q.raw # None   \* mutant: retries keep the raw attestation
FreshRaw(q) == q.raw # None /\ q.relayTry = 1 /\ q.sendTry = 1

\* The body is encrypted to k; material taken from raw uses up its nonce.
Encrypted(q, k, bound, nonce) ==
  [q EXCEPT !.pc = "send", !.sess = [key |-> k, bound |-> bound, nonce |-> nonce]]
EncryptedToRaw(q) ==
  [Encrypted(q, q.raw.key, q.raw.bound, q.raw.nonce) EXCEPT !.raw.nonce = "spent"]

\* !e2eeActive: plaintext, which a provider with E2EE refuses to send.
RefusePlaintext == prov.e2ee
BuildPlain(r) ==
  /\ req[r].pc = "build" /\ ~req[r].active
  /\ \/ RefusePlaintext /\ Set(r, BuildError(req[r], FALSE))
     \/ ~RefusePlaintext /\ Set(r, [req[r] EXCEPT !.pc = "send"])
  /\ UNCHANGED <<prov, cache, keyCache, neg, failed>>

\* The attestation this request fetched supplies the key.
BuildFromRaw(r) ==
  /\ req[r].pc = "build" /\ req[r].active /\ FreshRaw(req[r])
  /\ Set(r, IF req[r].raw.key = NoKey THEN BuildError(req[r], FALSE)
                                      ELSE EncryptedToRaw(req[r]))
  /\ UNCHANGED <<prov, cache, keyCache, neg, failed>>

\* The nonce pool is only consulted with a cached key, and its material only
\* used when its key is the cached one (else the pool is invalidated); other
\* providers use the cached key itself.  Failing that, fetch an attestation.
BuildFromCache(r) ==
  LET q == req[r] IN
  /\ q.pc = "build" /\ q.active /\ ~FreshRaw(q)
  /\ \/ /\ Hit(keyCache)
        /\ Set(r, Encrypted(q, keyCache.key, keyCache.bound, "fresh"))
     \/ /\ ~Hit(keyCache) \/ prov.pool
        /\ Set(r, [q EXCEPT !.pc = "fetchkey"])
  /\ UNCHANGED <<prov, cache, keyCache, neg, failed>>

\* FetchAttestation, the quote parsed offline and REPORTDATA checked: an
\* attestation that does not bind its key is an error and is not cached.
AcceptKeyUnverified(d) == TRUE   \* mutant
AcceptKey(d) == d.bound
FetchKey(r) ==
  /\ req[r].pc = "fetchkey"
  /\ \/ /\ \E cancelled \in BOOLEAN : Set(r, BuildError(req[r], cancelled))
        /\ UNCHANGED keyCache
     \/ \E d \in Docs :
          /\ AcceptKey(d)
          /\ keyCache' = [key |-> d.key, bound |-> d.bound, age |-> 0]
          /\ \/ Set(r, Encrypted(req[r], d.key, d.bound, "fresh"))
             \/ Set(r, BuildError(req[r], FALSE))   \* the body cannot be encrypted
  /\ UNCHANGED <<prov, cache, neg, failed>>

\* The model's upstream cannot be resolved, or the body cannot be encrypted.
BuildFails(r) ==
  /\ req[r].pc = "build"
  /\ \/ req[r].sendTry = 1 /\ Set(r, UpstreamError(req[r]))
     \/ /\ req[r].active /\ (FreshRaw(req[r]) \/ Hit(keyCache))
        /\ Set(r, BuildError(req[r], FALSE))
  /\ UNCHANGED <<prov, cache, keyCache, neg, failed>>

\* chutesRetryableError
Retryable(o) == o \in {"neterror", "5xx"}

\* verifyUpstreamTLSBinding runs when this attempt holds the raw attestation.
ChecksPeer(q) == prov.tls /\ q.raw # None /\ q.relayTry = 1

\* The request or its headers cannot be built: nothing is sent.
PrepareFails(r) ==
  /\ req[r].pc = "send"
  /\ Set(r, UpstreamError(req[r]))
  /\ UNCHANGED <<prov, cache, keyCache, neg, failed>>

\* upstreamClient.Do.  A TLS peer that is not the attested one makes the
\* proxy drop its caches; a retryable failure goes to another instance while
\* attempts remain; otherwise an answer, whatever its status, goes on.
Send(r) ==
  LET q == [req[r] EXCEPT !.sends = @ + 1] IN
  /\ q.pc = "send"
  /\ \E o \in {"cancelled", "neterror", "5xx", "4xx", "200"},
        peer \in IF prov.tls THEN {"attested", "other"} ELSE {"attested"} :
       LET answered == o \notin {"cancelled", "neterror"} IN
       \/ /\ answered /\ ChecksPeer(q) /\ peer = "other"
          /\ \/ Set(r, [Zeroed(q) EXCEPT !.pc = "wipe"])
             \/ Set(r, UpstreamError(q))  \* no TLS state at all
       \/ /\ ~(answered /\ ChecksPeer(q) /\ peer = "other")
          /\ \/ /\ Retryable(o) /\ q.sendTry < MaxTry(q)
                /\ Set(r, NextSend(q))
             \/ /\ ~(Retryable(o) /\ q.sendTry < MaxTry(q)) /\ ~answered
                /\ Set(r, UpstreamError(q))
             \/ /\ ~(Retryable(o) /\ q.sendTry < MaxTry(q)) /\ answered
                /\ Set(r, [q EXCEPT !.pc = "relay", !.peer = peer,
                                    !.resp = IF o = "200" THEN "ok" ELSE "status"])
  /\ UNCHANGED <<prov, cache, keyCache, neg, failed>>

(***************************************************************************)
(* relayWithRetry                                                          *)
(***************************************************************************)

\* A non-200 answer is forwarded as it is.
ForwardStatus(r) ==
  /\ req[r].pc = "relay" /\ req[r].resp = "status"
  /\ Set(r, Fail(Zeroed(req[r])))
  /\ UNCHANGED <<prov, cache, keyCache, neg, failed>>

\* What a relay function may return, and whether it sent headers: nil with a
\* relayed body, or (RelayStreamChutes) nil with an empty stream and nothing
\* sent; ErrRelayFailed; ErrDecryptionFailed.  The Chutes relays leave the
\* client alone when they fail before the first chunk.
Decrypts(q) == q.sess # None /\ ~prov.ehbp
RelayOutcomes(q) ==
  {<<"ok", 1>>, <<"relay", 1>>}
  \cup (IF Chutes(q) THEN {<<"empty", 0>>, <<"relay", 0>>, <<"decrypt", 0>>} ELSE {})
  \cup (IF Decrypts(q) THEN {<<"decrypt", 1>>} ELSE {})

\* The relay succeeded: e2ee_usable is promoted when E2EE was active.
Relayed(q) ==
  IF q.active THEN [Zeroed(q) EXCEPT !.pc = "promote"] ELSE Return(Zeroed(q), "ok")

\* A 200 answer: EHBP is unwrapped first; the sessions of the attempt are
\* zeroed whatever the outcome; a Chutes decryption failure before any header
\* is retried on another instance.  The code also refuses to relay when the
\* Chutes metadata are there without their session, which never happens: the
\* two are set together.
Relay(r) ==
  LET q == req[r] IN
  /\ q.pc = "relay" /\ q.resp = "ok"
  /\ \/ /\ prov.ehbp /\ q.active
        /\ Set(r, [Zeroed(q) EXCEPT !.pc = "mark", !.hdr = @ + 1])
     \/ \E o \in RelayOutcomes(q) :
          LET p == [q EXCEPT !.hdr = @ + o[2]] IN
          \/ /\ o[1] \in {"ok", "empty"}
             /\ Set(r, Relayed(p))
          \/ /\ o[1] = "relay"
             /\ Set(r, Fail(Zeroed(p)))
          \/ /\ o[1] = "decrypt" /\ p.relayTry < MaxTry(p) /\ p.hdr = 0
             /\ Set(r, NextRelay(p))
          \/ /\ o[1] = "decrypt" /\ ~(p.relayTry < MaxTry(p) /\ p.hdr = 0)
             /\ Set(r, [Zeroed(p) EXCEPT !.pc = "mark"])
  /\ UNCHANGED <<prov, cache, keyCache, neg, failed>>

\* MarkE2EEUsable turns Skip into Pass and nothing else.
MarkE2EEUsable(report) ==
  IF report.usable = "skip" THEN [report EXCEPT !.usable = "pass"] ELSE report

\* handleEndpoint after a successful E2EE relay: the request's report, with
\* e2ee_usable promoted, is put back in the cache.
Promote(r) ==
  /\ req[r].pc = "promote"
  /\ cache' = [rep |-> MarkE2EEUsable(req[r].rep), age |-> 0]
  /\ Set(r, Return(req[r], "ok"))
  /\ UNCHANGED <<prov, keyCache, neg, failed>>

(***************************************************************************)
(* handleE2EEDecryptionFailure and the other cache invalidations           *)
(***************************************************************************)

\* Chutes invalidates its nonce pool; other providers set the marker.
Mark(r) ==
  /\ req[r].pc = "mark"
  /\ failed' = IF prov.pool THEN failed ELSE TRUE
  /\ Set(r, [req[r] EXCEPT !.pc = "demote"])
  /\ UNCHANGED <<prov, cache, keyCache, neg>>

\* The cached report, if any, is read and a clone of it, with e2ee_usable
\* failed, put in its place; the entry may have changed in between.  The
\* clone takes the place of the request's own report and attestation, which
\* are not used again.
Demote(r) ==
  /\ req[r].pc = "demote"
  /\ \/ /\ Hit(cache)
        /\ Set(r, [req[r] EXCEPT !.pc = "putdemoted", !.raw = None,
                                 !.rep = [cache.rep EXCEPT !.usable = "fail"]])
     \/ /\ ~Hit(cache)
        /\ Set(r, [req[r] EXCEPT !.pc = "wipe"])
  /\ UNCHANGED <<prov, cache, keyCache, neg, failed>>

PutDemoted(r) ==
  /\ req[r].pc = "putdemoted"
  /\ cache' = [rep |-> req[r].rep, age |-> 0]
  /\ Set(r, [req[r] EXCEPT !.pc = "wipe"])
  /\ UNCHANGED <<prov, keyCache, neg, failed>>

\* mutant: the report is left in the cache
WipeNothing(r) ==
  /\ req[r].pc = "wipe"
  /\ Set(r, [req[r] EXCEPT !.pc = "wipekey"])
  /\ UNCHANGED <<prov, cache, keyCache, neg, failed>>

\* s.cache.Delete, then s.signingKeyCache.Delete and the reply.
Wipe(r) ==
  /\ req[r].pc = "wipe"
  /\ cache' = None
  /\ Set(r, [req[r] EXCEPT !.pc = "wipekey"])
  /\ UNCHANGED <<prov, keyCache, neg, failed>>

WipeKey(r) ==
  /\ req[r].pc = "wipekey"
  /\ keyCache' = None
  /\ Set(r, Fail(req[r]))
  /\ UNCHANGED <<prov, cache, neg, failed>>

(***************************************************************************)
(* Time                                                                    *)
(***************************************************************************)
Aged(entry) == IF entry = None THEN None ELSE [entry EXCEPT !.age = Older(@)]

Tick ==
  /\ cache' = Aged(cache)
  /\ keyCache' = Aged(keyCache)
  /\ neg' = IF neg < NegTTL THEN neg + 1 ELSE neg
  /\ UNCHANGED <<prov, failed, req>>

(***************************************************************************)
(* Other models.  A Put or a Record for a new key, into a cache that holds *)
(* maxCacheEntries entries, evicts the oldest one, which may be the entry  *)
(* of this model.                                                          *)
(***************************************************************************)
EvictReport ==
  /\ cache # None
  /\ cache' = None
  /\ UNCHANGED <<prov, keyCache, neg, failed, req>>

EvictKey ==
  /\ keyCache # None
  /\ keyCache' = None
  /\ UNCHANGED <<prov, cache, neg, failed, req>>

EvictFailure ==
  /\ neg # NegTTL
  /\ neg' = NegTTL
  /\ UNCHANGED <<prov, cache, keyCache, failed, req>>

Evict == EvictReport \/ EvictKey \/ EvictFailure

(***************************************************************************)
(* Specification                                                           *)
(***************************************************************************)

\* What the goroutine does once its request has arrived.
Step(r) ==
  \/ Lookup(r) \/ Attest(r) \/ Store(r) \/ Admit(r) \/ Gate(r)
  \/ BuildPlain(r) \/ BuildFromRaw(r) \/ BuildFromCache(r) \/ FetchKey(r) \/ BuildFails(r)
  \/ PrepareFails(r) \/ Send(r) \/ ForwardStatus(r) \/ Relay(r) \/ Promote(r)
  \/ Mark(r) \/ Demote(r) \/ PutDemoted(r) \/ Wipe(r) \/ WipeKey(r)

Next == \/ \E r \in Requests : Arrive(r) \/ Step(r)
        \/ Tick
        \/ Evict

\* Goroutines run; every network call they make is under a context deadline or
\* goes through an HTTP client with a timeout.
Fairness == \A r \in Requests : WF_vars(Step(r))

Spec == Init /\ [][Next]_vars /\ Fairness

\* For recovery, in addition: clients keep asking, time passes, and an
\* attestation that is asked for again and again is good again and again.
GoodArrive(r) == Arrive(r) /\ req'[r].pc = "lookup"
GoodAttest(r) == Attest(r) /\ req'[r].pc = "store" /\ req'[r].rep.bound /\ ~req'[r].rep.blocked

RecoverySpec == /\ Spec
                /\ WF_vars(Tick)
                /\ \A r \in Requests : SF_vars(GoodArrive(r)) /\ SF_vars(GoodAttest(r))

(***************************************************************************)
(* Properties                                                              *)
(***************************************************************************)

\* Nothing is ever sent to an E2EE provider except encrypted to a key that a
\* verified REPORTDATA binds, whatever other requests put in or drop from the
\* caches between the steps of this one.
SentOnlyToBoundKey ==
  \A r \in Requests :
    prov.e2ee /\ req[r].pc \in {"send", "relay"} => req[r].sess # None /\ req[r].sess.bound

\* A request is only forwarded under a report that no enforced factor blocks.
ForwardedOnlyIfVerified ==
  \A r \in Requests :
    req[r].pc \in {"gate", "build", "fetchkey", "send", "relay", "promote"}
      => ~Blocked(req[r].rep) \/ Forced

\* No retry, of the upstream call or of the relay, encrypts with a nonce that
\* an earlier attempt already used.
NonceNeverReused ==
  \A r \in Requests : req[r].sess # None => req[r].sess.nonce = "fresh"

\* When a handler returns, no session key survives it.
SessionsZeroed == \A r \in Requests : req[r].pc = "idle" => req[r].sess = None

\* The client gets one response: never two headers, and every failure is
\* reported however many attempts preceded it.
AnsweredOnce ==
  \A r \in Requests : /\ req[r].hdr <= 1
                      /\ req[r].pc = "idle" /\ req[r].out = "failed" => req[r].hdr = 1

\* The two nested retry loops bound the upstream calls of one request, by the
\* square of chutesMaxAttempts.
SendsBounded ==
  \A r \in Requests :
    req[r].sends <= IF prov.pool THEN MaxAttempts * MaxAttempts ELSE 1

\* Every request that arrives is answered.
EveryRequestReturns ==
  \A r \in Requests : []<>(req[r].pc = "idle")

\* The E2EE-failure marker cannot stay for ever: while requests keep coming
\* and the upstream can be attested, some request re-attests and clears it,
\* even though every other request fails until then and drops the caches.
MarkerIsCleared == []<>(~failed)

(***************************************************************************)
(* What a comment claims, checked by the run that refutes it               *)
(***************************************************************************)

\* "chutesMaxAttempts is the maximum number of Chutes E2EE upstream attempts":
\* no request is posted more often.
AttemptsWithinMaximum == \A r \in Requests : req[r].sends <= MaxAttempts

(***************************************************************************)
(* The inductive invariant behind the safety properties, as predicates on  *)
(* the locals q of one handler goroutine                                   *)
(***************************************************************************)

\* Where the goroutine holds a report: from the fetched or cached one to the
\* end of the relay, and while it puts back the demoted clone.
Reported == {"store", "admit", "gate", "build", "fetchkey", "send", "relay", "promote",
             "putdemoted"}
Forwarding == {"gate", "build", "fetchkey", "send", "relay", "promote"}

\* A request that goes on has a report, which enforceReport let pass.
ReportedInv(q) ==
  /\ q.pc \in Reported => q.rep \in Report
  /\ q.pc \in Forwarding => ~Blocked(q.rep) \/ Forced

\* E2EE is active only where the report binds the key.
ActiveInv(q) == q.pc \in Forwarding /\ q.active => q.rep.bound

\* A session exists between the encryption and the end of the attempt.
SessionInv(q) == q.sess # None => q.pc \in {"send", "relay"}

\* The client has seen nothing before the relay, and one response at the end.
AnswerInv(q) ==
  /\ q.hdr <= 1
  /\ q.pc \notin {"idle", "promote", "mark", "demote", "putdemoted", "wipe", "wipekey"} => q.hdr = 0
  /\ q.pc = "idle" /\ q.out = "failed" => q.hdr = 1

\* Once its nonce is spent, the attestation is not used to encrypt again.
NonceInv(q) ==
  /\ q.sess # None => q.sess.nonce = "fresh"
  /\ q.raw # None /\ q.raw.nonce = "spent"
       => q.pc \notin {"store", "admit", "gate", "build"} \/ q.relayTry > 1 \/ q.sendTry > 1

\* The request's own attestation is the one its report is about.
RawInv(q) == q.raw # None => /\ q.pc # "lookup"
                             /\ q.rep \in Report /\ q.raw.bound = q.rep.bound

RequestInv(q) == /\ q \in Request
                 /\ ReportedInv(q) /\ ActiveInv(q) /\ SessionInv(q)
                 /\ AnswerInv(q) /\ NonceInv(q) /\ RawInv(q)

Inv == TypeOK /\ \A r \in Requests : RequestInv(req[r])

\* A request has made the POSTs of the relay attempts before this one and of
\* this one's sends; only Chutes with E2EE ever gets to another attempt.
CountInv(q) ==
  /\ q.pc \in {"idle", "lookup", "attest", "store", "admit", "gate"}
       => q.sends = 0 /\ q.relayTry = 1 /\ q.sendTry = 1
  /\ ~Chutes(q) => q.relayTry = 1 /\ q.sendTry = 1
  /\ q.sends <= (q.relayTry - 1) * MaxAttempts + q.sendTry
  /\ q.pc \in {"build", "fetchkey", "send"} => q.sends < (q.relayTry - 1) * MaxAttempts + q.sendTry

\* The factor tee_reportdata_binding is enforced and --force is not given.
BindingEnforced == ~Forced /\ \A d \in Docs : d.bound \/ d.blocked

BoundRequest(q) ==
  /\ q.pc \in Reported => q.rep.bound \/ q.rep.blocked
  /\ q.sess # None => q.sess.bound
  /\ prov.e2ee /\ q.pc \in {"send", "relay"} => q.sess # None

\* Under BindingEnforced, no unbound key gets into the caches or a session.
BoundInv ==
  /\ cache # None => cache.rep.bound \/ cache.rep.blocked
  /\ keyCache # None => keyCache.bound
  /\ \A r \in Requests : BoundRequest(req[r])

(***************************************************************************)
(* The refinement                                                          *)
(***************************************************************************)

\* A body at the upstream is sealed if its session encrypts to a bound key
\* with a nonce of its own; only a provider without E2EE may see it plain.
Sent(q) == CASE q.sess # None /\ q.sess.bound /\ q.sess.nonce = "fresh" -> "sealed"
             [] q.sess = None /\ ~prov.e2ee -> "plain"
             [] OTHER -> "leaked"

Phase(q) == CASE q.pc = "idle" -> "idle"
              [] q.pc = "send" -> Sent(q)
              [] q.pc = "relay" -> IF q.resp = "ok" THEN "relaying" ELSE "closing"
              [] q.pc \in {"promote", "mark", "demote", "putdemoted", "wipe", "wipekey"} -> "closing"
              [] OTHER -> "held"

Verdict(q) == q.rep \in Report /\ (~Blocked(q.rep) \/ Forced)

\* With the binding factor enforced, the handlers of the shared client
\* implement Exchange: whatever the caches, the retries and the other requests
\* do, a body is sealed anew for every attempt, and an answer is relayed only
\* after such an exchange and under a report that was let pass.
Exchanges == INSTANCE Exchange WITH
               sealing <- prov.e2ee,
               phase <- [r \in Requests |-> Phase(req[r])],
               verdict <- [r \in Requests |-> Verdict(req[r])]

ImplementsExchange == Exchanges!Spec

=============================================================================
