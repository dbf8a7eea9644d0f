----------------------------- MODULE PinnedPath -----------------------------
(***************************************************************************)
(* One inference request through a connection-pinned provider (neardirect, *)
(* nearcloud): the proxy's handlePinnedChat and handlePinnedNonChat, the   *)
(* provider's HandlePinned, and the SPKI cache with its singleflight       *)
(* group.  The backend is attested on the very TLS connection that carries *)
(* the request; a connection whose SPKI is pinned skips the attestation.   *)
(*                                                                         *)
(* Each step of a handler goroutine makes at most one access to the state  *)
(* the goroutines share.                                                   *)
(*                                                                         *)
(* Abstractions.  A signing key is named by the model whose attestation    *)
(* carries it.  Time is left out: an entry of any cache may expire, or be  *)
(* evicted by the cap on entries, at any moment.  The two handlers differ  *)
(* only in what they relay, so one set of actions stands for both.         *)
(***************************************************************************)
EXTENDS FiniteSets

CONSTANTS
  Requests,        \* handler goroutines
  Models,          \* upstream models, the keys of the proxy's caches
  Peers,           \* TLS peers: [domain, spki]
  None,
  Docs,            \* what an attestation may establish
  Providers,       \* the configurations: a pinned provider, --force or not
  UsableEnforced   \* e2ee_usable is not in the allow_fail list

Domains == {p.domain : p \in Peers}
SPKIs == {p.spki : p \in Peers}

\* keyed: a signing key is present; bound: REPORTDATA binds it; blocked: some
\* enforced factor other than e2ee_usable fails.
Doc == [keyed : BOOLEAN, bound : BOOLEAN, blocked : BOOLEAN]

\* domains: what Resolve may answer for a model.  The nearcloud gateway is one
\* domain; a neardirect model may move when the endpoint list is refreshed.
\* force is cfg.Force.
Provider == [e2ee : BOOLEAN, force : BOOLEAN, domains : [Models -> (SUBSET Domains) \ {{}}]]

ASSUME PinnedDocsAssumption == /\ Docs \subseteq Doc
                               \* VerifyReportData rejects an empty signing key
                               /\ \A d \in Docs : d.bound => d.keyed
ASSUME PinnedNullAssumption == /\ None \notin Requests \cup Models \cup Peers
                               /\ None \notin [of : Models, bound : BOOLEAN]
                               /\ None \notin [of : Models, bound : BOOLEAN, blocked : BOOLEAN,
                                               usable : {"skip", "pass", "fail"}]
ASSUME PinnedFlagAssumption == /\ UsableEnforced \in BOOLEAN
                               /\ Providers \subseteq Provider
                               /\ Peers \subseteq [domain : Domains, spki : SPKIs]

VARIABLES
  prov,      \* the provider; it never changes
  cache,     \* Server.cache: the report of each model, or None
  keyCache,  \* Server.signingKeyCache
  neg,       \* Server.negCache: the models blocked
  failed,    \* Server.e2eeFailed: the models marked
  pinned,    \* attestation.SPKICache: the peers pinned
  flight,    \* PinnedHandler.verifySF: the leader of the call for a peer
  req,       \* the local variables of each handler goroutine
  vouched    \* ghost: the peers that an attestation which passed has named

shared == <<cache, keyCache, neg, failed, pinned, flight, vouched>>
vars == <<prov, cache, keyCache, neg, failed, pinned, flight, req, vouched>>

(***************************************************************************)
(* Types                                                                   *)
(***************************************************************************)

Report == [of : Models, bound : BOOLEAN, blocked : BOOLEAN, usable : {"skip", "pass", "fail"}]
Key == [of : Models, bound : BOOLEAN]

PCs == {"idle", "pre", "evict", "key", "dial", "check", "join", "wait", "recheck", "attest",
        "add", "land", "encrypt", "send", "store", "marker", "clear", "putkey", "relay",
        "promote", "mark", "demote", "putdemoted", "wipe", "wipekey", "record"}

Request ==
  [pc    : PCs,
   model : Models \cup {None},
   dom   : Domains \cup {None},     \* the domain to evict
   skey  : Key \cup {None},         \* PinnedRequest.SigningKey
   peer  : Peers \cup {None},       \* the connection
   rep   : Report \cup {None},      \* the report
   key   : Key \cup {None},         \* PinnedResponse.SigningKey
   err   : BOOLEAN,                 \* the singleflight call failed
   fresh : BOOLEAN,                 \* PinnedResponse.Report # nil
   sess  : Key \cup {None},         \* the session, by the key it encrypts to
   resp  : {"none", "ok", "status"}]

TypeOK ==
  /\ prov \in Providers
  /\ cache \in [Models -> Report \cup {None}]
  /\ keyCache \in [Models -> Key \cup {None}]
  /\ neg \subseteq Models /\ failed \subseteq Models
  /\ pinned \subseteq Peers
  /\ flight \in [Peers -> Requests \cup {None}]
  /\ req \in [Requests -> Request]
  /\ vouched \subseteq Peers

Idle == [pc |-> "idle", model |-> None, dom |-> None, skey |-> None, peer |-> None,
         rep |-> None, key |-> None, err |-> FALSE, fresh |-> FALSE, sess |-> None,
         resp |-> "none"]

Init ==
  /\ prov \in Providers
  /\ cache = [m \in Models |-> None]
  /\ keyCache = [m \in Models |-> None]
  /\ neg = {} /\ failed = {} /\ pinned = {} /\ vouched = {}
  /\ flight = [p \in Peers |-> None]
  /\ req = [r \in Requests |-> Idle]

\* VerificationReport.Blocked
Blocked(report) == report.blocked \/ (UsableEnforced /\ report.usable = "fail")

Set(r, q) == req' = [req EXCEPT ![r] = q]
Goto(r, pc) == Set(r, [req[r] EXCEPT !.pc = pc])

\* Go to a step from which on only the model is used.
Drop(q, pc) == [Idle EXCEPT !.pc = pc, !.model = q.model]

(***************************************************************************)
(* The proxy before the pinned request                                     *)
(***************************************************************************)

\* handleEndpoint: the negative cache, then handlePinnedChat or
\* handlePinnedNonChat.
Arrive(r) ==
  /\ req[r].pc = "idle"
  /\ \E m \in Models :
       Set(r, IF m \in neg THEN Idle
                           ELSE [Idle EXCEPT !.pc = "pre", !.model = m])
  /\ UNCHANGED <<prov, shared>>

\* pinnedPreDispatchE2EE up to DeleteDomain: a cached report must bind the
\* key; without one the model's domain is to be evicted, or the request fails
\* if the domain cannot be resolved.
PreDispatch(r) ==
  LET q == req[r] IN
  /\ q.pc = "pre"
  /\ \/ ~prov.e2ee /\ Goto(r, "dial")
     \/ /\ prov.e2ee /\ cache[q.model] # None
        /\ Set(r, IF cache[q.model].bound THEN [q EXCEPT !.pc = "key"] ELSE Idle)
     \/ /\ prov.e2ee /\ cache[q.model] = None
        /\ \/ \E d \in prov.domains[q.model] : Set(r, [q EXCEPT !.pc = "evict", !.dom = d])
           \/ Set(r, Idle)
  /\ UNCHANGED <<prov, shared>>

\* SPKICache.DeleteDomain
DeleteDomain(r) ==
  /\ req[r].pc = "evict"
  /\ pinned' = {p \in pinned : p.domain # req[r].dom}
  /\ Set(r, [req[r] EXCEPT !.pc = "key", !.dom = None])
  /\ UNCHANGED <<prov, cache, keyCache, neg, failed, flight, vouched>>

\* signingKeyCache.Get
GetKey(r) ==
  /\ req[r].pc = "key"
  /\ Set(r, [req[r] EXCEPT !.pc = "dial", !.skey = keyCache[req[r].model]])
  /\ UNCHANGED <<prov, shared>>

(***************************************************************************)
(* PinnedHandler.HandlePinned                                              *)
(***************************************************************************)

\* Resolve the model, dial, check certificate transparency.
Dial(r) ==
  /\ req[r].pc = "dial"
  /\ \/ Set(r, Drop(req[r], "record"))
     \/ \E p \in Peers :
          /\ p.domain \in prov.domains[req[r].model]
          /\ Set(r, [req[r] EXCEPT !.pc = "check", !.peer = p])
  /\ UNCHANGED <<prov, shared>>

\* SPKICache.Contains
Check(r) ==
  /\ req[r].pc = "check"
  /\ Goto(r, IF req[r].peer \in pinned THEN "encrypt" ELSE "join")
  /\ UNCHANGED <<prov, shared>>

\* verifySF.Do, whose key is the domain and the SPKI: lead the call, or wait
\* for whoever does.
Join(r) ==
  LET p == req[r].peer IN
  /\ req[r].pc = "join"
  /\ \/ /\ flight[p] = None
        /\ flight' = [flight EXCEPT ![p] = r]
        /\ Goto(r, "recheck")
     \/ /\ flight[p] # None
        /\ Goto(r, "wait")
        /\ UNCHANGED flight
  /\ UNCHANGED <<prov, cache, keyCache, neg, failed, pinned, vouched>>

\* errAlreadyCached: another call pinned the peer in the meantime.
Recheck(r) ==
  /\ req[r].pc = "recheck"
  /\ Goto(r, IF req[r].peer \in pinned THEN "land" ELSE "attest")
  /\ UNCHANGED <<prov, shared>>

NewReport(m, d) == [of |-> m, bound |-> d.bound, blocked |-> d.blocked, usable |-> "skip"]
NewKey(m, d) == IF d.keyed THEN [of |-> m, bound |-> d.bound] ELSE None

\* "Connection trust anchor": the attestation names the live SPKI.
AnySPKI(peer, fingerprint) == TRUE   \* mutant
MatchesSPKI(peer, fingerprint) == fingerprint = peer.spki

\* attestOnConn: an exchange that fails, an attestation of another SPKI, or a
\* report and the model's signing key; a blocked report is returned without
\* pinning the peer.
AttestOnConn(r) ==
  LET q == req[r] IN
  /\ q.pc = "attest"
  /\ \/ Set(r, [q EXCEPT !.pc = "land", !.err = TRUE]) /\ UNCHANGED vouched
     \/ \E d \in Docs, fingerprint \in SPKIs :
          \/ /\ ~MatchesSPKI(q.peer, fingerprint)
             /\ Set(r, [q EXCEPT !.pc = "land", !.err = TRUE])
             /\ UNCHANGED vouched
          \/ /\ MatchesSPKI(q.peer, fingerprint)
             /\ LET report == NewReport(q.model, d) IN
                /\ Set(r, [q EXCEPT !.pc = IF Blocked(report) THEN "land" ELSE "add",
                                    !.rep = report, !.key = NewKey(q.model, d)])
                /\ vouched' = IF Blocked(report) THEN vouched
                                ELSE vouched \cup {p \in Peers : /\ p.domain = q.peer.domain
                                                             /\ p.spki = fingerprint}
  /\ UNCHANGED <<prov, cache, keyCache, neg, failed, pinned, flight>>

\* SPKICache.Add
AddSPKI(r) ==
  /\ req[r].pc = "add"
  /\ pinned' = pinned \cup {req[r].peer}
  /\ Goto(r, "land")
  /\ UNCHANGED <<prov, cache, keyCache, neg, failed, flight, vouched>>

\* The goroutines that get the result of r's call.
LeaderOnly(r) == {r}   \* mutant: the waiters are not woken
Callers(r) == {r} \cup {w \in Requests : req[w].pc = "wait" /\ req[w].peer = req[r].peer}

\* The call ends: the leader and the waiters share its report, key and error.
Land(r) ==
  LET q == req[r] IN
  /\ q.pc = "land"
  /\ flight' = [flight EXCEPT ![q.peer] = None]
  /\ req' = [w \in Requests |->
               IF w \in Callers(r)
                 THEN IF q.err THEN Drop(req[w], "record")
                      ELSE [req[w] EXCEPT !.pc = "encrypt", !.rep = q.rep, !.key = q.key]
                 ELSE req[w]]
  /\ UNCHANGED <<prov, cache, keyCache, neg, failed, pinned, vouched>>

\* The key to encrypt to: the one just attested, else the caller's cached one.
SessionKey(q) == IF q.key # None THEN q.key ELSE q.skey

\* encryptBody: E2EE needs a report that binds the key, if there is one, and a
\* key; it never falls back to plaintext.
IgnoreBinding(q) == SessionKey(q) # None   \* mutant
CanEncrypt(q) == (q.rep # None => q.rep.bound) /\ SessionKey(q) # None

\* HandlePinned after the attestation: a blocked report becomes an empty 502;
\* else the body is encrypted, or left plain for a provider without E2EE.
EncryptBody(r) ==
  LET q == req[r]
      refused == q.rep # None /\ Blocked(q.rep)
  IN
  /\ q.pc = "encrypt"
  /\ \/ refused /\ Set(r, [q EXCEPT !.pc = "store", !.resp = "status",
                                     !.peer = None, !.skey = None])
     \/ ~refused /\ ~prov.e2ee /\ Set(r, [q EXCEPT !.pc = "send", !.skey = None])
     \/ /\ ~refused /\ prov.e2ee /\ CanEncrypt(q)
        /\ Set(r, [q EXCEPT !.pc = "send", !.sess = SessionKey(q), !.skey = None])
     \/ ~refused /\ prov.e2ee /\ Set(r, Drop(req[r], "record"))   \* or the encryption fails
  /\ UNCHANGED <<prov, shared>>

\* mutant: a failed exchange is retried on a new connection, without bound
RetryForever(r) ==
  /\ req[r].pc = "send"
  /\ \/ Set(r, [req[r] EXCEPT !.pc = "dial", !.sess = None])
     \/ \E resp \in {"ok", "status"} :
          Set(r, [req[r] EXCEPT !.pc = "store", !.resp = resp, !.peer = None])
  /\ UNCHANGED <<prov, shared>>

\* WriteHTTPRequest and http.ReadResponse on the attested connection.
SendRequest(r) ==
  /\ req[r].pc = "send"
  /\ \/ Set(r, Drop(req[r], "record"))
     \/ \E resp \in {"ok", "status"} :
          Set(r, [req[r] EXCEPT !.pc = "store", !.resp = resp, !.peer = None])
  /\ UNCHANGED <<prov, shared>>

(***************************************************************************)
(* The proxy after the pinned request                                      *)
(***************************************************************************)

\* enforceReport; a nil report passes.
Enforce(report) == report = None \/ ~Blocked(report) \/ prov.force

\* pinnedPostDispatchE2EE up to the marker.
PassNilReport(report) == prov.e2ee /\ report # None => report.bound   \* mutant
PostDispatch(report) == prov.e2ee => report # None /\ report.bound

\* The request's own report is cached, or else the cached one is used; then
\* the report is enforced.
StoreReport(r) ==
  LET q == req[r]
      report == IF q.rep # None THEN q.rep ELSE cache[q.model]
  IN
  /\ q.pc = "store"
  /\ cache' = [cache EXCEPT ![q.model] = report]
  /\ Set(r, IF ~Enforce(report) \/ ~PostDispatch(report) THEN Drop(q, "record")
            ELSE [q EXCEPT !.pc = IF prov.e2ee THEN "marker" ELSE "putkey",
                           !.rep = report, !.fresh = q.rep # None])
  /\ UNCHANGED <<prov, keyCache, neg, failed, pinned, flight, vouched>>

\* The request got a report from an attestation.
AnyReport(q) == TRUE   \* mutant
FreshReport(q) == q.fresh

\* e2eeFailed.Load: with the marker set, a request without a fresh report
\* drops the caches and fails.
CheckMarker(r) ==
  LET q == req[r] IN
  /\ q.pc = "marker"
  /\ Set(r, IF q.model \notin failed THEN [q EXCEPT !.pc = "putkey"]
            ELSE IF FreshReport(q) THEN [q EXCEPT !.pc = "clear"] ELSE Drop(q, "wipe"))
  /\ UNCHANGED <<prov, shared>>

ClearMarker(r) ==
  /\ req[r].pc = "clear"
  /\ failed' = failed \ {req[r].model}
  /\ Goto(r, "putkey")
  /\ UNCHANGED <<prov, cache, keyCache, neg, pinned, flight, vouched>>

\* signingKeyCache.Put
PutKey(r) ==
  LET q == req[r] IN
  /\ q.pc = "putkey"
  /\ keyCache' = IF q.key = None THEN keyCache ELSE [keyCache EXCEPT ![q.model] = q.key]
  /\ Set(r, [q EXCEPT !.pc = "relay", !.key = None, !.fresh = FALSE])
  /\ UNCHANGED <<prov, cache, neg, failed, pinned, flight, vouched>>

\* A non-200 answer is forwarded; a 200 one is relayed, which succeeds, fails,
\* or finds an encrypted field that cannot be decrypted.
Relay(r) ==
  LET q == req[r] IN
  /\ q.pc = "relay"
  /\ \/ q.resp = "status" /\ Set(r, Idle)
     \/ q.resp = "ok" /\ Set(r, Idle)
     \/ /\ q.resp = "ok"
        /\ Set(r, IF q.sess # None /\ q.rep # None THEN [q EXCEPT !.pc = "promote"]
                                                   ELSE Idle)
     \/ q.resp = "ok" /\ q.sess # None /\ Set(r, Drop(q, "mark"))
  /\ UNCHANGED <<prov, shared>>

\* MarkE2EEUsable turns Skip into Pass and nothing else.
MarkE2EEUsable(report) ==
  IF report.usable = "skip" THEN [report EXCEPT !.usable = "pass"] ELSE report

Promote(r) ==
  /\ req[r].pc = "promote"
  /\ cache' = [cache EXCEPT ![req[r].model] = MarkE2EEUsable(req[r].rep)]
  /\ Set(r, Idle)
  /\ UNCHANGED <<prov, keyCache, neg, failed, pinned, flight, vouched>>

\* handlePinnedPostRelay on a decryption failure: set the marker, demote the
\* cached report (a Get, then a Put), drop the report and the key.
Mark(r) ==
  /\ req[r].pc = "mark"
  /\ failed' = failed \cup {req[r].model}
  /\ Goto(r, "demote")
  /\ UNCHANGED <<prov, cache, keyCache, neg, pinned, flight, vouched>>

Demote(r) ==
  LET cached == cache[req[r].model] IN
  /\ req[r].pc = "demote"
  /\ Set(r, IF cached = None
              THEN Drop(req[r], "wipe")
              ELSE [req[r] EXCEPT !.pc = "putdemoted", !.rep = [cached EXCEPT !.usable = "fail"]])
  /\ UNCHANGED <<prov, shared>>

PutDemoted(r) ==
  /\ req[r].pc = "putdemoted"
  /\ cache' = [cache EXCEPT ![req[r].model] = req[r].rep]
  /\ Set(r, Drop(req[r], "wipe"))
  /\ UNCHANGED <<prov, keyCache, neg, failed, pinned, flight, vouched>>

Wipe(r) ==
  /\ req[r].pc = "wipe"
  /\ cache' = [cache EXCEPT ![req[r].model] = None]
  /\ Goto(r, "wipekey")
  /\ UNCHANGED <<prov, keyCache, neg, failed, pinned, flight, vouched>>

WipeKey(r) ==
  /\ req[r].pc = "wipekey"
  /\ keyCache' = [keyCache EXCEPT ![req[r].model] = None]
  /\ Set(r, Idle)
  /\ UNCHANGED <<prov, cache, neg, failed, pinned, flight, vouched>>

\* negCache.Record and the error reply.
Record(r) ==
  /\ req[r].pc = "record"
  /\ neg' = neg \cup {req[r].model}
  /\ Set(r, Idle)
  /\ UNCHANGED <<prov, cache, keyCache, failed, pinned, flight, vouched>>

(***************************************************************************)
(* Expiry and eviction                                                     *)
(***************************************************************************)
Expire ==
  /\ \/ /\ \E m \in Models : cache[m] # None /\ cache' = [cache EXCEPT ![m] = None]
        /\ UNCHANGED <<keyCache, neg, pinned>>
     \/ /\ \E m \in Models : keyCache[m] # None /\ keyCache' = [keyCache EXCEPT ![m] = None]
        /\ UNCHANGED <<cache, neg, pinned>>
     \/ /\ \E m \in neg : neg' = neg \ {m}
        /\ UNCHANGED <<cache, keyCache, pinned>>
     \/ /\ \E p \in pinned : pinned' = pinned \ {p}
        /\ UNCHANGED <<cache, keyCache, neg>>
  /\ UNCHANGED <<prov, failed, flight, req, vouched>>

(***************************************************************************)
(* Specification                                                           *)
(***************************************************************************)
Step(r) ==
  \/ PreDispatch(r) \/ DeleteDomain(r) \/ GetKey(r)
  \/ Dial(r) \/ Check(r) \/ Join(r) \/ Recheck(r) \/ AttestOnConn(r) \/ AddSPKI(r) \/ Land(r)
  \/ EncryptBody(r) \/ SendRequest(r)
  \/ StoreReport(r) \/ CheckMarker(r) \/ ClearMarker(r) \/ PutKey(r) \/ Relay(r) \/ Promote(r)
  \/ Mark(r) \/ Demote(r) \/ PutDemoted(r) \/ Wipe(r) \/ WipeKey(r) \/ Record(r)

Next == (\E r \in Requests : Arrive(r) \/ Step(r)) \/ Expire

\* The steps that write to a pinned connection or read from it without a
\* deadline: attestOnConn has one until the headers are there, and clears it
\* before it reads the body; the exchange of the request, and the reading of
\* the body that is relayed, have none.  A peer that stalls there never lets
\* the step end.
Unbounded == {"attest", "send", "relay"}

\* Goroutines run, and a step ends that does not wait on a pinned connection:
\* dialling has a deadline, everything else is local.
Fairness == \A r \in Requests : WF_vars(req[r].pc \notin Unbounded /\ Step(r))

Spec == Init /\ [][Next]_vars /\ Fairness

(***************************************************************************)
(* Properties                                                              *)
(***************************************************************************)

\* A request body is only ever written to a peer that some passing attestation
\* named: over a pin that another request made, as the waiter on another
\* request's attestation, or after evictions, as much as after its own.
SentOnlyToAttestedPeer ==
  \A r \in Requests : req[r].pc = "send" => req[r].peer \in vouched

\* For a provider with E2EE, what is written is encrypted, to a key that a
\* verified REPORTDATA binds, even when the key comes from the cache or from
\* another request's attestation, and even under --force.
SentOnlyToBoundKey ==
  \A r \in Requests :
    prov.e2ee /\ req[r].pc = "send" => req[r].sess # None /\ req[r].sess.bound

\* For a provider with E2EE, no answer reaches the client unless a report that
\* binds the key, and that no enforced factor blocks, is at hand when it does:
\* a report that expired during the request does not let the answer through.
RelayedOnlyUnderReport ==
  \A r \in Requests :
    prov.e2ee /\ req[r].pc \in {"putkey", "relay", "promote"}
      => /\ req[r].rep # None /\ req[r].rep.bound
         /\ ~Blocked(req[r].rep) \/ prov.force

\* A goroutine that waits for an attestation waits for a call that some other
\* goroutine still leads, on a connection to the same peer.
NoOrphanedWaiter ==
  \A r \in Requests :
    req[r].pc = "wait" =>
      LET leader == flight[req[r].peer] IN
      /\ leader # None
      /\ req[leader].pc \in {"recheck", "attest", "add", "land"}
      /\ req[leader].peer = req[r].peer

\* A model's E2EE-failure marker is only removed by a request that holds a
\* report straight from an attestation.
MarkerClearedByFreshReport ==
  [][\A m \in Models : m \in failed /\ m \notin failed' =>
       \E r \in Requests : /\ req[r].pc = "clear" /\ req[r].model = m
                           /\ req[r].fresh /\ req[r].rep.bound]_vars

\* A request is stuck on a peer that stalls: on its own connection, or behind
\* the call that attests the same peer on the connection of another.
Stuck(r) ==
  \/ req[r].pc \in Unbounded
  \/ /\ req[r].pc = "wait"
     /\ \E leader \in Requests : flight[req[r].peer] = leader /\ req[leader].pc = "attest"

\* Every request returns unless the peer that it is connected to stalls: no
\* retry goes on for ever, and neither does a wait for another's attestation
\* once that has failed, was blocked, found the peer pinned, or ended well; a
\* peer that stalls holds up nobody but the requests to it.
EveryRequestReturns ==
  \A r \in Requests : []<>(req[r].pc = "idle") \/ <>[]Stuck(r)

(***************************************************************************)
(* The inductive invariant                                                 *)
(***************************************************************************)

\* The steps on an open connection, and those of the leader of a call.
OnConnection == {"check", "join", "wait", "recheck", "attest", "add", "land", "encrypt", "send"}
Leading == {"recheck", "attest", "add", "land"}

\* What a handler's locals are at each step, for provider pv and vouched peers v.
PlaceInv(q) == /\ q.pc # "idle" => q.model \in Models
               /\ q.pc \in OnConnection => q.peer \in Peers
KeyInv(pv, q) == /\ q.key # None => q.rep # None /\ q.key.bound = q.rep.bound
                 /\ q.pc \in {"mark", "demote"} => q.key = None
                 /\ pv.e2ee /\ q.skey # None => q.skey.bound
PeerInv(v, q) ==
  /\ q.pc \in {"add", "send"} => q.peer \in v
  /\ q.pc = "encrypt" \/ (q.pc = "land" /\ ~q.err)
       => q.peer \in v \/ (q.rep # None /\ Blocked(q.rep))
SessionInv(pv, q) == pv.e2ee /\ q.pc = "send" => q.sess # None /\ q.sess.bound
ReportInv(pv, q) ==
  /\ pv.e2ee /\ q.pc \in {"marker", "clear", "putkey", "relay", "promote"}
       => q.rep # None /\ q.rep.bound
  /\ q.pc \in {"marker", "clear", "putkey", "relay", "promote"}
       => q.rep = None \/ ~Blocked(q.rep) \/ pv.force
  /\ q.pc \in {"marker", "clear"} => pv.e2ee
  /\ q.pc = "clear" => q.fresh
  /\ q.pc = "promote" => q.rep # None

RequestInv(pv, v, q) == /\ q \in Request /\ PlaceInv(q) /\ KeyInv(pv, q) /\ PeerInv(v, q)
                        /\ SessionInv(pv, q) /\ ReportInv(pv, q)

\* Only bound keys are cached for E2EE, and only vouched peers are pinned.
CachesInv == /\ prov.e2ee => \A m \in Models : keyCache[m] # None => keyCache[m].bound
             /\ pinned \subseteq vouched

\* A call has one leader, on a connection to its peer, and every waiter a call.
FlightInv ==
  /\ \A p \in Peers : flight[p] # None => /\ req[flight[p]].pc \in Leading
                                          /\ req[flight[p]].peer = p
  /\ \A r \in Requests : req[r].pc \in Leading => flight[req[r].peer] = r
  /\ \A r \in Requests : req[r].pc = "wait" => flight[req[r].peer] # None

Inv == TypeOK /\ (\A r \in Requests : RequestInv(prov, vouched, req[r])) /\ CachesInv /\ FlightInv

(***************************************************************************)
(* The refinement                                                          *)
(***************************************************************************)

\* A body on the wire is sealed if the session encrypts to a bound key and the
\* peer was vouched for; a provider without E2EE may see it plain.
Sent(q) == IF q.peer \in vouched /\ q.sess # None /\ q.sess.bound THEN "sealed"
           ELSE IF q.peer \in vouched /\ ~prov.e2ee THEN "plain"
           ELSE "leaked"

\* The steps after the answer, and those that only clean up.
Answered == {"store", "marker", "clear", "putkey"}
Closing == {"promote", "mark", "demote", "putdemoted", "wipe", "wipekey", "record"}

Phase(q) == CASE q.pc = "idle" -> "idle"
              [] q.pc = "send" -> Sent(q)
              [] q.pc \in Answered -> IF q.resp = "ok" THEN "answered" ELSE "closing"
              [] q.pc = "relay" -> IF q.resp = "ok" THEN "relaying" ELSE "closing"
              [] q.pc \in Closing -> "closing"
              [] OTHER -> "held"

Verdict(q) == /\ prov.e2ee => q.rep # None /\ q.rep.bound
              /\ q.rep = None \/ ~Blocked(q.rep) \/ prov.force

\* The handlers of pinned connections implement Exchange: a body goes only to
\* a peer that was vouched for, sealed to a bound key if the provider has
\* E2EE, and no answer is relayed without a report that lets it pass.
Exchanges == INSTANCE Exchange WITH
               sealing <- prov.e2ee,
               phase <- [r \in Requests |-> Phase(req[r])],
               verdict <- [r \in Requests |-> Verdict(req[r])]

ImplementsExchange == Exchanges!Spec

(***************************************************************************)
(* What comments and documents claim, checked by the runs that refute it   *)
(***************************************************************************)

\* attestation.go: "SigningKeyCache caches REPORTDATA-verified signing keys by
\* provider+model": the key cached for a model is a key of that model.
KeyOfModel == \A m \in Models : keyCache[m] # None => keyCache[m].of = m

=============================================================================
