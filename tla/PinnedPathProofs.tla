-------------------------- MODULE PinnedPathProofs --------------------------
(***************************************************************************)
(* Proofs of the safety properties of PinnedPath, for every number of      *)
(* concurrent requests, models and peers, every way in which models move   *)
(* between domains and every set of attestation documents.                 *)
(***************************************************************************)
EXTENDS PinnedPath, TLAPS

(***************************************************************************)
(* One handler                                                             *)
(***************************************************************************)

\* The places of a handler.  The leaves below cite this fact: expanding PCs
\* beside the fields of Request makes them slow.
LEMMA Places ==
  /\ "idle" \in PCs /\ "pre" \in PCs /\ "evict" \in PCs /\ "key" \in PCs
  /\ "dial" \in PCs /\ "check" \in PCs /\ "join" \in PCs /\ "wait" \in PCs
  /\ "recheck" \in PCs /\ "attest" \in PCs /\ "add" \in PCs /\ "land" \in PCs
  /\ "encrypt" \in PCs /\ "send" \in PCs /\ "store" \in PCs /\ "marker" \in PCs
  /\ "clear" \in PCs /\ "putkey" \in PCs /\ "relay" \in PCs /\ "promote" \in PCs
  /\ "mark" \in PCs /\ "demote" \in PCs /\ "putdemoted" \in PCs /\ "wipe" \in PCs
  /\ "wipekey" \in PCs /\ "record" \in PCs
  BY DEF PCs

\* The locals of a handler that has not started.
LEMMA IdleType == Idle \in Request /\ Idle.pc = "idle"
  BY Places DEF Idle, Request

\* A handler that has returned satisfies the invariant.
LEMMA IdleInvariant == \A pv, v : RequestInv(pv, v, Idle)
<1>1. Idle.pc = "idle" /\ Idle.key = None /\ Idle.skey = None
  BY DEF Idle
<1> QED
  BY <1>1, IdleType DEF RequestInv, PlaceInv, KeyInv, PeerInv, SessionInv, ReportInv, OnConnection

\* Steps at which only the model of the request counts.
ModelOnly == {"pre", "record", "wipe", "mark"}

\* What Drop leaves.
LEMMA DropEffect ==
  ASSUME NEW q \in Request, q.model \in Models, NEW x \in PCs
  PROVE  /\ Drop(q, x) \in Request /\ Drop(q, x).pc = x /\ Drop(q, x).model = q.model
         /\ Drop(q, x).key = None /\ Drop(q, x).skey = None
  BY IdleType DEF Drop, Idle, Request

\* Dropping everything but the model keeps the invariant.
LEMMA DropInvariant ==
  ASSUME NEW q \in Request, q.model \in Models, NEW x \in ModelOnly
  PROVE  \A pv, v : RequestInv(pv, v, Drop(q, x))
<1> DEFINE p == Drop(q, x)
<1>1. x \in PCs
  BY DEF ModelOnly, PCs
<1>2. p \in Request /\ p.pc = x /\ p.model = q.model /\ p.key = None /\ p.skey = None
  BY <1>1, DropEffect
<1> HIDE DEF p
<1>3. \A pv, v : RequestInv(pv, v, p)
  BY <1>2 DEF RequestInv, PlaceInv, KeyInv, PeerInv, SessionInv, ReportInv, OnConnection, ModelOnly
<1> QED
  BY <1>3 DEF p

\* More vouched peers never hurt.
LEMMA VouchedGrows ==
  ASSUME NEW pv, NEW v, NEW w, v \subseteq w, NEW q, RequestInv(pv, v, q)
  PROVE  RequestInv(pv, w, q)
  BY DEF RequestInv, PeerInv

(***************************************************************************)
(* All handlers                                                            *)
(***************************************************************************)

\* The step of a handler that neither enters nor leaves a call of its group.
SameFlight(q, p) ==
  \/ q.pc \notin Leading \cup {"wait"} /\ p.pc \notin Leading \cup {"wait"}
  \/ q.pc \in Leading /\ p.pc \in Leading /\ p.peer = q.peer

\* Such a step keeps FlightInv.
LEMMA FlightKept ==
  ASSUME TypeOK, FlightInv, NEW r \in Requests, NEW p, Set(r, p), SameFlight(req[r], p),
         flight' = flight
  PROVE  FlightInv'
<1>1. req'[r] = p /\ \A w \in Requests : w # r => req'[w] = req[w]
  BY DEF TypeOK, Set
<1>2. ASSUME NEW c \in Peers, flight[c] # None
      PROVE  req'[flight[c]].pc \in Leading /\ req'[flight[c]].peer = c
  <2>1. flight[c] \in Requests
    BY <1>2 DEF TypeOK
  <2>2. req[flight[c]].pc \in Leading /\ req[flight[c]].peer = c
    BY <1>2 DEF FlightInv
  <2> QED
    BY <1>1, <2>1, <2>2 DEF SameFlight
<1>3. ASSUME NEW w \in Requests, req'[w].pc \in Leading
      PROVE  flight[req'[w].peer] = w
  BY <1>1, <1>3 DEF FlightInv, SameFlight
<1>4. ASSUME NEW w \in Requests, req'[w].pc = "wait"
      PROVE  flight[req'[w].peer] # None
  BY <1>1, <1>4 DEF FlightInv, SameFlight, Leading
<1> QED
  BY <1>2, <1>3, <1>4 DEF FlightInv

\* The types of the shared variables.
SharedType ==
  /\ cache \in [Models -> Report \cup {None}]
  /\ keyCache \in [Models -> Key \cup {None}]
  /\ neg \subseteq Models /\ failed \subseteq Models
  /\ pinned \subseteq Peers
  /\ vouched \subseteq Peers

\* A step of one handler outside of the calls keeps the invariant if it leaves
\* this handler, and the caches, as they should be.
LEMMA HandlerStep ==
  ASSUME Inv, NEW r \in Requests, NEW p, Set(r, p),
         prov' = prov, flight' = flight, vouched \subseteq vouched',
         RequestInv(prov, vouched', p), SameFlight(req[r], p),
         SharedType', CachesInv'
  PROVE  Inv'
<1>1. req' = [req EXCEPT ![r] = p] /\ p \in Request
  BY DEF Set, RequestInv
<1>2. TypeOK'
  BY <1>1 DEF Inv, TypeOK, SharedType
<1>3. ASSUME NEW w \in Requests
      PROVE  RequestInv(prov, vouched', req'[w])
  <2>1. CASE w = r
    BY <1>1, <2>1 DEF Inv, TypeOK
  <2>2. CASE w # r
    <3>1. req'[w] = req[w] /\ RequestInv(prov, vouched, req[w])
      BY <1>1, <2>2 DEF Inv, TypeOK
    <3> QED
      BY <3>1, VouchedGrows
  <2> QED
    BY <2>1, <2>2
<1>4. FlightInv'
  BY FlightKept DEF Inv
<1> QED
  BY <1>2, <1>3, <1>4 DEF Inv

\* A step of one handler that changes nothing else.
LEMMA LocalStep ==
  ASSUME Inv, NEW r \in Requests, NEW p, Set(r, p), UNCHANGED <<prov, shared>>,
         RequestInv(prov, vouched, p), SameFlight(req[r], p)
  PROVE  Inv'
<1>1. SharedType' /\ CachesInv'
  BY DEF Inv, TypeOK, SharedType, CachesInv, shared
<1> QED
  BY <1>1, HandlerStep DEF shared

(***************************************************************************)
(* The proxy before the pinned request                                     *)
(***************************************************************************)

\* Every handler satisfies its invariant.
LEMMA HandlerInv ==
  ASSUME Inv, NEW r \in Requests
  PROVE  RequestInv(prov, vouched, req[r]) /\ req[r] \in Request
  BY DEF Inv, RequestInv

\* handleEndpoint.
LEMMA ArriveStep ==
  ASSUME Inv, NEW r \in Requests, Arrive(r)
  PROVE  Inv'
<1>1. PICK m \in Models :
        Set(r, IF m \in neg THEN Idle ELSE [Idle EXCEPT !.pc = "pre", !.model = m])
  BY DEF Arrive
<1>2. req[r].pc = "idle" /\ UNCHANGED <<prov, shared>>
  BY DEF Arrive
<1> DEFINE p == [Idle EXCEPT !.pc = "pre", !.model = m]
<1>3. /\ p \in Request /\ p.pc = "pre" /\ p.model = m /\ p.key = None /\ p.skey = None
  BY Places DEF Idle, Request
<1> HIDE DEF p
<1>4. RequestInv(prov, vouched, p)
  BY <1>3 DEF RequestInv, PlaceInv, KeyInv, PeerInv, SessionInv, ReportInv, OnConnection
<1>5. SameFlight(req[r], Idle) /\ SameFlight(req[r], p)
  BY <1>2, <1>3, IdleType DEF SameFlight, Leading
<1>6. Set(r, Idle) \/ Set(r, p)
  BY <1>1 DEF p
<1> QED
  BY <1>2, <1>4, <1>5, <1>6, IdleInvariant, LocalStep

\* pinnedPreDispatchE2EE.
LEMMA PreDispatchStep ==
  ASSUME Inv, NEW r \in Requests, PreDispatch(r)
  PROVE  Inv'
<1> DEFINE q == req[r]
<1>1. q.pc = "pre" /\ UNCHANGED <<prov, shared>> /\ q \in Request /\ RequestInv(prov, vouched, q)
  BY HandlerInv DEF PreDispatch
<1>2. SameFlight(q, Idle)
  BY <1>1, IdleType DEF SameFlight, Leading
<1>3. ASSUME NEW x \in {"dial", "key"}, Set(r, [q EXCEPT !.pc = x])
      PROVE  Inv'
  <2> DEFINE p == [q EXCEPT !.pc = x]
  <2>1. p \in Request /\ p.pc = x /\ p.model = q.model
        /\ p.key = q.key /\ p.skey = q.skey /\ p.rep = q.rep
    BY <1>1, Places DEF Request
  <2> HIDE DEF p
  <2>2. RequestInv(prov, vouched, p) /\ SameFlight(q, p)
    BY <1>1, <2>1 DEF RequestInv, PlaceInv, KeyInv, PeerInv, SessionInv, ReportInv, OnConnection,
                      SameFlight, Leading
  <2> QED
    BY <1>1, <1>3, <2>2, LocalStep DEF p
<1>4. ASSUME NEW d \in prov.domains[q.model], Set(r, [q EXCEPT !.pc = "evict", !.dom = d])
      PROVE  Inv'
  <2> DEFINE p == [q EXCEPT !.pc = "evict", !.dom = d]
  <2>1. d \in Domains
    <3>1. prov.domains \in [Models -> (SUBSET Domains) \ {{}}]
      BY PinnedFlagAssumption DEF Inv, TypeOK, Provider
    <3>2. q.model \in Models
      BY <1>1 DEF RequestInv, PlaceInv
    <3> QED
      BY <3>1, <3>2
  <2>2. p \in Request /\ p.pc = "evict" /\ p.model = q.model
        /\ p.key = q.key /\ p.skey = q.skey /\ p.rep = q.rep
    BY <1>1, <2>1, Places DEF Request
  <2> HIDE DEF p
  <2>3. RequestInv(prov, vouched, p) /\ SameFlight(q, p)
    BY <1>1, <2>2 DEF RequestInv, PlaceInv, KeyInv, PeerInv, SessionInv, ReportInv, OnConnection,
                      SameFlight, Leading
  <2> QED
    BY <1>1, <1>4, <2>3, LocalStep DEF p
<1>5. ASSUME Set(r, Idle) PROVE Inv'
  BY <1>1, <1>2, <1>5, IdleInvariant, LocalStep
<1> QED
  BY <1>3, <1>4, <1>5 DEF PreDispatch, Goto

\* SPKICache.DeleteDomain: fewer peers are pinned.
LEMMA DeleteDomainStep ==
  ASSUME Inv, NEW r \in Requests, DeleteDomain(r)
  PROVE  Inv'
<1> DEFINE q == req[r]
           p == [q EXCEPT !.pc = "key", !.dom = None]
<1>1. q.pc = "evict" /\ q \in Request /\ RequestInv(prov, vouched, q) /\ Set(r, p)
  BY HandlerInv DEF DeleteDomain
<1>2. p \in Request /\ p.pc = "key" /\ p.model = q.model
      /\ p.key = q.key /\ p.skey = q.skey /\ p.rep = q.rep
  BY <1>1, Places DEF Request
<1> HIDE DEF p
<1>3. RequestInv(prov, vouched, p) /\ SameFlight(q, p)
  BY <1>1, <1>2 DEF RequestInv, PlaceInv, KeyInv, PeerInv, SessionInv, ReportInv, OnConnection,
                    SameFlight, Leading
<1>4. SharedType' /\ CachesInv'
  BY DEF DeleteDomain, Inv, TypeOK, SharedType, CachesInv
<1>5. prov' = prov /\ flight' = flight /\ vouched' = vouched
  BY DEF DeleteDomain
<1> QED
  BY <1>1, <1>3, <1>4, <1>5, HandlerStep

\* signingKeyCache.Get: the key that is taken is bound if E2EE is on.
LEMMA GetKeyStep ==
  ASSUME Inv, NEW r \in Requests, GetKey(r)
  PROVE  Inv'
<1> DEFINE q == req[r]
           p == [q EXCEPT !.pc = "dial", !.skey = keyCache[q.model]]
<1>1. /\ q.pc = "key" /\ q \in Request /\ RequestInv(prov, vouched, q) /\ Set(r, p)
      /\ UNCHANGED <<prov, shared>>
  BY HandlerInv DEF GetKey
<1>2. q.model \in Models /\ keyCache[q.model] \in Key \cup {None}
  BY <1>1 DEF RequestInv, PlaceInv, Inv, TypeOK
<1>3. p \in Request /\ p.pc = "dial" /\ p.model = q.model
      /\ p.key = q.key /\ p.skey = keyCache[q.model] /\ p.rep = q.rep
  BY <1>1, <1>2, Places DEF Request
<1>4. prov.e2ee /\ keyCache[q.model] # None => keyCache[q.model].bound
  BY <1>2 DEF Inv, CachesInv
<1> HIDE DEF p
<1>5. RequestInv(prov, vouched, p) /\ SameFlight(q, p)
  BY <1>1, <1>2, <1>3, <1>4 DEF RequestInv, PlaceInv, KeyInv, PeerInv, SessionInv, ReportInv,
                                OnConnection, SameFlight, Leading
<1> QED
  BY <1>1, <1>5, LocalStep

(***************************************************************************)
(* PinnedHandler.HandlePinned                                              *)
(***************************************************************************)

\* A failure before the answer: only the model is left, to be recorded.
LEMMA GiveUp ==
  ASSUME Inv, NEW r \in Requests, UNCHANGED <<prov, shared>>,
         req[r].pc \notin Leading \cup {"wait", "idle"},
         NEW x \in ModelOnly, Set(r, Drop(req[r], x))
  PROVE  Inv'
<1> DEFINE q == req[r]
           p == Drop(q, x)
<1>1. q \in Request /\ q.model \in Models
  BY HandlerInv DEF RequestInv, PlaceInv
<1>2. RequestInv(prov, vouched, p)
  BY <1>1, DropInvariant
<1>3. p.pc = x
  BY <1>1, DropEffect, Places DEF ModelOnly
<1>4. SameFlight(q, p)
  <2> HIDE DEF p
  <2> QED
    BY <1>3 DEF SameFlight, Leading, ModelOnly
<1> QED
  BY <1>2, <1>4, LocalStep

\* Resolve, dial and check certificate transparency.
LEMMA DialStep ==
  ASSUME Inv, NEW r \in Requests, Dial(r)
  PROVE  Inv'
<1> DEFINE q == req[r]
<1>1. q.pc = "dial" /\ UNCHANGED <<prov, shared>> /\ q \in Request /\ RequestInv(prov, vouched, q)
  BY HandlerInv DEF Dial
<1>2. ASSUME Set(r, Drop(q, "record")) PROVE Inv'
  BY <1>1, <1>2, GiveUp DEF Leading, ModelOnly
<1>3. ASSUME NEW c \in Peers, Set(r, [q EXCEPT !.pc = "check", !.peer = c]) PROVE Inv'
  <2> DEFINE p == [q EXCEPT !.pc = "check", !.peer = c]
  <2>1. p \in Request /\ p.pc = "check" /\ p.model = q.model /\ p.peer = c
        /\ p.key = q.key /\ p.skey = q.skey /\ p.rep = q.rep
    BY <1>1, Places DEF Request
  <2> HIDE DEF p
  <2>2. RequestInv(prov, vouched, p) /\ SameFlight(q, p)
    BY <1>1, <2>1 DEF RequestInv, PlaceInv, KeyInv, PeerInv, SessionInv, ReportInv,
                      OnConnection, SameFlight, Leading
  <2> QED
    BY <1>1, <1>3, <2>2, LocalStep DEF p
<1> QED
  BY <1>2, <1>3 DEF Dial

\* Moving on changes the step only.
LEMMA MoveEffect ==
  ASSUME NEW q \in Request, NEW x \in PCs
  PROVE  LET p == [q EXCEPT !.pc = x] IN
         /\ p \in Request /\ p.pc = x /\ p.model = q.model /\ p.peer = q.peer
         /\ p.key = q.key /\ p.skey = q.skey /\ p.rep = q.rep /\ p.sess = q.sess
         /\ p.err = q.err /\ p.fresh = q.fresh
  BY DEF Request

\* SPKICache.Contains: a peer that is pinned is vouched for.
LEMMA CheckStep ==
  ASSUME Inv, NEW r \in Requests, Check(r)
  PROVE  Inv'
<1> DEFINE q == req[r]
           x == IF q.peer \in pinned THEN "encrypt" ELSE "join"
           p == [q EXCEPT !.pc = x]
<1>1. /\ q.pc = "check" /\ q \in Request /\ RequestInv(prov, vouched, q) /\ Set(r, p)
      /\ UNCHANGED <<prov, shared>>
  BY HandlerInv DEF Check, Goto
<1>2. x \in PCs /\ x \in {"encrypt", "join"} /\ (x = "encrypt" => q.peer \in vouched)
  BY DEF PCs, Inv, CachesInv
<1> HIDE DEF x
<1>3. p \in Request /\ p.pc = x /\ p.model = q.model /\ p.peer = q.peer
      /\ p.key = q.key /\ p.skey = q.skey /\ p.rep = q.rep
  BY <1>1, <1>2, MoveEffect
<1> HIDE DEF p
<1>4. RequestInv(prov, vouched, p) /\ SameFlight(q, p)
  BY <1>1, <1>2, <1>3 DEF RequestInv, PlaceInv, KeyInv, PeerInv, SessionInv, ReportInv,
                          OnConnection, SameFlight, Leading
<1> QED
  BY <1>1, <1>4, LocalStep

\* verifySF.Do: the caller becomes the leader of a new call, or waits for the
\* leader of the one that is under way.
LEMMA JoinStep ==
  ASSUME Inv, NEW r \in Requests, Join(r)
  PROVE  Inv'
<1> DEFINE q == req[r]
           x == IF flight[q.peer] = None THEN "recheck" ELSE "wait"
           p == [q EXCEPT !.pc = x]
<1>1. /\ q.pc = "join" /\ q \in Request /\ RequestInv(prov, vouched, q)
      /\ UNCHANGED <<prov, cache, keyCache, neg, failed, pinned, vouched>>
  BY HandlerInv DEF Join
<1>2. q.peer \in Peers
  BY <1>1 DEF RequestInv, PlaceInv, OnConnection
<1>3. Set(r, p) /\ flight' = IF flight[q.peer] = None THEN [flight EXCEPT ![q.peer] = r] ELSE flight
  BY DEF Join, Goto
<1>4. x \in PCs /\ x \in {"recheck", "wait"} /\ (x = "recheck") = (flight[q.peer] = None)
  BY DEF PCs
<1> HIDE DEF x
<1>5. p \in Request /\ p.pc = x /\ p.model = q.model /\ p.peer = q.peer
      /\ p.key = q.key /\ p.skey = q.skey /\ p.rep = q.rep
  BY <1>1, <1>4, MoveEffect
<1> HIDE DEF p
<1>6. RequestInv(prov, vouched, p)
  BY <1>1, <1>4, <1>5 DEF RequestInv, PlaceInv, KeyInv, PeerInv, SessionInv, ReportInv, OnConnection
<1>7. req' = [req EXCEPT ![r] = p] /\ req'[r] = p /\ \A w \in Requests : w # r => req'[w] = req[w]
  BY <1>3 DEF Set, Inv, TypeOK
<1>8. TypeOK'
  BY <1>1, <1>2, <1>3, <1>5, <1>7 DEF Inv, TypeOK
<1>9. \A w \in Requests : RequestInv(prov, vouched, req'[w])
  BY <1>6, <1>7 DEF Inv
<1>10. FlightInv'
  <2>1. r # None /\ flight \in [Peers -> Requests \cup {None}]
    BY PinnedNullAssumption DEF Inv, TypeOK
  <2>2. ASSUME NEW c \in Peers, flight'[c] # None
        PROVE  req'[flight'[c]].pc \in Leading /\ req'[flight'[c]].peer = c
    <3>1. CASE c = q.peer /\ flight[c] = None
      <4>1. flight'[c] = r
        BY <1>2, <1>3, <2>1, <3>1
      <4> QED
        BY <1>4, <1>5, <1>7, <3>1, <4>1 DEF Leading
    <3>2. CASE ~(c = q.peer /\ flight[c] = None)
      <4>1. flight'[c] = flight[c]
        BY <1>2, <1>3, <2>1, <3>2
      <4>2. flight[c] \in Requests /\ req[flight[c]].pc \in Leading /\ req[flight[c]].peer = c
        BY <2>1, <2>2, <4>1 DEF Inv, FlightInv
      <4>3. flight[c] # r
        BY <1>1, <4>2 DEF Leading
      <4> QED
        BY <1>7, <4>1, <4>2, <4>3
    <3> QED
      BY <3>1, <3>2
  <2>3. ASSUME NEW w \in Requests, req'[w].pc \in Leading
        PROVE  flight'[req'[w].peer] = w
    <3>1. CASE w = r
      BY <1>2, <1>3, <1>4, <1>5, <1>7, <2>1, <2>3, <3>1 DEF Leading
    <3>2. CASE w # r
      <4>1. req'[w] = req[w] /\ flight[req[w].peer] = w
        BY <1>7, <2>3, <3>2 DEF Inv, FlightInv
      <4>2. req[w].peer \in Peers
        BY <2>3, <4>1, HandlerInv DEF RequestInv, PlaceInv, OnConnection, Leading
      <4>3. w # None
        BY PinnedNullAssumption
      <4> QED
        BY <1>3, <2>1, <4>1, <4>2, <4>3
    <3> QED
      BY <3>1, <3>2
  <2>4. ASSUME NEW w \in Requests, req'[w].pc = "wait"
        PROVE  flight'[req'[w].peer] # None
    <3>1. CASE w = r
      BY <1>3, <1>4, <1>5, <1>7, <2>4, <3>1
    <3>2. CASE w # r
      <4>1. req'[w] = req[w] /\ flight[req[w].peer] # None
        BY <1>7, <2>4, <3>2 DEF Inv, FlightInv
      <4>2. req[w].peer \in Peers
        BY <2>4, <4>1, HandlerInv DEF RequestInv, PlaceInv, OnConnection
      <4> QED
        BY <1>3, <2>1, <4>1, <4>2
    <3> QED
      BY <3>1, <3>2
  <2> QED
    BY <2>2, <2>3, <2>4 DEF FlightInv
<1>11. CachesInv'
  BY <1>1 DEF Inv, CachesInv
<1> QED
  BY <1>1, <1>8, <1>9, <1>10, <1>11 DEF Inv

\* errAlreadyCached.
LEMMA RecheckStep ==
  ASSUME Inv, NEW r \in Requests, Recheck(r)
  PROVE  Inv'
<1> DEFINE q == req[r]
           x == IF q.peer \in pinned THEN "land" ELSE "attest"
           p == [q EXCEPT !.pc = x]
<1>1. /\ q.pc = "recheck" /\ q \in Request /\ RequestInv(prov, vouched, q) /\ Set(r, p)
      /\ UNCHANGED <<prov, shared>>
  BY HandlerInv DEF Recheck, Goto
<1>2. x \in PCs /\ x \in {"land", "attest"} /\ (x = "land" => q.peer \in vouched)
  BY DEF PCs, Inv, CachesInv
<1> HIDE DEF x
<1>3. p \in Request /\ p.pc = x /\ p.model = q.model /\ p.peer = q.peer
      /\ p.key = q.key /\ p.skey = q.skey /\ p.rep = q.rep
  BY <1>1, <1>2, MoveEffect
<1> HIDE DEF p
<1>4. RequestInv(prov, vouched, p) /\ SameFlight(q, p)
  BY <1>1, <1>2, <1>3 DEF RequestInv, PlaceInv, KeyInv, PeerInv, SessionInv, ReportInv,
                          OnConnection, SameFlight, Leading
<1> QED
  BY <1>1, <1>4, LocalStep

\* What an attestation yields: a report and, if the document has a key, a key
\* that is bound exactly if the report says so.
LEMMA AttestationEffect ==
  ASSUME NEW m \in Models, NEW d \in Docs
  PROVE  /\ NewReport(m, d) \in Report /\ NewReport(m, d) # None
         /\ NewKey(m, d) \in Key \cup {None}
         /\ NewKey(m, d) # None => NewKey(m, d).bound = NewReport(m, d).bound
  BY PinnedDocsAssumption, PinnedNullAssumption DEF NewReport, NewKey, Report, Key, Doc

\* attestOnConn: a peer is vouched for by an attestation that names its SPKI
\* and whose report does not block.
LEMMA AttestOnConnStep ==
  ASSUME Inv, NEW r \in Requests, AttestOnConn(r)
  PROVE  Inv'
<1> DEFINE q == req[r]
<1>1. /\ q.pc = "attest" /\ q \in Request /\ RequestInv(prov, vouched, q)
      /\ UNCHANGED <<prov, cache, keyCache, neg, failed, pinned, flight>>
  BY HandlerInv DEF AttestOnConn
<1>2. q.model \in Models /\ q.peer \in Peers
  BY <1>1 DEF RequestInv, PlaceInv, OnConnection
<1>3. ASSUME Set(r, [q EXCEPT !.pc = "land", !.err = TRUE]), UNCHANGED vouched
      PROVE  Inv'
  <2> DEFINE p == [q EXCEPT !.pc = "land", !.err = TRUE]
  <2>1. p \in Request /\ p.pc = "land" /\ p.err = TRUE /\ p.model = q.model /\ p.peer = q.peer
        /\ p.key = q.key /\ p.skey = q.skey /\ p.rep = q.rep
    BY <1>1, Places DEF Request
  <2> HIDE DEF p
  <2>2. RequestInv(prov, vouched, p) /\ SameFlight(q, p)
    BY <1>1, <2>1 DEF RequestInv, PlaceInv, KeyInv, PeerInv, SessionInv, ReportInv,
                      OnConnection, SameFlight, Leading
  <2> QED
    BY <1>1, <1>3, <2>2, LocalStep DEF p, shared
<1>4. ASSUME NEW d \in Docs, NEW fingerprint \in SPKIs, MatchesSPKI(q.peer, fingerprint),
             LET report == NewReport(q.model, d) IN
             /\ Set(r, [q EXCEPT !.pc = IF Blocked(report) THEN "land" ELSE "add",
                                 !.rep = report, !.key = NewKey(q.model, d)])
             /\ vouched' = IF Blocked(report) THEN vouched
                             ELSE vouched \cup {p \in Peers : /\ p.domain = q.peer.domain
                                                          /\ p.spki = fingerprint}
      PROVE  Inv'
  <2> DEFINE report == NewReport(q.model, d)
             x == IF Blocked(report) THEN "land" ELSE "add"
             k == NewKey(q.model, d)
             p == [q EXCEPT !.pc = x, !.rep = report, !.key = k]
  <2>1. /\ report \in Report /\ report # None /\ k \in Key \cup {None}
        /\ k # None => k.bound = report.bound
    BY <1>2, AttestationEffect
  <2>2. /\ x \in PCs /\ x \in {"land", "add"}
        /\ x = "land" => Blocked(report)
        /\ x = "add" => q.peer \in vouched'
        /\ vouched \subseteq vouched' /\ vouched' \subseteq Peers
    BY <1>2, <1>4 DEF PCs, MatchesSPKI, Inv, TypeOK
  <2>3. Set(r, p)
    BY <1>4
  <2> HIDE DEF report, x, k
  <2>4. p \in Request /\ p.pc = x /\ p.model = q.model /\ p.peer = q.peer
        /\ p.key = k /\ p.skey = q.skey /\ p.rep = report
    BY <1>1, <2>1, <2>2 DEF Request
  <2> HIDE DEF p
  <2>5. RequestInv(prov, vouched', p) /\ SameFlight(q, p)
    BY <1>1, <1>2, <2>1, <2>2, <2>4
       DEF RequestInv, PlaceInv, KeyInv, PeerInv, SessionInv, ReportInv, SameFlight, Leading
  <2>6. SharedType' /\ CachesInv'
    BY <1>1, <2>2 DEF Inv, TypeOK, SharedType, CachesInv
  <2> QED
    BY <1>1, <2>2, <2>3, <2>5, <2>6, HandlerStep
<1> QED
  BY <1>3, <1>4 DEF AttestOnConn

\* SPKICache.Add.
LEMMA AddSPKIStep ==
  ASSUME Inv, NEW r \in Requests, AddSPKI(r)
  PROVE  Inv'
<1> DEFINE q == req[r]
           p == [q EXCEPT !.pc = "land"]
<1>1. /\ q.pc = "add" /\ q \in Request /\ RequestInv(prov, vouched, q) /\ Set(r, p)
      /\ pinned' = pinned \cup {q.peer}
      /\ UNCHANGED <<prov, cache, keyCache, neg, failed, flight, vouched>>
  BY HandlerInv DEF AddSPKI, Goto
<1>2. q.peer \in Peers /\ q.peer \in vouched
  BY <1>1 DEF RequestInv, PlaceInv, PeerInv, OnConnection
<1>3. p \in Request /\ p.pc = "land" /\ p.model = q.model /\ p.peer = q.peer
      /\ p.key = q.key /\ p.skey = q.skey /\ p.rep = q.rep
  <2>1. "land" \in PCs
    BY DEF PCs
  <2> QED
    BY <1>1, <2>1, MoveEffect
<1> HIDE DEF p
<1>4. RequestInv(prov, vouched, p) /\ SameFlight(q, p)
  BY <1>1, <1>2, <1>3 DEF RequestInv, PlaceInv, KeyInv, PeerInv, SessionInv, ReportInv,
                          OnConnection, SameFlight, Leading
<1>5. SharedType' /\ CachesInv'
  BY <1>1, <1>2 DEF Inv, TypeOK, SharedType, CachesInv
<1> QED
  BY <1>1, <1>4, <1>5, HandlerStep

\* The call ends: the leader and every waiter on the same peer go on with its
\* result, and nobody waits for the peer any more.
LEMMA LandStep ==
  ASSUME Inv, NEW r \in Requests, Land(r)
  PROVE  Inv'
<1> DEFINE q == req[r]
           Landed(w) == [req[w] EXCEPT !.pc = "encrypt", !.rep = q.rep, !.key = q.key]
<1>1. /\ q.pc = "land" /\ q \in Request /\ RequestInv(prov, vouched, q)
      /\ UNCHANGED <<prov, cache, keyCache, neg, failed, pinned, vouched>>
      /\ flight' = [flight EXCEPT ![q.peer] = None]
  BY HandlerInv DEF Land
<1>2. q.peer \in Peers /\ flight \in [Peers -> Requests \cup {None}]
  BY <1>1 DEF RequestInv, PlaceInv, OnConnection, Inv, TypeOK
<1>3. \A w \in Requests :
        req'[w] = IF w \in Callers(r) THEN IF q.err THEN Drop(req[w], "record") ELSE Landed(w)
                                      ELSE req[w]
  BY DEF Land
<1>4. ASSUME NEW w \in Callers(r)
      PROVE  /\ w \in Requests /\ RequestInv(prov, vouched, req[w]) /\ req[w] \in Request
             /\ req[w].pc \in {"land", "wait"} /\ req[w].peer = q.peer /\ req[w].model \in Models
  <2>1. w \in Requests /\ req[w].pc \in {"land", "wait"} /\ req[w].peer = q.peer
    BY <1>1 DEF Callers
  <2> QED
    BY <2>1, HandlerInv DEF RequestInv, PlaceInv
<1>5. ASSUME NEW w \in Callers(r)
      PROVE  RequestInv(prov, vouched, req'[w]) /\ req'[w].pc \notin Leading \cup {"wait"}
  <2>1. CASE q.err
    <3> DEFINE p == Drop(req[w], "record")
    <3>1. req'[w] = p
      BY <1>3, <1>4, <2>1
    <3>2. RequestInv(prov, vouched, p) /\ p.pc = "record"
      BY <1>4, DropInvariant, DropEffect, Places DEF ModelOnly
    <3> QED
      BY <3>1, <3>2 DEF Leading
  <2>2. CASE ~q.err
    <3> DEFINE p == Landed(w)
    <3>1. req'[w] = p
      BY <1>3, <1>4, <2>2
    <3>2. p \in Request /\ p.pc = "encrypt" /\ p.model = req[w].model /\ p.peer = q.peer
          /\ p.key = q.key /\ p.skey = req[w].skey /\ p.rep = q.rep
      BY <1>1, <1>4, Places DEF Request
    <3> HIDE DEF p
    <3>3. RequestInv(prov, vouched, p)
      BY <1>1, <1>2, <1>4, <2>2, <3>2
         DEF RequestInv, PlaceInv, KeyInv, PeerInv, SessionInv, ReportInv
    <3> QED
      BY <3>1, <3>2, <3>3 DEF Leading
  <2> QED
    BY <2>1, <2>2
<1>6. \A w \in Requests : RequestInv(prov, vouched, req'[w])
  BY <1>3, <1>5, HandlerInv
<1>7. TypeOK'
  <2>1. req' \in [Requests -> Request]
    <3>1. \A w \in Requests : req'[w] \in Request
      BY <1>6 DEF RequestInv
    <3>2. req' = [w \in Requests |-> req'[w]]
      BY DEF Land
    <3> QED
      BY <3>1, <3>2
  <2> QED
    BY <1>1, <1>2, <2>1 DEF Inv, TypeOK
<1>8. flight[q.peer] = r
  BY <1>1 DEF Inv, FlightInv, Leading
<1>9. FlightInv'
  <2>1. ASSUME NEW c \in Peers, flight'[c] # None
        PROVE  req'[flight'[c]].pc \in Leading /\ req'[flight'[c]].peer = c
    <3>1. c # q.peer /\ flight'[c] = flight[c]
      BY <1>1, <1>2, <2>1
    <3>2. flight[c] \in Requests /\ req[flight[c]].pc \in Leading /\ req[flight[c]].peer = c
      BY <1>2, <2>1, <3>1 DEF Inv, FlightInv
    <3>3. flight[c] \notin Callers(r)
      BY <1>4, <3>1, <3>2
    <3> QED
      BY <1>3, <3>1, <3>2, <3>3
  <2>2. ASSUME NEW w \in Requests, req'[w].pc \in Leading
        PROVE  flight'[req'[w].peer] = w
    <3>1. w \notin Callers(r) /\ req'[w] = req[w]
      BY <1>3, <1>5, <2>2
    <3>2. flight[req[w].peer] = w /\ w # r
      BY <2>2, <3>1 DEF Inv, FlightInv, Callers
    <3>3. req[w].peer \in Peers /\ req[w].peer # q.peer
      BY <1>8, <2>2, <3>1, <3>2, HandlerInv DEF RequestInv, PlaceInv, OnConnection, Leading
    <3> QED
      BY <1>1, <1>2, <3>1, <3>2, <3>3
  <2>3. ASSUME NEW w \in Requests, req'[w].pc = "wait"
        PROVE  flight'[req'[w].peer] # None
    <3>1. w \notin Callers(r) /\ req'[w] = req[w]
      BY <1>3, <1>5, <2>3
    <3>2. req[w].peer # q.peer /\ flight[req[w].peer] # None
      BY <2>3, <3>1 DEF Inv, FlightInv, Callers
    <3>3. req[w].peer \in Peers
      BY <2>3, <3>1, HandlerInv DEF RequestInv, PlaceInv, OnConnection
    <3> QED
      BY <1>1, <1>2, <3>1, <3>2, <3>3
  <2> QED
    BY <2>1, <2>2, <2>3 DEF FlightInv
<1>10. CachesInv'
  BY <1>1 DEF Inv, CachesInv
<1> QED
  BY <1>1, <1>6, <1>7, <1>9, <1>10 DEF Inv

\* encryptBody: the key of a session is bound, whether the attestation or the
\* cache gave it.
LEMMA EncryptBodyStep ==
  ASSUME Inv, NEW r \in Requests, EncryptBody(r)
  PROVE  Inv'
<1> DEFINE q == req[r]
           refused == q.rep # None /\ Blocked(q.rep)
<1>1. /\ q.pc = "encrypt" /\ q \in Request /\ RequestInv(prov, vouched, q)
      /\ UNCHANGED <<prov, shared>>
  BY HandlerInv DEF EncryptBody
<1>2. CASE Set(r, [q EXCEPT !.pc = "store", !.resp = "status", !.peer = None, !.skey = None])
  <2> DEFINE p == [q EXCEPT !.pc = "store", !.resp = "status", !.peer = None, !.skey = None]
  <2>1. p \in Request /\ p.pc = "store" /\ p.model = q.model
        /\ p.key = q.key /\ p.skey = None /\ p.rep = q.rep
    BY <1>1, Places DEF Request
  <2> HIDE DEF p
  <2>2. RequestInv(prov, vouched, p) /\ SameFlight(q, p)
    BY <1>1, <2>1 DEF RequestInv, PlaceInv, KeyInv, PeerInv, SessionInv, ReportInv,
                      OnConnection, SameFlight, Leading
  <2> QED
    BY <1>1, <1>2, <2>2, LocalStep DEF p
<1>3. CASE ~refused /\ ~prov.e2ee /\ Set(r, [q EXCEPT !.pc = "send", !.skey = None])
  <2> DEFINE p == [q EXCEPT !.pc = "send", !.skey = None]
  <2>1. p \in Request /\ p.pc = "send" /\ p.model = q.model /\ p.peer = q.peer
        /\ p.key = q.key /\ p.skey = None /\ p.rep = q.rep
    BY <1>1, Places DEF Request
  <2> HIDE DEF p
  <2>2. RequestInv(prov, vouched, p) /\ SameFlight(q, p)
    BY <1>1, <1>3, <2>1 DEF RequestInv, PlaceInv, KeyInv, PeerInv, SessionInv, ReportInv,
                            OnConnection, SameFlight, Leading
  <2> QED
    BY <1>1, <1>3, <2>2, LocalStep DEF p
<1>4. CASE /\ ~refused /\ prov.e2ee /\ CanEncrypt(q)
           /\ Set(r, [q EXCEPT !.pc = "send", !.sess = SessionKey(q), !.skey = None])
  <2> DEFINE k == SessionKey(q)
             p == [q EXCEPT !.pc = "send", !.sess = k, !.skey = None]
  <2>1. k \in Key \cup {None} /\ k # None /\ k.bound
    BY <1>1, <1>4 DEF SessionKey, CanEncrypt, RequestInv, KeyInv, Request
  <2> HIDE DEF k
  <2>2. p \in Request /\ p.pc = "send" /\ p.model = q.model /\ p.peer = q.peer
        /\ p.key = q.key /\ p.skey = None /\ p.rep = q.rep /\ p.sess = k
    BY <1>1, <2>1, Places DEF Request
  <2> HIDE DEF p
  <2>3. RequestInv(prov, vouched, p) /\ SameFlight(q, p)
    BY <1>1, <1>4, <2>1, <2>2 DEF RequestInv, PlaceInv, KeyInv, PeerInv, SessionInv, ReportInv,
                                  OnConnection, SameFlight, Leading
  <2> QED
    BY <1>1, <1>4, <2>3, LocalStep DEF p, k
<1>5. CASE Set(r, Drop(q, "record"))
  BY <1>1, <1>5, GiveUp DEF Leading, ModelOnly
<1> QED
  BY <1>2, <1>3, <1>4, <1>5 DEF EncryptBody

\* WriteHTTPRequest and http.ReadResponse.
LEMMA SendRequestStep ==
  ASSUME Inv, NEW r \in Requests, SendRequest(r)
  PROVE  Inv'
<1> DEFINE q == req[r]
<1>1. /\ q.pc = "send" /\ q \in Request /\ RequestInv(prov, vouched, q)
      /\ UNCHANGED <<prov, shared>>
  BY HandlerInv DEF SendRequest
<1>2. CASE Set(r, Drop(q, "record"))
  BY <1>1, <1>2, GiveUp DEF Leading, ModelOnly
<1>3. ASSUME NEW resp \in {"ok", "status"},
             Set(r, [q EXCEPT !.pc = "store", !.resp = resp, !.peer = None])
      PROVE  Inv'
  <2> DEFINE p == [q EXCEPT !.pc = "store", !.resp = resp, !.peer = None]
  <2>1. p \in Request /\ p.pc = "store" /\ p.model = q.model
        /\ p.key = q.key /\ p.skey = q.skey /\ p.rep = q.rep
    BY <1>1, Places DEF Request
  <2> HIDE DEF p
  <2>2. RequestInv(prov, vouched, p) /\ SameFlight(q, p)
    BY <1>1, <2>1 DEF RequestInv, PlaceInv, KeyInv, PeerInv, SessionInv, ReportInv,
                      OnConnection, SameFlight, Leading
  <2> QED
    BY <1>1, <1>3, <2>2, LocalStep DEF p
<1> QED
  BY <1>2, <1>3 DEF SendRequest

(***************************************************************************)
(* The proxy after the pinned request                                      *)
(***************************************************************************)

\* A step of one handler, outside of the calls, that also changes the cached
\* reports, the cached keys of E2EE (to bound ones) or the marks on models.
LEMMA CacheStep ==
  ASSUME Inv, NEW r \in Requests, NEW p, Set(r, p),
         RequestInv(prov, vouched, p), SameFlight(req[r], p),
         UNCHANGED <<prov, pinned, flight, vouched>>,
         cache' \in [Models -> Report \cup {None}],
         keyCache' \in [Models -> Key \cup {None}],
         neg' \subseteq Models, failed' \subseteq Models,
         prov.e2ee => \A m \in Models : keyCache'[m] # None => keyCache'[m].bound
  PROVE  Inv'
<1>1. SharedType' /\ CachesInv'
  BY DEF Inv, TypeOK, SharedType, CachesInv
<1> QED
  BY <1>1, HandlerStep

\* Storing a report, or none, under a model.
LEMMA PutReport ==
  ASSUME Inv, NEW m \in Models, NEW report \in Report \cup {None}
  PROVE  [cache EXCEPT ![m] = report] \in [Models -> Report \cup {None}]
  BY DEF Inv, TypeOK

\* The types of the caches, for the steps that leave some of them alone.
LEMMA CacheTypes ==
  ASSUME Inv
  PROVE  /\ cache \in [Models -> Report \cup {None}]
         /\ keyCache \in [Models -> Key \cup {None}]
         /\ neg \subseteq Models /\ failed \subseteq Models
         /\ prov.e2ee => \A m \in Models : keyCache[m] # None => keyCache[m].bound
  BY DEF Inv, TypeOK, CachesInv

\* The report is stored, enforced and checked before the request goes on.
LEMMA StoreReportStep ==
  ASSUME Inv, NEW r \in Requests, StoreReport(r)
  PROVE  Inv'
<1> DEFINE q == req[r]
           report == IF q.rep # None THEN q.rep ELSE cache[q.model]
           ok == Enforce(report) /\ PostDispatch(report)
           x == IF prov.e2ee THEN "marker" ELSE "putkey"
           f == q.rep # None
           p == [q EXCEPT !.pc = x, !.rep = report, !.fresh = f]
           n == IF ok THEN p ELSE Drop(q, "record")
<1>1. /\ q.pc = "store" /\ q \in Request /\ RequestInv(prov, vouched, q) /\ Set(r, n)
      /\ cache' = [cache EXCEPT ![q.model] = report]
      /\ UNCHANGED <<prov, keyCache, neg, failed, pinned, flight, vouched>>
  BY HandlerInv DEF StoreReport
<1>2. q.model \in Models
  BY <1>1 DEF RequestInv, PlaceInv
<1>3. report \in Report \cup {None} /\ (q.rep # None => report = q.rep)
  BY <1>1, <1>2, CacheTypes DEF Request
<1>4. cache' \in [Models -> Report \cup {None}]
  BY <1>1, <1>2, <1>3, PutReport
<1>5. RequestInv(prov, vouched, n) /\ SameFlight(q, n)
  <2>1. CASE ok
    <3>1. ok => /\ prov.e2ee => report # None /\ report.bound
                /\ report = None \/ ~Blocked(report) \/ prov.force
      BY DEF Enforce, PostDispatch
    <3>2. x \in PCs /\ x \in {"marker", "putkey"} /\ (x = "marker" => prov.e2ee) /\ f \in BOOLEAN
      BY DEF PCs
    <3> HIDE DEF x, f, report, ok
    <3>3. p \in Request /\ p.pc = x /\ p.model = q.model
          /\ p.key = q.key /\ p.skey = q.skey /\ p.rep = report
      <4>1. q \in Request /\ report \in Report \cup {None} /\ x \in PCs /\ f \in BOOLEAN
        BY <1>1, <1>3, <3>2
      <4>2. p \in Request
        BY <4>1 DEF Request
      <4> QED
        BY <4>1, <4>2 DEF Request
    <3>4. n = p
      BY <2>1
    <3> HIDE DEF p, n
    <3>5. RequestInv(prov, vouched, p)
      BY <1>1, <1>3, <2>1, <3>1, <3>2, <3>3
         DEF RequestInv, PlaceInv, KeyInv, PeerInv, SessionInv, ReportInv, OnConnection
    <3>6. SameFlight(q, p)
      BY <1>1, <3>2, <3>3 DEF SameFlight, Leading
    <3> QED
      BY <3>4, <3>5, <3>6
  <2>2. CASE ~ok
    <3>1. n = Drop(q, "record")
      BY <2>2
    <3>2. RequestInv(prov, vouched, Drop(q, "record")) /\ Drop(q, "record").pc = "record"
      BY <1>1, <1>2, DropInvariant, DropEffect, Places DEF ModelOnly
    <3> QED
      BY <1>1, <3>1, <3>2 DEF SameFlight, Leading
  <2> QED
    BY <2>1, <2>2
<1> HIDE DEF n
<1> QED
  BY <1>1, <1>4, <1>5, CacheStep, CacheTypes

\* e2eeFailed.Load: only a fresh report leads to clearing the marker.
LEMMA CheckMarkerStep ==
  ASSUME Inv, NEW r \in Requests, CheckMarker(r)
  PROVE  Inv'
<1> DEFINE q == req[r]
<1>1. /\ q.pc = "marker" /\ q \in Request /\ RequestInv(prov, vouched, q)
      /\ UNCHANGED <<prov, shared>>
  BY HandlerInv DEF CheckMarker
<1>2. ASSUME NEW x \in {"putkey", "clear"}, x = "clear" => q.fresh, Set(r, [q EXCEPT !.pc = x])
      PROVE  Inv'
  <2> DEFINE p == [q EXCEPT !.pc = x]
  <2>0. x \in PCs
    BY DEF PCs
  <2>1. p \in Request /\ p.pc = x /\ p.model = q.model /\ p.fresh = q.fresh
        /\ p.key = q.key /\ p.skey = q.skey /\ p.rep = q.rep
    BY <1>1, <2>0, MoveEffect
  <2> HIDE DEF p
  <2>2. RequestInv(prov, vouched, p) /\ SameFlight(q, p)
    BY <1>1, <1>2, <2>1 DEF RequestInv, PlaceInv, KeyInv, PeerInv, SessionInv, ReportInv,
                            OnConnection, SameFlight, Leading
  <2> QED
    BY <1>1, <1>2, <2>2, LocalStep DEF p
<1>3. CASE Set(r, Drop(q, "wipe"))
  BY <1>1, <1>3, GiveUp DEF Leading, ModelOnly
<1> QED
  BY <1>2, <1>3 DEF CheckMarker, FreshReport

\* e2eeFailed.Delete.
LEMMA ClearMarkerStep ==
  ASSUME Inv, NEW r \in Requests, ClearMarker(r)
  PROVE  Inv'
<1> DEFINE q == req[r]
           p == [q EXCEPT !.pc = "putkey"]
<1>1. /\ q.pc = "clear" /\ q \in Request /\ RequestInv(prov, vouched, q) /\ Set(r, p)
      /\ failed' = failed \ {q.model}
      /\ UNCHANGED <<prov, cache, keyCache, neg, pinned, flight, vouched>>
  BY HandlerInv DEF ClearMarker, Goto
<1>2. p \in Request /\ p.pc = "putkey" /\ p.model = q.model
      /\ p.key = q.key /\ p.skey = q.skey /\ p.rep = q.rep
  BY <1>1, Places DEF Request
<1> HIDE DEF p
<1>3. RequestInv(prov, vouched, p) /\ SameFlight(q, p)
  BY <1>1, <1>2 DEF RequestInv, PlaceInv, KeyInv, PeerInv, SessionInv, ReportInv,
                    OnConnection, SameFlight, Leading
<1>4. failed' \subseteq Models
  BY <1>1, CacheTypes
<1> QED
  BY <1>1, <1>3, <1>4, CacheStep, CacheTypes

\* signingKeyCache.Put: with E2EE only a bound key is cached.
LEMMA PutKeyStep ==
  ASSUME Inv, NEW r \in Requests, PutKey(r)
  PROVE  Inv'
<1> DEFINE q == req[r]
           p == [q EXCEPT !.pc = "relay", !.key = None, !.fresh = FALSE]
<1>1. /\ q.pc = "putkey" /\ q \in Request /\ RequestInv(prov, vouched, q) /\ Set(r, p)
      /\ keyCache' = IF q.key = None THEN keyCache ELSE [keyCache EXCEPT ![q.model] = q.key]
      /\ UNCHANGED <<prov, cache, neg, failed, pinned, flight, vouched>>
  BY HandlerInv DEF PutKey
<1>2. p \in Request /\ p.pc = "relay" /\ p.model = q.model
      /\ p.key = None /\ p.skey = q.skey /\ p.rep = q.rep
  BY <1>1, Places DEF Request
<1> HIDE DEF p
<1>3. RequestInv(prov, vouched, p) /\ SameFlight(q, p)
  BY <1>1, <1>2 DEF RequestInv, PlaceInv, KeyInv, PeerInv, SessionInv, ReportInv,
                    OnConnection, SameFlight, Leading
<1>4. q.model \in Models /\ q.key \in Key \cup {None}
  BY <1>1 DEF RequestInv, PlaceInv, Request
<1>5. prov.e2ee /\ q.key # None => q.key.bound
  BY <1>1 DEF RequestInv, KeyInv, ReportInv
<1>6. keyCache' \in [Models -> Key \cup {None}]
  BY <1>1, <1>4, CacheTypes
<1>7. prov.e2ee => \A m \in Models : keyCache'[m] # None => keyCache'[m].bound
  BY <1>1, <1>4, <1>5, CacheTypes
<1> QED
  BY <1>1, <1>3, <1>6, <1>7, CacheStep, CacheTypes

\* The relay of the answer.
LEMMA RelayStep ==
  ASSUME Inv, NEW r \in Requests, Relay(r)
  PROVE  Inv'
<1> DEFINE q == req[r]
<1>1. /\ q.pc = "relay" /\ q \in Request /\ RequestInv(prov, vouched, q)
      /\ UNCHANGED <<prov, shared>>
  BY HandlerInv DEF Relay
<1>2. CASE Set(r, Idle)
  <2>1. SameFlight(q, Idle)
    BY <1>1, IdleType DEF SameFlight, Leading
  <2> QED
    BY <1>1, <1>2, <2>1, IdleInvariant, LocalStep
<1>3. CASE q.rep # None /\ Set(r, [q EXCEPT !.pc = "promote"])
  <2> DEFINE p == [q EXCEPT !.pc = "promote"]
  <2>1. p \in Request /\ p.pc = "promote" /\ p.model = q.model
        /\ p.key = q.key /\ p.skey = q.skey /\ p.rep = q.rep
    BY <1>1, Places DEF Request
  <2> HIDE DEF p
  <2>2. RequestInv(prov, vouched, p) /\ SameFlight(q, p)
    BY <1>1, <1>3, <2>1 DEF RequestInv, PlaceInv, KeyInv, PeerInv, SessionInv, ReportInv,
                            OnConnection, SameFlight, Leading
  <2> QED
    BY <1>1, <1>3, <2>2, LocalStep DEF p
<1>4. CASE Set(r, Drop(q, "mark"))
  BY <1>1, <1>4, GiveUp DEF Leading, ModelOnly
<1> QED
  BY <1>2, <1>3, <1>4 DEF Relay

\* A handler that returns, having changed the caches.
LEMMA ReturnStep ==
  ASSUME Inv, NEW r \in Requests, Set(r, Idle), req[r].pc \notin Leading \cup {"wait"},
         UNCHANGED <<prov, pinned, flight, vouched, failed>>,
         cache' \in [Models -> Report \cup {None}],
         keyCache' \in [Models -> Key \cup {None}],
         neg' \subseteq Models,
         prov.e2ee => \A m \in Models : keyCache'[m] # None => keyCache'[m].bound
  PROVE  Inv'
<1>1. SameFlight(req[r], Idle)
  BY IdleType DEF SameFlight, Leading
<1>2. RequestInv(prov, vouched, Idle) /\ failed' \subseteq Models
  BY IdleInvariant, CacheTypes
<1> QED
  BY <1>1, <1>2, CacheStep

\* MarkE2EEUsable on the handler's report, which is put into the cache.
LEMMA PromoteStep ==
  ASSUME Inv, NEW r \in Requests, Promote(r)
  PROVE  Inv'
<1> DEFINE q == req[r]
<1>1. /\ q.pc = "promote" /\ q \in Request /\ RequestInv(prov, vouched, q)
  BY HandlerInv DEF Promote
<1>2. q.model \in Models /\ q.rep \in Report
  BY <1>1 DEF RequestInv, PlaceInv, ReportInv, Request
<1>3. MarkE2EEUsable(q.rep) \in Report
  BY <1>2 DEF MarkE2EEUsable, Report
<1>4. cache' \in [Models -> Report \cup {None}]
  BY <1>2, <1>3, PutReport DEF Promote
<1> QED
  BY <1>1, <1>4, CacheTypes, ReturnStep DEF Promote, Leading

\* The handler takes a demoted report.
LEMMA DemoteEffect ==
  ASSUME NEW pv, NEW v, NEW q, RequestInv(pv, v, q), q.pc = "demote",
         NEW report \in Report \cup {None}
  PROVE  LET p == [q EXCEPT !.pc = "putdemoted", !.rep = report] IN
         RequestInv(pv, v, p) /\ SameFlight(q, p)
<1> DEFINE p == [q EXCEPT !.pc = "putdemoted", !.rep = report]
<1>1. q \in Request /\ q.key = None
  BY DEF RequestInv, KeyInv
<1>2. p \in Request /\ p.pc = "putdemoted" /\ p.model = q.model
      /\ p.key = q.key /\ p.skey = q.skey /\ p.rep = report
  <2>1. ASSUME NEW x \in PCs
        PROVE  LET n == [q EXCEPT !.pc = x, !.rep = report] IN
               /\ n \in Request /\ n.pc = x /\ n.model = q.model
               /\ n.key = q.key /\ n.skey = q.skey /\ n.rep = report
    <3> DEFINE n == [q EXCEPT !.pc = x, !.rep = report]
    <3>1. q \in Request
      BY <1>1
    <3>2. n \in Request
      BY <3>1 DEF Request
    <3>3. /\ n.pc = x /\ n.model = q.model
          /\ n.key = q.key /\ n.skey = q.skey /\ n.rep = report
      BY <3>1 DEF Request
    <3> QED
      BY <3>2, <3>3
  <2>2. "putdemoted" \in PCs
    BY Places
  <2> QED
    BY <2>1, <2>2
<1> HIDE DEF p
<1>3. RequestInv(pv, v, p) /\ SameFlight(q, p)
  BY <1>1, <1>2 DEF RequestInv, PlaceInv, KeyInv, PeerInv, SessionInv, ReportInv,
                    OnConnection, SameFlight, Leading
<1> QED
  BY <1>3 DEF p

\* The steps of the failure handler before the last, and the return over the
\* negative cache.
LEMMA FailureSteps ==
  ASSUME Inv, NEW r \in Requests,
         Mark(r) \/ Demote(r) \/ PutDemoted(r) \/ Wipe(r) \/ WipeKey(r) \/ Record(r)
  PROVE  Inv'
<1> DEFINE q == req[r]
<1>1. q \in Request /\ RequestInv(prov, vouched, q)
  BY HandlerInv
<1>2. q.pc # "idle" => q.model \in Models
  BY <1>1 DEF RequestInv, PlaceInv
<1>3. ASSUME NEW x, <<q.pc, x>> \in {<<"mark", "demote">>, <<"wipe", "wipekey">>}
      PROVE  LET p == [q EXCEPT !.pc = x] IN RequestInv(prov, vouched, p) /\ SameFlight(q, p)
  <2> DEFINE p == [q EXCEPT !.pc = x]
  <2>0. x \in PCs /\ ((q.pc = "mark" /\ x = "demote") \/ (q.pc = "wipe" /\ x = "wipekey"))
    BY <1>3 DEF PCs
  <2>1. p \in Request /\ p.pc = x /\ p.model = q.model
        /\ p.key = q.key /\ p.skey = q.skey /\ p.rep = q.rep
    BY <1>1, <2>0, MoveEffect
  <2> HIDE DEF p
  <2>2. RequestInv(prov, vouched, p) /\ SameFlight(q, p)
    BY <1>1, <2>0, <2>1 DEF RequestInv, PlaceInv, KeyInv, PeerInv, SessionInv, ReportInv,
                            OnConnection, SameFlight, Leading
  <2> QED
    BY <2>2 DEF p
<1>4. CASE Mark(r)
  <2>1. q.pc = "mark" /\ Set(r, [q EXCEPT !.pc = "demote"]) /\ failed' = failed \cup {q.model}
        /\ UNCHANGED <<prov, cache, keyCache, neg, pinned, flight, vouched>>
    BY <1>4 DEF Mark, Goto
  <2>2. failed' \subseteq Models
    BY <1>2, <2>1, CacheTypes
  <2> QED
    BY <1>3, <2>1, <2>2, CacheStep, CacheTypes
<1>5. CASE Demote(r)
  <2> DEFINE cached == cache[q.model]
             report == [cached EXCEPT !.usable = "fail"]
             p == [q EXCEPT !.pc = "putdemoted", !.rep = report]
  <2>1. q.pc = "demote" /\ UNCHANGED <<prov, shared>>
    BY <1>5 DEF Demote
  <2>2. cached \in Report \cup {None}
    BY <1>2, <2>1, CacheTypes
  <2>3. CASE cached = None
    <3>1. Set(r, Drop(q, "wipe"))
      BY <1>5, <2>3 DEF Demote
    <3> QED
      BY <2>1, <3>1, GiveUp DEF Leading, ModelOnly
  <2>4. CASE cached # None
    <3>1. report \in Report \cup {None}
      BY <2>2, <2>4 DEF Report
    <3>2. Set(r, p)
      BY <1>5, <2>4 DEF Demote
    <3> HIDE DEF report
    <3>3. RequestInv(prov, vouched, p) /\ SameFlight(q, p)
      BY <1>1, <2>1, <3>1, DemoteEffect
    <3> HIDE DEF p
    <3> QED
      BY <2>1, <3>2, <3>3, LocalStep
  <2> QED
    BY <2>3, <2>4
<1>6. CASE PutDemoted(r)
  <2> DEFINE p == Drop(q, "wipe")
  <2>1. q.pc = "putdemoted" /\ Set(r, p) /\ cache' = [cache EXCEPT ![q.model] = q.rep]
        /\ UNCHANGED <<prov, keyCache, neg, failed, pinned, flight, vouched>>
    BY <1>6 DEF PutDemoted
  <2>2. q.model \in Models /\ q.rep \in Report \cup {None}
    BY <1>1, <1>2, <2>1 DEF Request
  <2>3. cache' \in [Models -> Report \cup {None}]
    BY <2>1, <2>2, PutReport
  <2>4. RequestInv(prov, vouched, p) /\ p.pc = "wipe"
    BY <1>1, <2>2, DropInvariant, DropEffect, Places DEF ModelOnly
  <2> HIDE DEF p
  <2>5. SameFlight(q, p)
    BY <2>1, <2>4 DEF SameFlight, Leading
  <2> QED
    BY <2>1, <2>3, <2>4, <2>5, CacheStep, CacheTypes
<1>7. CASE Wipe(r)
  <2>1. q.pc = "wipe" /\ Set(r, [q EXCEPT !.pc = "wipekey"]) /\ cache' = [cache EXCEPT ![q.model] = None]
        /\ UNCHANGED <<prov, keyCache, neg, failed, pinned, flight, vouched>>
    BY <1>7 DEF Wipe, Goto
  <2>2. cache' \in [Models -> Report \cup {None}]
    BY <1>2, <2>1, PutReport
  <2> QED
    BY <1>3, <2>1, <2>2, CacheStep, CacheTypes
<1>8. CASE WipeKey(r)
  <2>1. q.pc = "wipekey" /\ Set(r, Idle) /\ keyCache' = [keyCache EXCEPT ![q.model] = None]
        /\ UNCHANGED <<prov, cache, neg, failed, pinned, flight, vouched>>
    BY <1>8 DEF WipeKey
  <2>2. /\ keyCache' \in [Models -> Key \cup {None}]
        /\ prov.e2ee => \A m \in Models : keyCache'[m] # None => keyCache'[m].bound
    BY <1>2, <2>1, CacheTypes
  <2> QED
    BY <2>1, <2>2, CacheTypes, ReturnStep DEF Leading
<1>9. CASE Record(r)
  <2>1. q.pc = "record" /\ Set(r, Idle) /\ neg' = neg \cup {q.model}
        /\ UNCHANGED <<prov, cache, keyCache, failed, pinned, flight, vouched>>
    BY <1>9 DEF Record
  <2>2. neg' \subseteq Models
    BY <1>2, <2>1, CacheTypes
  <2> QED
    BY <2>1, <2>2, CacheTypes, ReturnStep DEF Leading
<1> QED
  BY <1>4, <1>5, <1>6, <1>7, <1>8, <1>9

(***************************************************************************)
(* The theorems                                                            *)
(***************************************************************************)

\* Entries of the caches may vanish at any moment: every clause of the
\* invariant survives it.
LEMMA ExpireStep ==
  ASSUME Inv, Expire
  PROVE  Inv'
<1>1. UNCHANGED <<prov, failed, flight, req, vouched>>
  BY DEF Expire
<1>2. /\ cache' \in [Models -> Report \cup {None}]
      /\ keyCache' \in [Models -> Key \cup {None}]
      /\ neg' \subseteq neg /\ pinned' \subseteq pinned
      /\ \A m \in Models : keyCache'[m] \in {keyCache[m], None}
  BY DEF Inv, TypeOK, Expire
<1>3. TypeOK' /\ CachesInv'
  BY <1>1, <1>2 DEF Inv, TypeOK, CachesInv
<1>4. FlightInv' /\ \A r \in Requests : RequestInv(prov, vouched, req[r])
  BY <1>1 DEF Inv, FlightInv
<1> QED
  BY <1>1, <1>3, <1>4 DEF Inv

\* The invariant holds initially.
LEMMA InitInvariant == Init => Inv
<1> SUFFICES ASSUME Init PROVE Inv
  OBVIOUS
<1>1. \A r \in Requests : req[r] = Idle
  BY DEF Init
<1>2. TypeOK
  BY IdleType DEF Init, TypeOK
<1>3. FlightInv
  BY <1>1, IdleType DEF Init, FlightInv, Leading
<1>4. CachesInv
  BY DEF Init, CachesInv
<1> QED
  BY <1>1, <1>2, <1>3, <1>4, IdleInvariant DEF Inv

\* Every step keeps the invariant.
LEMMA StepInvariant == Inv /\ [Next]_vars => Inv'
<1> SUFFICES ASSUME Inv, [Next]_vars PROVE Inv'
  OBVIOUS
<1>1. CASE UNCHANGED vars
  BY <1>1 DEF vars, Inv, TypeOK, CachesInv, FlightInv
<1>2. CASE Expire
  BY <1>2, ExpireStep
<1>3. ASSUME NEW r \in Requests, Arrive(r) PROVE Inv'
  BY <1>3, ArriveStep
<1>4. ASSUME NEW r \in Requests, Step(r) PROVE Inv'
  BY <1>4, PreDispatchStep, DeleteDomainStep, GetKeyStep, DialStep, CheckStep, JoinStep,
     RecheckStep, AttestOnConnStep, AddSPKIStep, LandStep, EncryptBodyStep, SendRequestStep,
     StoreReportStep, CheckMarkerStep, ClearMarkerStep, PutKeyStep, RelayStep, PromoteStep,
     FailureSteps
     DEF Step
<1> QED
  BY <1>1, <1>2, <1>3, <1>4 DEF Next

\* The inductive invariant holds in every reachable state.
THEOREM Invariance == Spec => []Inv
  BY InitInvariant, StepInvariant, PTL DEF Spec

\* The caches, the singleflight group and the handlers' locals have their
\* types.
THEOREM TypeCorrect == Spec => []TypeOK
<1>1. Inv => TypeOK
  BY DEF Inv
<1> QED
  BY <1>1, Invariance, PTL

\* No request body is written to a peer that no passing attestation named, for
\* any number of requests that share pins and attestations (HandlePinned).
THEOREM AttestedPeers == Spec => []SentOnlyToAttestedPeer
<1>1. Inv => SentOnlyToAttestedPeer
  BY DEF Inv, RequestInv, PeerInv, SentOnlyToAttestedPeer
<1> QED
  BY <1>1, Invariance, PTL

\* With E2EE, no request body is written except encrypted to a bound key, even
\* under --force (encryptBody).
THEOREM BoundKeys == Spec => []SentOnlyToBoundKey
<1>1. Inv => SentOnlyToBoundKey
  BY DEF Inv, RequestInv, SessionInv, SentOnlyToBoundKey
<1> QED
  BY <1>1, Invariance, PTL

\* With E2EE, no answer is relayed without a report that binds the key and
\* that is not blocked, or --force (pinnedPostDispatchE2EE).
THEOREM Reported == Spec => []RelayedOnlyUnderReport
<1>1. Inv => RelayedOnlyUnderReport
  BY DEF Inv, RequestInv, ReportInv, RelayedOnlyUnderReport
<1> QED
  BY <1>1, Invariance, PTL

\* Whoever waits for an attestation waits for a live leader (verifySF.Do).
THEOREM LiveLeaders == Spec => []NoOrphanedWaiter
<1>1. Inv => NoOrphanedWaiter
  <2> SUFFICES ASSUME Inv, NEW r \in Requests, req[r].pc = "wait"
               PROVE  LET leader == flight[req[r].peer] IN
                      /\ leader # None
                      /\ req[leader].pc \in {"recheck", "attest", "add", "land"}
                      /\ req[leader].peer = req[r].peer
    BY DEF NoOrphanedWaiter
  <2>1. req[r].peer \in Peers
    BY HandlerInv DEF RequestInv, PlaceInv, OnConnection
  <2> QED
    BY <2>1 DEF Inv, FlightInv, Leading
<1> QED
  BY <1>1, Invariance, PTL

\* A failure marker disappears only in the step of a request that holds a
\* fresh report which binds the key (pinnedPostDispatchE2EE).
THEOREM MarkerCleared == Spec => MarkerClearedByFreshReport
<1> DEFINE Cleared(m) == \E r \in Requests : /\ req[r].pc = "clear" /\ req[r].model = m
                                             /\ req[r].fresh /\ req[r].rep.bound
           A == \A m \in Models : m \in failed /\ m \notin failed' => Cleared(m)
<1>1. Inv /\ [Next]_vars => [A]_vars
  <2> SUFFICES ASSUME Inv, Next, NEW m \in Models, m \in failed, m \notin failed'
               PROVE  Cleared(m)
    OBVIOUS
  <2>1. PICK r \in Requests : ClearMarker(r)
    <3>1. ~Expire /\ \A r \in Requests : ~Arrive(r)
      BY DEF Expire, Arrive, shared
    <3>2. PICK r \in Requests : Step(r)
      BY <3>1 DEF Next
    <3> QED
      BY <3>2 DEF Step, PreDispatch, DeleteDomain, GetKey, Dial, Check, Join, Recheck,
                  AttestOnConn, AddSPKI, Land, EncryptBody, SendRequest, StoreReport,
                  CheckMarker, PutKey, Relay, Promote, Mark, Demote, PutDemoted, Wipe, WipeKey,
                  Record, shared
  <2>2. req[r].pc = "clear" /\ failed' = failed \ {req[r].model}
    BY <2>1 DEF ClearMarker
  <2>3. req[r].model = m
    BY <2>2
  <2>4. req[r].fresh /\ req[r].rep.bound
    BY <2>2, HandlerInv DEF RequestInv, ReportInv
  <2> QED
    BY <2>2, <2>3, <2>4
<1> QED
  BY <1>1, Invariance, PTL DEF Spec, MarkerClearedByFreshReport

(***************************************************************************)
(* The refinement of Exchange                                              *)
(***************************************************************************)

\* Where the proxy holds the body.
Before == {"pre", "evict", "key", "dial", "check", "join", "wait", "recheck", "attest",
           "add", "land", "encrypt"}

\* How a handler goes from one place to the next.
Walks(q, p) ==
  \/ q.pc = "idle" /\ p.pc \in {"idle", "pre"}
  \/ q.pc \in Before /\ p.pc \in Before \cup {"idle", "send", "record"}
  \/ q.pc \in Before /\ p.pc = "store" /\ p.resp = "status"
  \/ q.pc = "send" /\ p.pc \in {"store", "record"}
  \/ q.pc \in Answered /\ p.pc \in Answered \cup {"relay"} /\ p.resp = q.resp
  \/ q.pc \in Answered /\ p.pc \in {"record", "wipe"}
  \/ q.pc = "relay" /\ q.resp = "ok" /\ p.pc \in {"idle", "promote", "mark"}
  \/ q.pc = "relay" /\ p.pc = "idle"
  \/ q.pc \in Closing /\ p.pc \in Closing \cup {"idle"}

\* What Set, Goto and Drop do to the place of a handler.
LEMMA Moves ==
  ASSUME Inv, NEW r \in Requests
  PROVE  /\ \A x : Set(r, x) => req'[r] = x
         /\ Set(r, Idle) => req'[r].pc = "idle"
         /\ \A x \in PCs : Goto(r, x) => req'[r].pc = x /\ req'[r].resp = req[r].resp
         /\ \A x \in PCs : Set(r, Drop(req[r], x)) => req'[r].pc = x
<1>1. req \in [Requests -> Request] /\ req[r] \in Request
  BY DEF Inv, TypeOK
<1>2. \A x : Set(r, x) => req'[r] = x
  BY <1>1 DEF Set
<1>3. ASSUME NEW x \in PCs PROVE LET p == [req[r] EXCEPT !.pc = x] IN p.pc = x /\ p.resp = req[r].resp
  BY <1>1 DEF Request
<1>4. \A x \in PCs : Drop(req[r], x).pc = x
  BY DEF Drop, Idle
<1>5. \A x \in PCs : Goto(r, x) => req'[r].pc = x /\ req'[r].resp = req[r].resp
  BY <1>2, <1>3 DEF Goto
<1> QED
  BY <1>2, <1>4, <1>5, IdleType

LEMMA ArrivalWalks ==
  ASSUME Inv, NEW r \in Requests,
         Arrive(r) \/ PreDispatch(r) \/ DeleteDomain(r) \/ GetKey(r) \/ Dial(r) \/ Check(r)
  PROVE  Walks(req[r], req'[r])
<1> DEFINE q == req[r]
           p == req'[r]
<1>0. q \in Request /\ \A x : Set(r, x) => p = x
  BY HandlerInv, Moves
<1>1. CASE Arrive(r)
  <2>1. PICK m \in Models :
          Set(r, IF m \in neg THEN Idle ELSE [Idle EXCEPT !.pc = "pre", !.model = m])
    BY <1>1 DEF Arrive
  <2>2. [Idle EXCEPT !.pc = "pre", !.model = m].pc = "pre"
    BY DEF Idle
  <2>3. q.pc = "idle" /\ p.pc \in {"idle", "pre"}
    BY <1>0, <1>1, <2>1, <2>2, IdleType DEF Arrive
  <2> QED
    BY <2>3 DEF Walks
<1>2. CASE PreDispatch(r)
  <2>1. \A d : [q EXCEPT !.pc = "evict", !.dom = d].pc = "evict"
    BY <1>0 DEF Request
  <2>2. [q EXCEPT !.pc = "key"].pc = "key"
    BY <1>0 DEF Request
  <2>3. Goto(r, "dial") => p.pc = "dial"
    BY Moves, Places
  <2>4. Set(r, Idle) => p.pc = "idle"
    BY Moves
  <2>5. Set(r, [q EXCEPT !.pc = "key"]) => p.pc = "key"
    BY <1>0, <2>2
  <2>6. (\E d : Set(r, [q EXCEPT !.pc = "evict", !.dom = d])) => p.pc = "evict"
    BY <1>0, <2>1
  <2>7. p.pc \in {"dial", "idle", "key", "evict"}
    <3>1. \/ Goto(r, "dial") \/ Set(r, Idle) \/ Set(r, [q EXCEPT !.pc = "key"])
          \/ \E d : Set(r, [q EXCEPT !.pc = "evict", !.dom = d])
      BY <1>2 DEF PreDispatch
    <3> QED
      BY <2>3, <2>4, <2>5, <2>6, <3>1
  <2> QED
    BY <1>2, <2>7 DEF PreDispatch, Walks, Before
<1>3. CASE DeleteDomain(r)
  <2>1. [q EXCEPT !.pc = "key", !.dom = None].pc = "key"
    BY <1>0 DEF Request
  <2> QED
    BY <1>0, <1>3, <2>1 DEF DeleteDomain, Walks, Before
<1>4. CASE GetKey(r)
  <2>1. \A k : [q EXCEPT !.pc = "dial", !.skey = k].pc = "dial"
    BY <1>0 DEF Request
  <2> QED
    BY <1>0, <1>4, <2>1 DEF GetKey, Walks, Before
<1>5. CASE Dial(r)
  <2>1. \A c : [q EXCEPT !.pc = "check", !.peer = c].pc = "check"
    BY <1>0 DEF Request
  <2>2. p.pc \in {"record", "check"}
    <3>1. Set(r, Drop(q, "record")) \/ \E c : Set(r, [q EXCEPT !.pc = "check", !.peer = c])
      BY <1>5 DEF Dial
    <3>2. Set(r, Drop(q, "record")) => p.pc = "record"
      BY Moves, Places
    <3>3. ASSUME NEW c, Set(r, [q EXCEPT !.pc = "check", !.peer = c]) PROVE p.pc = "check"
      BY <1>0, <2>1, <3>3
    <3> QED
      BY <3>1, <3>2, <3>3
  <2> QED
    BY <1>5, <2>2 DEF Dial, Walks, Before
<1>6. CASE Check(r)
  BY <1>6, Moves, Places DEF Check, Walks, Before
<1> QED
  BY <1>1, <1>2, <1>3, <1>4, <1>5, <1>6

LEMMA AttestationWalks ==
  ASSUME Inv, NEW r \in Requests, Join(r) \/ Recheck(r) \/ AttestOnConn(r) \/ AddSPKI(r)
  PROVE  Walks(req[r], req'[r])
<1> DEFINE q == req[r]
           p == req'[r]
<1>0. q \in Request /\ \A x : Set(r, x) => p = x
  BY HandlerInv, Moves
<1>1. CASE Join(r)
  <2>1. p.pc \in {"recheck", "wait"}
    BY <1>1, Moves, Places DEF Join
  <2> QED
    BY <1>1, <2>1 DEF Join, Walks, Before
<1>2. CASE Recheck(r)
  BY <1>2, Moves, Places DEF Recheck, Walks, Before
<1>3. CASE AttestOnConn(r)
  <2>1. [q EXCEPT !.pc = "land", !.err = TRUE].pc = "land"
    BY <1>0 DEF Request
  <2>2. \A x, y, z : [q EXCEPT !.pc = x, !.rep = y, !.key = z].pc = x
    BY <1>0 DEF Request
  <2>3. CASE Set(r, [q EXCEPT !.pc = "land", !.err = TRUE])
    BY <1>0, <1>3, <2>1, <2>3 DEF AttestOnConn, Walks, Before
  <2>4. ASSUME NEW d, NEW y, NEW z,
               Set(r, [q EXCEPT !.pc = IF Blocked(d) THEN "land" ELSE "add", !.rep = y, !.key = z])
        PROVE  Walks(q, p)
    <3> DEFINE x == IF Blocked(d) THEN "land" ELSE "add"
    <3>0. x \in {"land", "add"} /\ Set(r, [q EXCEPT !.pc = x, !.rep = y, !.key = z])
      BY <2>4
    <3> HIDE DEF x
    <3>1. p = [q EXCEPT !.pc = x, !.rep = y, !.key = z]
      BY <1>0, <3>0, Zenon
    <3>2. p.pc \in {"land", "add"}
      BY <2>2, <3>0, <3>1
    <3> QED
      BY <1>3, <3>2 DEF AttestOnConn, Walks, Before
  <2> QED
    BY <1>3, <2>3, <2>4 DEF AttestOnConn
<1>4. CASE AddSPKI(r)
  BY <1>4, Moves, Places DEF AddSPKI, Walks, Before
<1> QED
  BY <1>1, <1>2, <1>3, <1>4

LEMMA SendWalks ==
  ASSUME Inv, NEW r \in Requests, EncryptBody(r) \/ SendRequest(r)
  PROVE  Walks(req[r], req'[r])
<1> DEFINE q == req[r]
           p == req'[r]
<1>0. q \in Request /\ \A x : Set(r, x) => p = x
  BY HandlerInv, Moves
<1>1. Set(r, Drop(q, "record")) => p.pc = "record"
  BY Moves, Places
<1>2. CASE EncryptBody(r)
  <2> DEFINE a == [q EXCEPT !.pc = "store", !.resp = "status", !.peer = None, !.skey = None]
             b == [q EXCEPT !.pc = "send", !.skey = None]
             c == [q EXCEPT !.pc = "send", !.sess = SessionKey(q), !.skey = None]
  <2>1. q.pc = "encrypt" /\ (Set(r, a) \/ Set(r, b) \/ Set(r, c) \/ Set(r, Drop(q, "record")))
    BY <1>2 DEF EncryptBody
  <2>2. a.pc = "store" /\ a.resp = "status"
    BY <1>0 DEF Request
  <2>3. b.pc = "send" /\ c.pc = "send"
    BY <1>0 DEF Request
  <2> HIDE DEF a, b, c
  <2>4. (p.pc = "store" /\ p.resp = "status") \/ p.pc \in {"send", "record"}
    BY <1>0, <1>1, <2>1, <2>2, <2>3
  <2> QED
    BY <2>1, <2>4 DEF Walks, Before
<1>3. CASE SendRequest(r)
  <2>1. \A x : [q EXCEPT !.pc = "store", !.resp = x, !.peer = None].pc = "store"
    BY <1>0 DEF Request
  <2>2. p.pc \in {"store", "record"}
    BY <1>0, <1>1, <1>3, <2>1 DEF SendRequest
  <2> QED
    BY <1>3, <2>2 DEF SendRequest, Walks
<1> QED
  BY <1>2, <1>3

LEMMA AnswerWalks ==
  ASSUME Inv, NEW r \in Requests,
         StoreReport(r) \/ CheckMarker(r) \/ ClearMarker(r) \/ PutKey(r) \/ Relay(r)
  PROVE  Walks(req[r], req'[r])
<1> DEFINE q == req[r]
           p == req'[r]
<1>0. q \in Request /\ \A x : Set(r, x) => p = x
  BY HandlerInv, Moves
<1>1. \A x \in {"record", "wipe", "mark"} : Set(r, Drop(q, x)) => p.pc = x
  BY Moves, Places
<1>2. CASE StoreReport(r)
  <2> DEFINE x == IF prov.e2ee THEN "marker" ELSE "putkey"
             y == IF q.rep # None THEN q.rep ELSE cache[q.model]
             f == q.rep # None
             n == [q EXCEPT !.pc = x, !.rep = y, !.fresh = f]
  <2>0. Set(r, Drop(q, "record")) \/ Set(r, n)
    BY <1>2 DEF StoreReport
  <2>1. x \in {"marker", "putkey"}
    OBVIOUS
  <2> HIDE DEF x, y, f
  <2>2. n.pc = x /\ n.resp = q.resp
    BY <1>0 DEF Request
  <2> HIDE DEF n
  <2>3. p.pc = "record" \/ (p.pc = x /\ p.resp = q.resp)
    BY <1>0, <1>1, <2>0, <2>2
  <2>4. q.pc = "store"
    BY <1>2 DEF StoreReport
  <2> QED
    BY <2>1, <2>3, <2>4 DEF Walks, Answered
<1>3. CASE CheckMarker(r)
  <2>1. q.pc = "marker" /\ (Goto(r, "putkey") \/ Goto(r, "clear") \/ Set(r, Drop(q, "wipe")))
    BY <1>3 DEF CheckMarker, Goto
  <2>2. (p.pc \in {"putkey", "clear"} /\ p.resp = q.resp) \/ p.pc = "wipe"
    BY <1>1, <2>1, Moves, Places
  <2> QED
    BY <2>1, <2>2 DEF Walks, Answered
<1>4. CASE ClearMarker(r)
  <2>1. q.pc = "clear" /\ p.pc = "putkey" /\ p.resp = q.resp
    BY <1>4, Moves, Places DEF ClearMarker
  <2> QED
    BY <2>1 DEF Walks, Answered
<1>5. CASE PutKey(r)
  <2> DEFINE n == [q EXCEPT !.pc = "relay", !.key = None, !.fresh = FALSE]
  <2>1. n.pc = "relay" /\ n.resp = q.resp
    BY <1>0 DEF Request
  <2>2. q.pc = "putkey" /\ Set(r, n)
    BY <1>5 DEF PutKey
  <2> HIDE DEF n
  <2> QED
    BY <1>0, <2>1, <2>2 DEF Walks, Answered
<1>6. CASE Relay(r)
  <2>1. /\ q.pc = "relay"
        /\ \/ Set(r, Idle)
           \/ q.resp = "ok" /\ (Goto(r, "promote") \/ Set(r, Drop(q, "mark")))
    BY <1>6 DEF Relay, Goto
  <2>2. p.pc = "idle" \/ (q.resp = "ok" /\ p.pc \in {"promote", "mark"})
    BY <1>1, <2>1, Moves, Places
  <2> QED
    BY <2>1, <2>2 DEF Walks
<1> QED
  BY <1>2, <1>3, <1>4, <1>5, <1>6

LEMMA TailWalks ==
  ASSUME Inv, NEW r \in Requests,
         \/ Promote(r) \/ Mark(r) \/ Demote(r) \/ PutDemoted(r)
         \/ Wipe(r) \/ WipeKey(r) \/ Record(r)
  PROVE  Walks(req[r], req'[r])
<1> DEFINE q == req[r]
           p == req'[r]
<1>0. q \in Request /\ \A x : Set(r, x) => p = x
  BY HandlerInv, Moves
<1>1. q.pc \in Closing
  BY DEF Promote, Mark, Demote, PutDemoted, Wipe, WipeKey, Record, Closing
<1>2. \A y : [q EXCEPT !.pc = "putdemoted", !.rep = y].pc = "putdemoted"
  BY <1>0 DEF Request
<1>3. \/ Set(r, Idle) \/ Goto(r, "demote") \/ Goto(r, "wipekey") \/ Set(r, Drop(q, "wipe"))
      \/ \E y : Set(r, [q EXCEPT !.pc = "putdemoted", !.rep = y])
  <2>1. CASE Promote(r) \/ WipeKey(r) \/ Record(r)
    BY <2>1 DEF Promote, WipeKey, Record
  <2>2. CASE Mark(r) \/ Wipe(r) \/ PutDemoted(r)
    BY <2>2 DEF Mark, Wipe, PutDemoted
  <2>3. CASE Demote(r)
    BY <2>3 DEF Demote
  <2> QED
    BY <2>1, <2>2, <2>3
<1>4. p.pc \in {"idle", "demote", "wipekey", "wipe", "putdemoted"}
  BY <1>0, <1>2, <1>3, Moves, Places
<1> QED
  BY <1>1, <1>4 DEF Walks, Closing

\* The phase of a handler, in a reachable state: the body on the wire went to
\* a vouched peer, so the session alone tells whether it is sealed.
Stage(q) == CASE q.pc = "idle" -> "idle"
              [] q.pc = "send" -> IF q.sess # None /\ q.sess.bound THEN "sealed" ELSE "plain"
              [] q.pc \in Answered -> IF q.resp = "ok" THEN "answered" ELSE "closing"
              [] q.pc = "relay" -> IF q.resp = "ok" THEN "relaying" ELSE "closing"
              [] q.pc \in Closing -> "closing"
              [] OTHER -> "held"

LEMMA StageAt ==
  ASSUME NEW q
  PROVE  /\ q.pc = "idle" => Stage(q) = "idle"
         /\ q.pc \in Before => Stage(q) = "held"
         /\ q.pc = "send" => Stage(q) = IF q.sess # None /\ q.sess.bound THEN "sealed" ELSE "plain"
         /\ q.pc \in Answered => Stage(q) = IF q.resp = "ok" THEN "answered" ELSE "closing"
         /\ q.pc = "relay" => Stage(q) = IF q.resp = "ok" THEN "relaying" ELSE "closing"
         /\ q.pc \in Closing => Stage(q) = "closing"
  BY DEF Stage, Before, Answered, Closing

\* The variables of Exchange.
Held == [r \in Requests |-> Phase(req[r])]
Judged == [r \in Requests |-> Verdict(req[r])]

PhaseInv == Held = [r \in Requests |-> Stage(req[r])]

LEMMA Phased == Inv => PhaseInv
<1> SUFFICES ASSUME Inv, NEW r \in Requests PROVE Phase(req[r]) = Stage(req[r])
  BY DEF PhaseInv, Held
<1> DEFINE q == req[r]
<1>1. RequestInv(prov, vouched, q)
  BY HandlerInv
<1>2. q.pc = "send" => q.peer \in vouched /\ (prov.e2ee => q.sess # None /\ q.sess.bound)
  BY <1>1 DEF RequestInv, PeerInv, SessionInv
<1> HIDE DEF q
<1>3. q.pc = "send" => Sent(q) = IF q.sess # None /\ q.sess.bound THEN "sealed" ELSE "plain"
  BY <1>2 DEF Sent
<1>4. Phase(q) = Stage(q)
  <2>1. CASE q.pc = "send"
    BY <1>3, <2>1 DEF Phase, Stage, Answered, Closing
  <2>2. CASE q.pc # "send"
    BY <2>2 DEF Phase, Stage, Answered, Closing
  <2> QED
    BY <2>1, <2>2
<1> QED
  BY <1>4 DEF q

\* The steps Exchange allows one request, from phase a to phase b, where v is
\* the verdict after the step.
Turns(a, b, v) ==
  \/ a = b /\ a # "relaying"
  \/ a = "idle" /\ b = "held"
  \/ a = "held" /\ (b = "sealed" \/ (b = "plain" /\ ~prov.e2ee))
  \/ a \in {"sealed", "plain"} /\ b = "answered"
  \/ a = "answered" /\ b = "relaying" /\ v
  \/ a # "idle" /\ b \in {"idle", "closing"}

\* A walk of a handler is a turn of its request.
LEMMA WalksTurn ==
  ASSUME NEW q, NEW p, NEW v, RequestInv(prov, v, p), Walks(q, p)
  PROVE  /\ Turns(Stage(q), Stage(p), Verdict(p))
         /\ Stage(q) \in Exchanges!Phases
<1> USE StageAt DEF Turns, Exchanges!Phases
<1>1. CASE q.pc = "idle" /\ p.pc \in {"idle", "pre"}
  BY <1>1 DEF Before
<1>2. CASE q.pc \in Before /\ p.pc \in Before \cup {"idle", "record"}
  BY <1>2 DEF Closing
<1>3. CASE q.pc \in Before /\ p.pc = "send"
  <2>1. prov.e2ee => p.sess # None /\ p.sess.bound
    BY <1>3 DEF RequestInv, SessionInv
  <2>2. Stage(q) = "held" /\ (Stage(p) = "sealed" \/ (Stage(p) = "plain" /\ ~prov.e2ee))
    BY <1>3, <2>1
  <2> QED
    BY <2>2
<1>4. CASE q.pc \in Before /\ p.pc = "store" /\ p.resp = "status"
  BY <1>4 DEF Answered
<1>5. CASE q.pc = "send" /\ p.pc \in {"store", "record"}
  BY <1>5 DEF Answered, Closing
<1>6. CASE q.pc \in Answered /\ p.pc \in Answered /\ p.resp = q.resp
  BY <1>6
<1>7. CASE q.pc \in Answered /\ p.pc = "relay" /\ p.resp = q.resp
  <2>1. Verdict(p)
    BY <1>7 DEF RequestInv, ReportInv, Verdict
  <2> QED
    BY <1>7, <2>1
<1>8. CASE q.pc \in Answered /\ p.pc \in {"record", "wipe"}
  BY <1>8 DEF Closing
<1>9. CASE q.pc = "relay" /\ q.resp = "ok" /\ p.pc \in {"idle", "promote", "mark"}
  BY <1>9 DEF Closing
<1>10. CASE q.pc = "relay" /\ p.pc = "idle"
  BY <1>10
<1>11. CASE q.pc \in Closing /\ p.pc \in Closing \cup {"idle"}
  BY <1>11
<1> QED
  BY <1>1, <1>2, <1>3, <1>4, <1>5, <1>6, <1>7, <1>8, <1>9, <1>10, <1>11 DEF Walks

LEMMA TurnRefines ==
  ASSUME NEW r \in Requests, NEW b,
         Held' = [Held EXCEPT ![r] = b],
         Held[r] \in Exchanges!Phases,
         Turns(Held[r], b, Judged'[r]),
         Judged' \in [Requests -> BOOLEAN],
         \A s \in Requests \ {r} : Judged'[s] = Judged[s],
         prov' = prov
  PROVE  Exchanges!Next
<1> DEFINE a == Held[r]
<1>0. Held \in [Requests -> {Held[s] : s \in Requests}] /\ Held'[r] = b
  BY DEF Held
<1>1. Exchanges!Judge
  <2>1. ~(a = "relaying" /\ b = "relaying")
    BY DEF Turns
  <2> QED
    BY <1>0, <2>1 DEF Exchanges!Judge, Held, Judged
<1>2. ASSUME a # "idle", b = "closing" PROVE Exchanges!Close({r})
  BY <1>0, <1>2 DEF Exchanges!Close, Held
<1>3. ASSUME a = b PROVE Exchanges!Close({})
  BY <1>0, <1>3 DEF Exchanges!Close, Held
<1>4. \A from : a \in from => Exchanges!Move(r, from, b)
  BY DEF Exchanges!Move, Held
<1>5. \/ Exchanges!Close({}) \/ Exchanges!Close({r})
      \/ Exchanges!Accept(r) \/ Exchanges!Seal(r) \/ Exchanges!Expose(r)
      \/ Exchanges!Answer(r) \/ Exchanges!Relay(r) \/ Exchanges!End(r)
  <2>1. CASE a = "idle" /\ b = "held"
    BY <1>4, <2>1 DEF Exchanges!Accept
  <2>2. CASE a = "held" /\ b = "sealed"
    BY <1>4, <2>2 DEF Exchanges!Seal
  <2>3. CASE a = "held" /\ b = "plain" /\ ~prov.e2ee
    BY <1>4, <2>3 DEF Exchanges!Expose
  <2>4. CASE a \in {"sealed", "plain"} /\ b = "answered"
    BY <1>4, <2>4 DEF Exchanges!Answer
  <2>5. CASE a = "answered" /\ b = "relaying" /\ Judged'[r]
    <3>1. Exchanges!Move(r, {"sealed", "plain", "answered"}, "relaying")
      BY <1>4, <2>5
    <3> QED
      BY <2>5, <3>1 DEF Exchanges!Relay, Judged
  <2>6. CASE a # "idle" /\ b = "idle"
    BY <1>4, <2>6 DEF Exchanges!End
  <2> QED
    BY <1>2, <1>3, <2>1, <2>2, <2>3, <2>4, <2>5, <2>6 DEF Turns
<1>6. {} \in SUBSET Requests /\ {r} \in SUBSET Requests
  OBVIOUS
<1>7. Judged' \in [Requests -> BOOLEAN] /\ prov'.e2ee = prov.e2ee
  OBVIOUS
<1> QED
  BY <1>1, <1>5, <1>6, <1>7 DEF Exchanges!Next, Judged

\* The provider never changes.
LEMMA SameProvider == ASSUME [Next]_vars PROVE prov' = prov
<1>1. CASE UNCHANGED vars
  BY <1>1 DEF vars
<1>2. CASE Expire
  BY <1>2 DEF Expire
<1>3. ASSUME NEW r \in Requests, Arrive(r) \/ Step(r) PROVE prov' = prov
  BY <1>3 DEF Step, Arrive, PreDispatch, DeleteDomain, GetKey, Dial, Check, Join, Recheck,
     AttestOnConn, AddSPKI, Land, EncryptBody, SendRequest, StoreReport, CheckMarker,
     ClearMarker, PutKey, Relay, Promote, Mark, Demote, PutDemoted, Wipe, WipeKey, Record
<1> QED
  BY <1>1, <1>2, <1>3 DEF Next

\* Phases and verdicts depend on nothing but the handler and the provider.
LEMMA LocalViews ==
  ASSUME PhaseInv, PhaseInv', prov' = prov
  PROVE  /\ Held = [r \in Requests |-> Stage(req[r])]
         /\ Held' = [r \in Requests |-> Stage(req'[r])]
         /\ Judged' = [r \in Requests |-> Verdict(req'[r])]
         /\ Judged' \in [Requests -> BOOLEAN]
<1>1. Held = [r \in Requests |-> Stage(req[r])]
  BY DEF PhaseInv
<1>2. Held' = [r \in Requests |-> Stage(req'[r])]
  BY DEF PhaseInv
<1>3. Judged' = [r \in Requests |-> Verdict(req'[r])]
  BY DEF Judged, Verdict, Blocked
<1>4. \A q : Verdict(q) \in BOOLEAN
  BY DEF Verdict
<1> QED
  BY <1>1, <1>2, <1>3, <1>4

\* A step of one handler.
LEMMA WalkRefines ==
  ASSUME Inv, Inv', PhaseInv, PhaseInv', prov' = prov,
         NEW r \in Requests, NEW p, Set(r, p), Walks(req[r], req'[r])
  PROVE  Exchanges!Next
<1>1. req' = [req EXCEPT ![r] = req'[r]] /\ req \in [Requests -> Request]
  BY DEF Set, Inv, TypeOK
<1>2. \A s \in Requests \ {r} : req'[s] = req[s]
  BY <1>1
<1>3. RequestInv(prov, vouched', req'[r])
  BY DEF Inv
<1>4. /\ Turns(Stage(req[r]), Stage(req'[r]), Verdict(req'[r]))
      /\ Stage(req[r]) \in Exchanges!Phases
  BY <1>3, WalksTurn
<1>5. Held[r] = Stage(req[r]) /\ Held' = [Held EXCEPT ![r] = Stage(req'[r])]
  BY <1>2, LocalViews
<1>6. /\ Judged'[r] = Verdict(req'[r])
      /\ \A s \in Requests \ {r} : Judged'[s] = Judged[s]
  BY <1>2, LocalViews DEF Judged
<1>7. Judged' \in [Requests -> BOOLEAN]
  BY LocalViews
<1> QED
  BY <1>4, <1>5, <1>6, <1>7, TurnRefines

\* The end of a call moves the leader and the waiters at once: an error closes
\* them all, a report lets them all go on.
LEMMA LandRefines ==
  ASSUME Inv, PhaseInv, PhaseInv', prov' = prov, NEW r \in Requests, Land(r)
  PROVE  Exchanges!Next
<1> DEFINE q == req[r]
           S == IF q.err THEN Callers(r) ELSE {}
<1>1. /\ q.pc = "land" /\ req \in [Requests -> Request]
      /\ req' = [w \in Requests |->
                   IF w \in Callers(r)
                     THEN IF q.err THEN Drop(req[w], "record")
                          ELSE [req[w] EXCEPT !.pc = "encrypt", !.rep = q.rep, !.key = q.key]
                     ELSE req[w]]
  BY DEF Land, Inv, TypeOK
<1>2. Callers(r) \subseteq Requests /\ \A w \in Callers(r) : req[w].pc \in {"land", "wait"}
  BY <1>1 DEF Callers
<1>3. \A w \in Requests \ Callers(r) : req'[w] = req[w]
  BY <1>1
<1>4. ASSUME NEW w \in Callers(r), q.err PROVE req'[w].pc = "record"
  <2>1. req'[w] = Drop(req[w], "record")
    BY <1>1, <1>2, <1>4
  <2> QED
    BY <2>1 DEF Drop, Idle
<1>5. ASSUME NEW w \in Callers(r), ~q.err PROVE req'[w].pc = "encrypt"
  <2>1. req'[w] = [req[w] EXCEPT !.pc = "encrypt", !.rep = q.rep, !.key = q.key]
    BY <1>1, <1>2, <1>5
  <2>2. req[w] \in Request
    BY <1>1, <1>2
  <2> QED
    BY <2>1, <2>2 DEF Request
<1>6. \A w \in Callers(r) : Stage(req[w]) = "held"
  BY <1>2, StageAt DEF Before
<1>7. \A w \in Callers(r) : Stage(req'[w]) = IF q.err THEN "closing" ELSE "held"
  BY <1>4, <1>5, StageAt DEF Before, Closing
<1> HIDE DEF q
<1>8. Held' = [w \in Requests |-> IF w \in S THEN "closing" ELSE Held[w]]
  BY <1>2, <1>3, <1>6, <1>7, LocalViews
<1>9. \A w \in S : w \in Requests /\ Held[w] = "held"
  BY <1>2, <1>6, LocalViews
<1>10. S \in SUBSET Requests
  BY <1>2
<1> HIDE DEF S
<1>11. Exchanges!Close(S)
  BY <1>8, <1>9 DEF Exchanges!Close, Exchanges!Phases, Held
<1>12. Exchanges!Judge
  <2> SUFFICES ASSUME NEW w \in Requests, Held[w] = "relaying" PROVE Judged'[w] = Judged[w]
    BY DEF Exchanges!Judge, Held, Judged
  <2>1. w \notin Callers(r)
    BY <1>6, LocalViews
  <2> QED
    BY <1>3, <2>1, LocalViews DEF Judged
<1>13. Judged' \in [Requests -> BOOLEAN] /\ prov'.e2ee = prov.e2ee
  BY LocalViews
<1> QED
  BY <1>10, <1>11, <1>12, <1>13 DEF Exchanges!Next, Judged

LEMMA NextRefines ==
  ASSUME Inv, Inv', PhaseInv, PhaseInv', [Next]_vars
  PROVE  Exchanges!Next \/ UNCHANGED <<prov.e2ee, Held, Judged>>
<1>0. prov' = prov
  BY SameProvider
<1>1. ASSUME req' = req PROVE UNCHANGED <<prov.e2ee, Held, Judged>>
  BY <1>0, <1>1, LocalViews DEF Judged
<1>2. CASE UNCHANGED vars \/ Expire
  BY <1>1, <1>2 DEF vars, Expire
<1>3. ASSUME NEW r \in Requests, Land(r) PROVE Exchanges!Next
  BY <1>0, <1>3, LandRefines
<1>4. ASSUME NEW r \in Requests, Arrive(r) \/ Step(r), ~Land(r) PROVE Exchanges!Next
  <2>1. Walks(req[r], req'[r])
    BY <1>4, ArrivalWalks, AttestationWalks, SendWalks, AnswerWalks, TailWalks DEF Step
  <2>2. \E p : Set(r, p)
    BY <1>4 DEF Step, Arrive, PreDispatch, DeleteDomain, GetKey, Dial, Check, Join, Recheck,
       AttestOnConn, AddSPKI, EncryptBody, SendRequest, StoreReport, CheckMarker, ClearMarker,
       PutKey, Relay, Promote, Mark, Demote, PutDemoted, Wipe, WipeKey, Record, Goto
  <2> QED
    BY <1>0, <2>1, <2>2, WalkRefines
<1> QED
  BY <1>2, <1>3, <1>4 DEF Next

\* The handlers of the pinned connections, with their shared pins, caches and
\* attestation calls, implement Exchange, whatever is enforced or forced: a
\* body goes only to a vouched peer, sealed to a bound key where the provider
\* has E2EE, and no answer is relayed except under a report that lets it pass.
THEOREM ExchangesOnly == Spec => ImplementsExchange
<1>1. Init => Exchanges!Init
  <2> SUFFICES ASSUME Init PROVE Exchanges!Init
    OBVIOUS
  <2>1. prov.e2ee \in BOOLEAN
    BY PinnedFlagAssumption DEF Init, Provider
  <2>2. Phase(Idle) = "idle" /\ Verdict(Idle) \in BOOLEAN
    BY DEF Phase, Idle, Verdict, Answered, Closing
  <2> QED
    BY <2>1, <2>2 DEF Init, Exchanges!Init
<1>2. Inv /\ Inv' /\ PhaseInv /\ PhaseInv' /\ [Next]_vars =>
        [Exchanges!Next]_Exchanges!vars
  BY NextRefines DEF Exchanges!vars, Held, Judged
<1> QED
  BY <1>1, <1>2, Phased, Invariance, PTL DEF Spec, ImplementsExchange, Exchanges!Spec

=============================================================================
