------------------------- MODULE ProxyRequestProofs -------------------------
(***************************************************************************)
(* Proofs of the safety properties of ProxyRequest, for every number of    *)
(* concurrent requests, every set of attestation documents and every kind  *)
(* of provider.                                                            *)
(***************************************************************************)
EXTENDS ProxyRequest, TLAPS

(***************************************************************************)
(* What the helpers do to the locals of a handler                          *)
(***************************************************************************)

\* The first attempt is an attempt.
LEMMA FirstTry == 1 \in Tries
  BY BoundAssumption DEF Tries

\* The places of a handler, cited instead of expanding PCs beside Request.
LEMMA Places ==
  /\ "idle" \in PCs /\ "lookup" \in PCs /\ "attest" \in PCs /\ "store" \in PCs
  /\ "admit" \in PCs /\ "gate" \in PCs /\ "build" \in PCs /\ "fetchkey" \in PCs
  /\ "send" \in PCs /\ "relay" \in PCs /\ "promote" \in PCs /\ "mark" \in PCs
  /\ "demote" \in PCs /\ "putdemoted" \in PCs /\ "wipe" \in PCs /\ "wipekey" \in PCs
  BY DEF PCs

\* A fresh handler satisfies the invariant.
LEMMA IdleInvariant == RequestInv(Idle)
<1>1. Idle \in Request
  BY FirstTry, Places DEF Idle, Request
<1>2. /\ ReportedInv(Idle) /\ ActiveInv(Idle) /\ SessionInv(Idle)
      /\ AnswerInv(Idle) /\ NonceInv(Idle) /\ RawInv(Idle)
  BY DEF Idle, ReportedInv, ActiveInv, SessionInv, AnswerInv, NonceInv, RawInv, Reported, Forwarding
<1> QED
  BY <1>1, <1>2 DEF RequestInv

\* A handler that returns having zeroed its session, and having answered.
LEMMA ReturnInvariant ==
  ASSUME NEW q \in Request, q.sess = None, q.hdr <= 1,
         NEW o \in {"ok", "failed"}, o = "failed" => q.hdr = 1
  PROVE  RequestInv(Return(q, o))
<1>1. Idle \in Request
  BY IdleInvariant DEF RequestInv
<1>2. q.hdr \in Nat /\ None \in Raw \cup {None} /\ o \in {"none", "ok", "failed"}
  BY DEF Request
<1> DEFINE n == [Idle EXCEPT !.out = o, !.hdr = q.hdr, !.sess = q.sess]
<1>3. n \in Request
  BY <1>1, <1>2, ZenonT(60) DEF Request
<1>4. /\ n.pc = Idle.pc /\ n.raw = Idle.raw /\ n.sess = None /\ n.hdr = q.hdr /\ n.out = o
  BY <1>1 DEF Request
<1>5. n.pc = "idle" /\ n.raw = None
  BY <1>4 DEF Idle
<1>6. RequestInv(n)
  <2> HIDE DEF n
  <2> QED
    BY <1>2, <1>3, <1>4, <1>5
       DEF RequestInv, ReportedInv, ActiveInv, SessionInv, AnswerInv, NonceInv, RawInv,
           Reported, Forwarding
<1> QED
  BY <1>6 DEF Return

\* A handler that fails answers the client unless it already has.
LEMMA FailInvariant ==
  ASSUME NEW q \in Request, q.sess = None, q.hdr <= 1
  PROVE  RequestInv(Fail(q))
<1> DEFINE p == [q EXCEPT !.hdr = IF @ = 0 THEN 1 ELSE @]
<1>1. q.hdr \in Nat
  BY DEF Request
<1>2. p \in Request /\ p.sess = None /\ p.hdr = 1
  BY <1>1 DEF Request
<1>3. RequestInv(Return(p, "failed"))
  <2> HIDE DEF p
  <2> QED BY <1>2, ReturnInvariant
<1> QED
  BY <1>3 DEF Fail

\* Zeroing touches the session only.
LEMMA ZeroedEffect ==
  ASSUME NEW q \in Request
  PROVE  /\ Zeroed(q) \in Request
         /\ Zeroed(q).sess = None
         /\ Zeroed(q).pc = q.pc /\ Zeroed(q).rep = q.rep /\ Zeroed(q).raw = q.raw
         /\ Zeroed(q).active = q.active /\ Zeroed(q).hdr = q.hdr
         /\ Zeroed(q).relayTry = q.relayTry /\ Zeroed(q).sendTry = q.sendTry
  BY DEF Zeroed, Request

\* The attempts of a loop never exceed chutesMaxAttempts.
LEMMA NextTry ==
  \A q, k : k \in Tries /\ k < MaxTry(q) => k + 1 \in Tries /\ k + 1 > 1
  BY BoundAssumption DEF MaxTry, Tries

\* Moving on to another attempt of the relay loop.
LEMMA NextRelayInvariant ==
  ASSUME NEW q, RequestInv(q), q.pc \in Forwarding, q.hdr = 0, q.relayTry < MaxTry(q)
  PROVE  RequestInv(NextRelay(q)) /\ NextRelay(q).pc = "build" /\ NextRelay(q).rep = q.rep
<1> DEFINE z == Zeroed(q)
           n == [z EXCEPT !.pc = "build", !.relayTry = q.relayTry + 1, !.sendTry = 1,
                          !.resp = "none", !.peer = "none"]
<1>1. q \in Request
  BY DEF RequestInv
<1>2. q.relayTry + 1 \in Tries /\ q.relayTry + 1 > 1
  BY <1>1, NextTry DEF Request
<1>3. z \in Request /\ z.relayTry = q.relayTry
  BY <1>1, ZeroedEffect
<1>4. NextRelay(q) = n
  BY <1>3 DEF NextRelay
<1>5. ASSUME NEW x \in Request, NEW k \in Tries
      PROVE  LET m == [x EXCEPT !.pc = "build", !.relayTry = k, !.sendTry = 1,
                                !.resp = "none", !.peer = "none"]
             IN  /\ m \in Request
                 /\ m.sess = x.sess /\ m.pc = "build" /\ m.relayTry = k
                 /\ m.rep = x.rep /\ m.raw = x.raw /\ m.active = x.active /\ m.hdr = x.hdr
  BY FirstTry, Places DEF Request
<1>6. /\ n \in Request
      /\ n.sess = None /\ n.pc = "build" /\ n.relayTry = q.relayTry + 1
      /\ n.rep = q.rep /\ n.raw = q.raw /\ n.active = q.active /\ n.hdr = q.hdr
  <2> HIDE DEF z
  <2>1. /\ n \in Request
        /\ n.sess = z.sess /\ n.pc = "build" /\ n.relayTry = q.relayTry + 1
        /\ n.rep = z.rep /\ n.raw = z.raw /\ n.active = z.active /\ n.hdr = z.hdr
    BY <1>2, <1>3, <1>5
  <2>2. z.sess = None /\ z.rep = q.rep /\ z.raw = q.raw /\ z.active = q.active /\ z.hdr = q.hdr
    BY <1>1, ZeroedEffect DEF z
  <2> QED
    BY <2>1, <2>2
<1>7. RequestInv(n)
  <2> HIDE DEF n
  <2> QED
    BY <1>2, <1>6 DEF RequestInv, ReportedInv, ActiveInv, SessionInv, AnswerInv, NonceInv, RawInv,
                      Reported, Forwarding
<1> QED
  BY <1>4, <1>6, <1>7

\* Moving on to another attempt of the upstream loop.
LEMMA NextSendInvariant ==
  ASSUME NEW q, RequestInv(q), q.pc \in Forwarding, q.hdr = 0, q.sendTry < MaxTry(q)
  PROVE  RequestInv(NextSend(q)) /\ NextSend(q).pc = "build" /\ NextSend(q).rep = q.rep
<1> DEFINE z == Zeroed(q)
           n == [z EXCEPT !.pc = "build", !.sendTry = q.sendTry + 1]
<1>1. q \in Request
  BY DEF RequestInv
<1>2. q.sendTry + 1 \in Tries /\ q.sendTry + 1 > 1
  BY <1>1, NextTry DEF Request
<1>3. z \in Request /\ z.sendTry = q.sendTry
  BY <1>1, ZeroedEffect
<1>4. NextSend(q) = n
  BY <1>3 DEF NextSend
<1>5. ASSUME NEW x \in Request, NEW k \in Tries
      PROVE  LET m == [x EXCEPT !.pc = "build", !.sendTry = k]
             IN  /\ m \in Request
                 /\ m.sess = x.sess /\ m.pc = "build" /\ m.sendTry = k
                 /\ m.rep = x.rep /\ m.raw = x.raw /\ m.active = x.active /\ m.hdr = x.hdr
  BY Places DEF Request
<1>6. /\ n \in Request
      /\ n.sess = None /\ n.pc = "build" /\ n.sendTry = q.sendTry + 1
      /\ n.rep = q.rep /\ n.raw = q.raw /\ n.active = q.active /\ n.hdr = q.hdr
  <2> HIDE DEF z
  <2>1. /\ n \in Request
        /\ n.sess = z.sess /\ n.pc = "build" /\ n.sendTry = q.sendTry + 1
        /\ n.rep = z.rep /\ n.raw = z.raw /\ n.active = z.active /\ n.hdr = z.hdr
    BY <1>2, <1>3, <1>5
  <2>2. z.sess = None /\ z.rep = q.rep /\ z.raw = q.raw /\ z.active = q.active /\ z.hdr = q.hdr
    BY <1>1, ZeroedEffect DEF z
  <2> QED
    BY <2>1, <2>2
<1>7. RequestInv(n)
  <2> HIDE DEF n
  <2> QED
    BY <1>2, <1>6 DEF RequestInv, ReportedInv, ActiveInv, SessionInv, AnswerInv, NonceInv, RawInv,
                      Reported, Forwarding
<1> QED
  BY <1>4, <1>6, <1>7

\* p is q returned, or q about to build another attempt under its report.
RetriesOrEnds(q, p) == \/ p.pc = "idle"
                       \/ p.pc = "build" /\ p.rep = q.rep

\* An upstream error leads to another attempt or to the end of the request.
LEMMA UpstreamErrorInvariant ==
  ASSUME NEW q, RequestInv(q), q.pc \in Forwarding, q.hdr = 0
  PROVE  RequestInv(UpstreamError(q)) /\ RetriesOrEnds(q, UpstreamError(q))
<1>1. CASE q.relayTry < MaxTry(q)
  BY <1>1, NextRelayInvariant DEF UpstreamError, RetriesOrEnds
<1>2. CASE ~(q.relayTry < MaxTry(q))
  <2>1. Zeroed(q) \in Request /\ Zeroed(q).sess = None /\ Zeroed(q).hdr <= 1
    BY ZeroedEffect DEF RequestInv
  <2>2. RequestInv(Fail(Zeroed(q)))
    BY <2>1, FailInvariant
  <2>3. Fail(Zeroed(q)).pc = "idle"
    BY IdleInvariant DEF Fail, Return, RequestInv, Request, Idle
  <2> QED
    BY <1>2, <2>2, <2>3 DEF UpstreamError, RetriesOrEnds
<1> QED
  BY <1>1, <1>2

\* So does an error while the body is built.
LEMMA BuildErrorInvariant ==
  ASSUME NEW q, RequestInv(q), q.pc \in Forwarding, q.hdr = 0, NEW cancelled \in BOOLEAN
  PROVE  RequestInv(BuildError(q, cancelled)) /\ RetriesOrEnds(q, BuildError(q, cancelled))
<1>1. CASE q.sendTry < MaxTry(q) /\ ~cancelled
  BY <1>1, NextSendInvariant DEF BuildError, RetriesOrEnds
<1>2. CASE ~(q.sendTry < MaxTry(q) /\ ~cancelled)
  BY <1>2, UpstreamErrorInvariant DEF BuildError
<1> QED
  BY <1>1, <1>2

\* Encrypting the body to a key with an unused nonce.
LEMMA EncryptedInvariant ==
  ASSUME NEW q, RequestInv(q), q.pc \in {"build", "fetchkey"},
         NEW k \in Keys \cup {NoKey}, NEW bound \in BOOLEAN
  PROVE  LET p == Encrypted(q, k, bound, "fresh") IN
         /\ RequestInv(p)
         /\ p.pc = "send" /\ p.rep = q.rep /\ p.raw = q.raw
         /\ p.sess # None /\ p.sess.bound = bound
<1> DEFINE x == [key |-> k, bound |-> bound, nonce |-> "fresh"]
           p == [q EXCEPT !.pc = "send", !.sess = x]
<1>1. x \in Raw /\ x # None /\ x.bound = bound /\ x.nonce = "fresh"
  BY NullAssumption DEF Raw
<1>2. q \in Request /\ x \in Raw \cup {None}
  BY <1>1 DEF RequestInv
<1>3. /\ p \in Request /\ p.pc = "send" /\ p.sess = x
      /\ p.rep = q.rep /\ p.raw = q.raw /\ p.active = q.active /\ p.hdr = q.hdr
  <2> HIDE DEF x
  <2> QED BY <1>2, Places DEF Request
<1>4. RequestInv(p)
  <2> HIDE DEF p, x
  <2> QED
    BY <1>1, <1>3 DEF RequestInv, ReportedInv, ActiveInv, SessionInv, AnswerInv, NonceInv, RawInv,
                      Reported, Forwarding
<1>5. Encrypted(q, k, bound, "fresh") = p
  BY DEF Encrypted
<1> QED
  BY <1>1, <1>3, <1>4, <1>5

\* Encrypting to the attestation the request fetched uses its nonce up.
LEMMA EncryptedToRawInvariant ==
  ASSUME NEW q, RequestInv(q), q.pc = "build", FreshRaw(q)
  PROVE  LET p == EncryptedToRaw(q) IN
         /\ RequestInv(p)
         /\ p.pc = "send" /\ p.rep = q.rep
         /\ p.sess # None /\ p.sess.bound = q.raw.bound
<1> DEFINE e == Encrypted(q, q.raw.key, q.raw.bound, q.raw.nonce)
           p == [e EXCEPT !.raw = [e.raw EXCEPT !.nonce = "spent"]]
<1>1. q \in Request /\ q.raw \in Raw /\ q.raw # None
  BY DEF RequestInv, FreshRaw, Request
<1>2. q.raw.key \in Keys \cup {NoKey} /\ q.raw.bound \in BOOLEAN /\ q.raw.nonce = "fresh"
  <2>1. q.raw.nonce # "spent"
    BY DEF FreshRaw, RequestInv, NonceInv
  <2> QED
    BY <1>1, <2>1 DEF Raw
<1>3. /\ RequestInv(e)
      /\ e.pc = "send" /\ e.rep = q.rep /\ e.raw = q.raw
      /\ e.sess # None /\ e.sess.bound = q.raw.bound
  BY <1>2, EncryptedInvariant
<1>4. /\ [e.raw EXCEPT !.nonce = "spent"] \in Raw
      /\ [e.raw EXCEPT !.nonce = "spent"].bound = q.raw.bound
  BY <1>1, <1>3 DEF Raw
<1>5. /\ p \in Request /\ p.pc = "send" /\ p.sess = e.sess /\ p.rep = q.rep
      /\ p.active = e.active /\ p.hdr = e.hdr
      /\ p.raw = [e.raw EXCEPT !.nonce = "spent"]
  <2> HIDE DEF e
  <2>1. e \in Request
    BY <1>3 DEF RequestInv
  <2>2. ASSUME NEW y \in Raw PROVE LET m == [e EXCEPT !.raw = y] IN
          /\ m \in Request /\ m.pc = e.pc /\ m.sess = e.sess /\ m.rep = e.rep
          /\ m.active = e.active /\ m.hdr = e.hdr /\ m.raw = y
    BY <2>1 DEF Request
  <2> QED
    BY <1>3, <1>4, <2>2
<1>6. RequestInv(p)
  <2> HIDE DEF p, e
  <2> QED
    BY <1>1, <1>3, <1>4, <1>5
       DEF RequestInv, ReportedInv, ActiveInv, SessionInv, AnswerInv, NonceInv, RawInv,
           Reported, Forwarding
<1>7. EncryptedToRaw(q) = p
  BY DEF EncryptedToRaw
<1> QED
  BY <1>3, <1>5, <1>6, <1>7

(***************************************************************************)
(* Every step of a handler keeps the invariant of its locals               *)
(***************************************************************************)

\* Where the handler's locals may end up, given where they are.
Kept(r) == /\ req' = [req EXCEPT ![r] = req'[r]]
           /\ RequestInv(req'[r])

\* Moving the program counter on, when nothing else changes.
LEMMA MoveEffect ==
  ASSUME NEW q \in Request, NEW x \in PCs
  PROVE  LET p == [q EXCEPT !.pc = x] IN
         /\ p \in Request /\ p.pc = x /\ p.rep = q.rep /\ p.raw = q.raw
         /\ p.active = q.active /\ p.sess = q.sess /\ p.hdr = q.hdr /\ p.out = q.out
         /\ p.relayTry = q.relayTry /\ p.sendTry = q.sendTry
  BY DEF Request

\* A report that was enforced stays enforced.
LEMMA SameReport ==
  ASSUME NEW p, NEW report \in Report, p.rep = report, ~Blocked(report) \/ Forced
  PROVE  ReportedInv(p)
  BY DEF ReportedInv

\* Set changes the locals of one handler.
LEMMA SetEffect ==
  ASSUME Inv, NEW r \in Requests, NEW q, RequestInv(q), Set(r, q)
  PROVE  Kept(r) /\ req'[r] = q
  BY DEF Inv, TypeOK, Set, Kept

\* The steps up to the gate.
LEMMA AdmissionSteps ==
  ASSUME Inv, NEW r \in Requests,
         Arrive(r) \/ Lookup(r) \/ Attest(r) \/ Store(r) \/ Admit(r) \/ Gate(r)
  PROVE  Kept(r)
<1> DEFINE q == req[r]
<1>0. RequestInv(q) /\ q \in Request
  BY DEF Inv, RequestInv
<1>1. CASE Arrive(r)
  <2>1. RequestInv(Fail(Idle))
    BY IdleInvariant, FailInvariant DEF RequestInv, Idle
  <2>2. RequestInv([Idle EXCEPT !.pc = "lookup"])
    <3> DEFINE p == [Idle EXCEPT !.pc = "lookup"]
    <3>1. Idle \in Request /\ "lookup" \in PCs
      BY IdleInvariant DEF RequestInv, PCs
    <3>2. p \in Request /\ p.pc = "lookup" /\ p.raw = None /\ p.sess = None /\ p.hdr = 0
      BY <3>1, MoveEffect DEF Idle
    <3> QED
      <4> HIDE DEF p
      <4>1. RequestInv(p)
        BY <3>2 DEF RequestInv, ReportedInv, ActiveInv, SessionInv, AnswerInv, NonceInv, RawInv,
                    Reported, Forwarding
      <4> QED BY <4>1 DEF p
  <2> QED
    BY <1>1, <2>1, <2>2, SetEffect DEF Arrive
<1>2. CASE Lookup(r)
  <2>1. q.pc = "lookup" /\ q.raw = None /\ q.sess = None /\ q.hdr = 0
    BY <1>0, <1>2 DEF Lookup, RequestInv, RawInv, SessionInv, AnswerInv
  <2>2. ASSUME Hit(cache), Set(r, [q EXCEPT !.pc = "admit", !.rep = cache.rep]) PROVE Kept(r)
    <3> DEFINE p == [q EXCEPT !.pc = "admit", !.rep = cache.rep]
    <3>1. cache.rep \in Report
      BY <2>2 DEF Hit, Inv, TypeOK
    <3>2. p \in Request /\ p.pc = "admit" /\ p.rep = cache.rep
          /\ p.raw = None /\ p.sess = None /\ p.hdr = 0
      BY <1>0, <2>1, <3>1, Places DEF Request
    <3>3. RequestInv(p)
      <4> HIDE DEF p
      <4> QED
        BY <3>1, <3>2 DEF RequestInv, ReportedInv, ActiveInv, SessionInv, AnswerInv, NonceInv, RawInv,
                          Reported, Forwarding
    <3> QED
      BY <2>2, <3>3, SetEffect
  <2>3. ASSUME Set(r, [q EXCEPT !.pc = "attest"]) PROVE Kept(r)
    <3> DEFINE p == [q EXCEPT !.pc = "attest"]
    <3>1. p \in Request /\ p.pc = "attest" /\ p.raw = None /\ p.sess = None /\ p.hdr = 0
      <4>1. "attest" \in PCs
        BY DEF PCs
      <4> QED BY <1>0, <2>1, <4>1, MoveEffect
    <3>2. RequestInv(p)
      <4> HIDE DEF p
      <4> QED
        BY <3>1 DEF RequestInv, ReportedInv, ActiveInv, SessionInv, AnswerInv, NonceInv, RawInv,
                    Reported, Forwarding
    <3> QED
      BY <2>3, <3>2, SetEffect
  <2> QED
    BY <1>2, <2>2, <2>3 DEF Lookup
<1>3. CASE Attest(r)
  <2>1. q.pc = "attest" /\ q.sess = None /\ q.hdr = 0
    BY <1>0, <1>3 DEF Attest, RequestInv, SessionInv, AnswerInv
  <2>2. RequestInv(Fail(q))
    BY <1>0, <2>1, FailInvariant
  <2>3. ASSUME NEW d \in Docs,
               Set(r, [q EXCEPT !.pc = "store", !.rep = NewReport(d), !.raw = NewRaw(d)])
        PROVE  Kept(r)
    <3> DEFINE p == [q EXCEPT !.pc = "store", !.rep = NewReport(d), !.raw = NewRaw(d)]
    <3>1. /\ NewReport(d) \in Report /\ NewRaw(d) \in Raw
          /\ NewRaw(d).bound = NewReport(d).bound /\ NewRaw(d).nonce = "fresh"
      BY DocsAssumption DEF Doc, NewReport, NewRaw, Report, Raw
    <3>2. p \in Request /\ p.pc = "store" /\ p.rep = NewReport(d) /\ p.raw = NewRaw(d)
          /\ p.sess = None /\ p.hdr = 0
      BY <1>0, <2>1, <3>1, Places DEF Request
    <3>3. RequestInv(p)
      <4> HIDE DEF p
      <4> QED
        BY <3>1, <3>2 DEF RequestInv, ReportedInv, ActiveInv, SessionInv, AnswerInv, NonceInv, RawInv,
                          Reported, Forwarding
    <3> QED
      BY <2>3, <3>3, SetEffect
  <2> QED
    BY <1>3, <2>2, <2>3, SetEffect DEF Attest
<1>4. CASE Store(r)
  <2> DEFINE p == [q EXCEPT !.pc = "admit"]
  <2>1. q.pc = "store" /\ q.sess = None /\ q.hdr = 0
    BY <1>0, <1>4 DEF Store, RequestInv, SessionInv, AnswerInv
  <2>2. /\ p \in Request /\ p.pc = "admit" /\ p.raw = q.raw /\ p.rep = q.rep
        /\ p.sess = None /\ p.hdr = 0 /\ p.relayTry = q.relayTry /\ p.sendTry = q.sendTry
    <3>1. "admit" \in PCs
      BY DEF PCs
    <3> QED BY <1>0, <2>1, <3>1, MoveEffect
  <2>3. RequestInv(p)
    <3> HIDE DEF p, q
    <3> QED
      BY <1>0, <2>1, <2>2 DEF RequestInv, ReportedInv, ActiveInv, SessionInv, AnswerInv, NonceInv, RawInv,
                              Reported, Forwarding
  <2> QED
    BY <1>4, <2>3, SetEffect DEF Store
<1>5. CASE Admit(r)
  <2>1. q.pc = "admit" /\ q.sess = None /\ q.hdr = 0
    BY <1>0, <1>5 DEF Admit, RequestInv, SessionInv, AnswerInv
  <2>2. RequestInv(Fail(q))
    BY <1>0, <2>1, FailInvariant
  <2>3. ASSUME NEW p \in Request, p.pc \in {"gate", "build"}, Enforce(q.rep),
               p.active => q.rep.bound, p.raw = q.raw, p.rep = q.rep,
               p.sess = None, p.hdr = 0, p.relayTry = q.relayTry, p.sendTry = q.sendTry
        PROVE  RequestInv(p)
    <3>1. q.rep \in Report /\ (~Blocked(q.rep) \/ Forced)
      BY <1>0, <2>1, <2>3 DEF RequestInv, ReportedInv, Enforce, Reported
    <3>2. ReportedInv(p)
      BY <2>3, <3>1, SameReport
    <3>3. ActiveInv(p)
      BY <2>3 DEF ActiveInv
    <3> QED
      BY <1>0, <2>1, <2>3, <3>2, <3>3 DEF RequestInv, SessionInv, AnswerInv, NonceInv, RawInv
  <2>4. ASSUME NEW e \in BOOLEAN, NEW x \in {"gate", "build"}
        PROVE  LET p == [q EXCEPT !.active = e, !.pc = x] IN
               /\ p \in Request /\ p.pc = x /\ p.active = e /\ p.raw = q.raw /\ p.rep = q.rep
               /\ p.sess = None /\ p.hdr = 0 /\ p.relayTry = q.relayTry /\ p.sendTry = q.sendTry
    BY <1>0, <2>1, Places DEF Request
  <2>5. CASE ~Enforce(q.rep)
    BY <1>5, <2>2, <2>5, SetEffect DEF Admit
  <2>6. CASE Enforce(q.rep) /\ prov.e2ee /\ q.rep.bound
    <3>1. RequestInv([q EXCEPT !.active = TRUE, !.pc = "gate"])
      BY <2>3, <2>4, <2>6
    <3>2. Set(r, [q EXCEPT !.active = TRUE, !.pc = "gate"])
      BY <1>5, <2>6 DEF Admit
    <3> QED
      BY <3>1, <3>2, SetEffect
  <2>7. CASE Enforce(q.rep) /\ ~(prov.e2ee /\ q.rep.bound)
    <3>1. RequestInv([q EXCEPT !.active = FALSE, !.pc = "build"])
      BY <2>3, <2>4, <2>7
    <3>2. Set(r, [q EXCEPT !.active = FALSE, !.pc = "build"])
      BY <1>5, <2>7 DEF Admit
    <3> QED
      BY <3>1, <3>2, SetEffect
  <2> QED
    BY <2>5, <2>6, <2>7
<1>6. CASE Gate(r)
  <2>1. q.pc = "gate" /\ q.sess = None /\ q.hdr = 0
    BY <1>0, <1>6 DEF Gate, RequestInv, SessionInv, AnswerInv
  <2>2. ASSUME NEW x \in {"build", "wipe"}, Set(r, [q EXCEPT !.pc = x]) PROVE Kept(r)
    <3> DEFINE p == [q EXCEPT !.pc = x]
    <3>1. /\ p \in Request /\ p.pc = x /\ p.raw = q.raw /\ p.rep = q.rep /\ p.active = q.active
          /\ p.sess = None /\ p.hdr = 0 /\ p.relayTry = q.relayTry /\ p.sendTry = q.sendTry
      <4>1. x \in PCs
        BY DEF PCs
      <4> QED BY <1>0, <2>1, <4>1, MoveEffect
    <3>2. RequestInv(p)
      <4> HIDE DEF p, q
      <4> QED
        BY <1>0, <2>1, <3>1 DEF RequestInv, ReportedInv, ActiveInv, SessionInv, AnswerInv, NonceInv, RawInv,
                                Reported, Forwarding
    <3> QED
      BY <2>2, <3>2, SetEffect
  <2> QED
    BY <1>6, <2>2 DEF Gate
<1> QED
  BY <1>1, <1>2, <1>3, <1>4, <1>5, <1>6

\* From one point of the forwarding phase to the next, with no session yet.
LEMMA ForwardInvariant ==
  ASSUME NEW q, RequestInv(q), q.pc = "build", q.sess = None, NEW x \in {"fetchkey", "send"}
  PROVE  RequestInv([q EXCEPT !.pc = x])
<1> DEFINE p == [q EXCEPT !.pc = x]
<1>1. q \in Request /\ x \in PCs
  BY DEF RequestInv, PCs
<1>2. /\ p \in Request /\ p.pc = x /\ p.rep = q.rep /\ p.raw = q.raw
      /\ p.active = q.active /\ p.sess = q.sess /\ p.hdr = q.hdr
  BY <1>1, MoveEffect
<1>3. RequestInv(p)
  <2> HIDE DEF p
  <2> QED
    BY <1>2 DEF RequestInv, ReportedInv, ActiveInv, SessionInv, AnswerInv, NonceInv, RawInv,
                Reported, Forwarding
<1> QED
  BY <1>3

\* Leaving the forwarding phase for the handling of a failure.
LEMMA TailInvariant ==
  ASSUME NEW q \in Request, RawInv(q), q.sess = None, q.hdr <= 1,
         NEW x \in {"mark", "demote", "wipe", "wipekey"}
  PROVE  RequestInv([q EXCEPT !.pc = x])
<1> DEFINE p == [q EXCEPT !.pc = x]
<1>1. x \in PCs
  BY DEF PCs
<1>2. /\ p \in Request /\ p.pc = x /\ p.rep = q.rep /\ p.raw = q.raw
      /\ p.sess = None /\ p.hdr = q.hdr
  BY <1>1, MoveEffect
<1>3. RequestInv(p)
  <2> HIDE DEF p
  <2> QED
    BY <1>2 DEF RequestInv, ReportedInv, ActiveInv, SessionInv, AnswerInv, NonceInv, RawInv,
                Reported, Forwarding
<1> QED
  BY <1>3

\* The steps that build the upstream request, and their failures.
LEMMA BuildSteps ==
  ASSUME Inv, NEW r \in Requests,
         \/ BuildPlain(r) \/ BuildFromRaw(r) \/ BuildFromCache(r)
         \/ FetchKey(r) \/ BuildFails(r) \/ PrepareFails(r)
  PROVE  Kept(r)
<1> DEFINE q == req[r]
<1>0. RequestInv(q) /\ q \in Request
  BY DEF Inv, RequestInv
<1>1. q.pc \in {"build", "fetchkey", "send"}
  BY DEF BuildPlain, BuildFromRaw, BuildFromCache, FetchKey, BuildFails, PrepareFails
<1>2. q.pc \in Forwarding /\ q.hdr = 0 /\ (q.pc = "build" => q.sess = None)
  BY <1>0, <1>1 DEF Forwarding, RequestInv, AnswerInv, SessionInv
<1>3. RequestInv(UpstreamError(q))
  BY <1>0, <1>2, UpstreamErrorInvariant
<1>4. \A cancelled \in BOOLEAN : RequestInv(BuildError(q, cancelled))
  BY <1>0, <1>2, BuildErrorInvariant
<1>5. ASSUME q.pc \in {"build", "fetchkey"}
      PROVE  \A k \in Keys \cup {NoKey}, b \in BOOLEAN : RequestInv(Encrypted(q, k, b, "fresh"))
  BY <1>0, <1>5, EncryptedInvariant
<1>6. ASSUME q.pc = "build", NEW x \in {"fetchkey", "send"} PROVE RequestInv([q EXCEPT !.pc = x])
  BY <1>0, <1>2, <1>6, ForwardInvariant
<1>7. CASE BuildPlain(r)
  BY <1>4, <1>6, <1>7, SetEffect DEF BuildPlain
<1>8. CASE BuildFromRaw(r)
  BY <1>0, <1>4, <1>8, EncryptedToRawInvariant, SetEffect DEF BuildFromRaw
<1>9. CASE BuildFromCache(r)
  <2>1. ASSUME Hit(keyCache) PROVE keyCache.key \in Keys /\ keyCache.bound \in BOOLEAN
    BY <2>1 DEF Hit, Inv, TypeOK
  <2> QED
    BY <1>5, <1>6, <1>9, <2>1, SetEffect DEF BuildFromCache
<1>10. CASE FetchKey(r)
  <2>1. \A d \in Docs : d.key \in Keys \cup {NoKey} /\ d.bound \in BOOLEAN
    BY DocsAssumption DEF Doc
  <2> QED
    BY <1>4, <1>5, <1>10, <2>1, SetEffect DEF FetchKey
<1>11. CASE BuildFails(r)
  BY <1>3, <1>4, <1>11, SetEffect DEF BuildFails
<1>12. CASE PrepareFails(r)
  BY <1>3, <1>12, SetEffect DEF PrepareFails
<1> QED
  BY <1>7, <1>8, <1>9, <1>10, <1>11, <1>12

\* Counting a POST changes nothing else.
LEMMA SentInvariant ==
  ASSUME NEW q, RequestInv(q)
  PROVE  LET p == [q EXCEPT !.sends = @ + 1] IN
         /\ RequestInv(p)
         /\ p.pc = q.pc /\ p.rep = q.rep /\ p.hdr = q.hdr /\ p.sess = q.sess
<1> DEFINE p == [q EXCEPT !.sends = q.sends + 1]
<1>1. q \in Request /\ q.sends + 1 \in Nat
  BY DEF RequestInv, Request
<1>2. ASSUME NEW n \in Nat
      PROVE  LET m == [q EXCEPT !.sends = n] IN
             /\ m \in Request /\ m.pc = q.pc /\ m.rep = q.rep /\ m.raw = q.raw
             /\ m.active = q.active /\ m.sess = q.sess /\ m.hdr = q.hdr /\ m.out = q.out
             /\ m.relayTry = q.relayTry /\ m.sendTry = q.sendTry
  BY <1>1 DEF Request
<1>3. /\ p \in Request /\ p.pc = q.pc /\ p.rep = q.rep /\ p.raw = q.raw
      /\ p.active = q.active /\ p.sess = q.sess /\ p.hdr = q.hdr /\ p.out = q.out
      /\ p.relayTry = q.relayTry /\ p.sendTry = q.sendTry
  BY <1>1, <1>2
<1>4. RequestInv(p)
  <2> HIDE DEF p
  <2> QED
    BY <1>3 DEF RequestInv, ReportedInv, ActiveInv, SessionInv, AnswerInv, NonceInv, RawInv
<1> QED
  BY <1>3, <1>4

\* An answer of the upstream is taken to the relay with its session.
LEMMA AnsweredInvariant ==
  ASSUME NEW q, RequestInv(q), q.pc = "send",
         NEW peer \in {"attested", "other"}, NEW resp \in {"ok", "status"}
  PROVE  LET p == [q EXCEPT !.pc = "relay", !.peer = peer, !.resp = resp] IN
         RequestInv(p) /\ p.pc = "relay" /\ p.rep = q.rep /\ p.sess = q.sess
<1> DEFINE p == [q EXCEPT !.pc = "relay", !.peer = peer, !.resp = resp]
<1>1. q \in Request
  BY DEF RequestInv
<1>2. /\ p \in Request /\ p.pc = "relay" /\ p.rep = q.rep /\ p.raw = q.raw
      /\ p.active = q.active /\ p.sess = q.sess /\ p.hdr = q.hdr
  BY <1>1, Places DEF Request
<1>3. RequestInv(p)
  <2> HIDE DEF p
  <2> QED
    BY <1>2 DEF RequestInv, ReportedInv, ActiveInv, SessionInv, AnswerInv, NonceInv, RawInv,
                Reported, Forwarding
<1> QED
  BY <1>2, <1>3

\* The locals of a handler after the call of the upstream.
LEMMA SendOutcomes ==
  ASSUME NEW r \in Requests, Send(r)
  PROVE  LET q == [req[r] EXCEPT !.sends = @ + 1] IN
         \/ Set(r, [Zeroed(q) EXCEPT !.pc = "wipe"])
         \/ Set(r, UpstreamError(q))
         \/ q.sendTry < MaxTry(q) /\ Set(r, NextSend(q))
         \/ \E peer \in {"attested", "other"}, resp \in {"ok", "status"} :
              Set(r, [q EXCEPT !.pc = "relay", !.peer = peer, !.resp = resp])
<1> DEFINE q == [req[r] EXCEPT !.sends = @ + 1]
<1> HIDE DEF q
<1>1. PICK o \in {"cancelled", "neterror", "5xx", "4xx", "200"}, peer \in {"attested", "other"} :
        \/ Set(r, [Zeroed(q) EXCEPT !.pc = "wipe"])
        \/ Set(r, UpstreamError(q))
        \/ q.sendTry < MaxTry(q) /\ Set(r, NextSend(q))
        \/ Set(r, [q EXCEPT !.pc = "relay", !.peer = peer,
                            !.resp = IF o = "200" THEN "ok" ELSE "status"])
  BY Zenon DEF Send, q
<1>2. (IF o = "200" THEN "ok" ELSE "status") \in {"ok", "status"}
  OBVIOUS
<1> QED
  BY <1>1, <1>2 DEF q

\* The call of the upstream.
LEMMA SendStep ==
  ASSUME Inv, NEW r \in Requests, Send(r)
  PROVE  Kept(r)
<1> DEFINE q == [req[r] EXCEPT !.sends = @ + 1]
<1>1. RequestInv(q) /\ q.pc = "send" /\ q.hdr = 0
  <2>1. RequestInv(req[r])
    BY DEF Inv
  <2>2. RequestInv(q) /\ q.pc = req[r].pc
    BY <2>1, SentInvariant
  <2>3. q.pc = "send"
    BY DEF Send
  <2> QED
    BY <2>2, <2>3 DEF RequestInv, AnswerInv
<1>2. /\ \/ Set(r, [Zeroed(q) EXCEPT !.pc = "wipe"])
         \/ Set(r, UpstreamError(q))
         \/ q.sendTry < MaxTry(q) /\ Set(r, NextSend(q))
         \/ \E peer \in {"attested", "other"}, resp \in {"ok", "status"} :
              Set(r, [q EXCEPT !.pc = "relay", !.peer = peer, !.resp = resp])
  BY SendOutcomes
<1> HIDE DEF q
<1>3. q \in Request /\ q.pc \in Forwarding /\ RawInv(q)
  BY <1>1 DEF RequestInv, Forwarding
<1>4. RequestInv([Zeroed(q) EXCEPT !.pc = "wipe"])
  <2>1. Zeroed(q) \in Request /\ Zeroed(q).sess = None /\ Zeroed(q).hdr <= 1
    BY <1>1, <1>3, ZeroedEffect
  <2>2. RawInv(Zeroed(q))
    BY <1>3, ZeroedEffect DEF RawInv
  <2> QED
    BY <2>1, <2>2, TailInvariant
<1>5. RequestInv(UpstreamError(q))
  BY <1>1, <1>3, UpstreamErrorInvariant
<1>6. q.sendTry < MaxTry(q) => RequestInv(NextSend(q))
  BY <1>1, <1>3, NextSendInvariant
<1>7. ASSUME NEW peer \in {"attested", "other"}, NEW resp \in {"ok", "status"}
      PROVE  RequestInv([q EXCEPT !.pc = "relay", !.peer = peer, !.resp = resp])
  BY <1>1, AnsweredInvariant
<1> QED
  BY <1>2, <1>4, <1>5, <1>6, <1>7, SetEffect

\* The end of the relay: the reply's headers are counted, the session is zeroed.
LEMMA RelayedEffect ==
  ASSUME NEW q, RequestInv(q), q.pc = "relay", NEW h \in {0, 1}
  PROVE  LET p == [q EXCEPT !.hdr = @ + h] IN
         /\ p \in Request /\ p.pc = q.pc /\ p.rep = q.rep /\ p.raw = q.raw
         /\ p.active = q.active /\ p.sess = q.sess /\ p.hdr = h
         /\ p.relayTry = q.relayTry /\ p.sendTry = q.sendTry
<1> DEFINE p == [q EXCEPT !.hdr = q.hdr + h]
<1>1. q \in Request /\ q.hdr = 0
  BY DEF RequestInv, AnswerInv
<1>2. ASSUME NEW n \in Nat
      PROVE  LET m == [q EXCEPT !.hdr = n] IN
             /\ m \in Request /\ m.pc = q.pc /\ m.rep = q.rep /\ m.raw = q.raw
             /\ m.active = q.active /\ m.sess = q.sess /\ m.hdr = n
             /\ m.relayTry = q.relayTry /\ m.sendTry = q.sendTry
  BY <1>1 DEF Request
<1>3. q.hdr + h = h /\ h \in Nat
  BY <1>1
<1>4. p = [q EXCEPT !.hdr = h]
  BY <1>3
<1> QED
  BY <1>2, <1>3, <1>4

\* The locals of a handler after the relay of a 200 answer.
LEMMA RelayOutcome ==
  ASSUME NEW r \in Requests, Relay(r)
  PROVE  LET q == req[r] IN
         /\ q.pc = "relay"
         /\ \/ Set(r, [Zeroed(q) EXCEPT !.pc = "mark", !.hdr = @ + 1])
            \/ \E h \in {0, 1} :
                 LET p == [q EXCEPT !.hdr = @ + h] IN
                 \/ Set(r, Relayed(p))
                 \/ Set(r, Fail(Zeroed(p)))
                 \/ p.relayTry < MaxTry(p) /\ p.hdr = 0 /\ Set(r, NextRelay(p))
                 \/ Set(r, [Zeroed(p) EXCEPT !.pc = "mark"])
<1> DEFINE q == req[r]
           P(h) == LET p == [q EXCEPT !.hdr = @ + h] IN
                   \/ Set(r, Relayed(p))
                   \/ Set(r, Fail(Zeroed(p)))
                   \/ p.relayTry < MaxTry(p) /\ p.hdr = 0 /\ Set(r, NextRelay(p))
                   \/ Set(r, [Zeroed(p) EXCEPT !.pc = "mark"])
<1>1. q.pc = "relay"
  BY DEF Relay
<1>2. \/ Set(r, [Zeroed(q) EXCEPT !.pc = "mark", !.hdr = @ + 1])
      \/ \E o \in RelayOutcomes(q) : P(o[2])
  BY Zenon DEF Relay
<1>3. \A o \in RelayOutcomes(q) : o[2] \in {0, 1}
  BY DEF RelayOutcomes
<1> HIDE DEF P
<1>4. \/ Set(r, [Zeroed(q) EXCEPT !.pc = "mark", !.hdr = @ + 1])
      \/ \E h \in {0, 1} : P(h)
  BY <1>2, <1>3
<1> QED
  BY <1>1, <1>4, Zenon DEF P

\* What follows a relay that succeeded.
LEMMA RelayedInvariant ==
  ASSUME NEW q \in Request, ReportedInv(q), RawInv(q), ActiveInv(q), q.pc = "relay", q.hdr <= 1
  PROVE  RequestInv(Relayed(q))
<1> DEFINE z == Zeroed(q)
           p == [z EXCEPT !.pc = "promote"]
<1>1. /\ z \in Request /\ z.sess = None /\ z.hdr = q.hdr /\ z.rep = q.rep /\ z.raw = q.raw
      /\ z.active = q.active
  BY ZeroedEffect
<1> HIDE DEF z
<1>2. RequestInv(Return(z, "ok"))
  BY <1>1, ReturnInvariant
<1>3. "promote" \in PCs
  BY DEF PCs
<1>4. /\ p \in Request /\ p.pc = "promote" /\ p.rep = q.rep /\ p.raw = q.raw
      /\ p.active = q.active /\ p.sess = None /\ p.hdr = q.hdr
  BY <1>1, <1>3, MoveEffect
<1>5. RequestInv(p)
  <2> HIDE DEF p
  <2> QED
    BY <1>4 DEF RequestInv, ReportedInv, ActiveInv, SessionInv, AnswerInv, NonceInv, RawInv,
                Reported, Forwarding
<1> QED
  BY <1>2, <1>5 DEF Relayed, z

\* The relay of an answer.
LEMMA RelaySteps ==
  ASSUME Inv, NEW r \in Requests, Relay(r) \/ ForwardStatus(r)
  PROVE  Kept(r)
<1> DEFINE q == req[r]
<1>0. RequestInv(q) /\ q \in Request
  BY DEF Inv, RequestInv
<1>1. q.pc = "relay" /\ q.hdr = 0 /\ RawInv(q) /\ ReportedInv(q) /\ ActiveInv(q)
  <2>1. q.pc = "relay"
    BY DEF Relay, ForwardStatus
  <2> QED
    BY <1>0, <2>1 DEF RequestInv, AnswerInv
<1>2. CASE ForwardStatus(r)
  <2>1. Zeroed(q) \in Request /\ Zeroed(q).sess = None /\ Zeroed(q).hdr <= 1
    BY <1>0, <1>1, ZeroedEffect
  <2>2. RequestInv(Fail(Zeroed(q)))
    BY <2>1, FailInvariant
  <2> QED
    BY <1>2, <2>2, SetEffect DEF ForwardStatus
<1>3. CASE Set(r, [Zeroed(q) EXCEPT !.pc = "mark", !.hdr = @ + 1])
  <2> DEFINE z == Zeroed(q)
             y == [z EXCEPT !.hdr = 1]
             x == [y EXCEPT !.pc = "mark"]
  <2>1. z \in Request /\ z.sess = None /\ z.hdr = 0 /\ RawInv(z)
    BY <1>0, <1>1, ZeroedEffect DEF RawInv
  <2>2. [Zeroed(q) EXCEPT !.pc = "mark", !.hdr = @ + 1] = [z EXCEPT !.pc = "mark", !.hdr = 1]
    BY <2>1
  <2> HIDE DEF z
  <2>3. /\ y \in Request /\ y.sess = None /\ y.hdr = 1
        /\ y.pc = z.pc /\ y.raw = z.raw /\ y.rep = z.rep
    BY <2>1 DEF Request
  <2>4. RawInv(y)
    <3> HIDE DEF y
    <3> QED BY <2>1, <2>3 DEF RawInv
  <2>5. RequestInv(x)
    <3> HIDE DEF y, q
    <3>1. y.hdr <= 1
      BY <2>3
    <3>2. RequestInv([y EXCEPT !.pc = "mark"])
      BY <2>3, <2>4, <3>1, TailInvariant
    <3> QED BY <3>2
  <2>6. x = [z EXCEPT !.pc = "mark", !.hdr = 1]
    BY <2>1 DEF Request
  <2> QED
    BY <1>3, <2>2, <2>5, <2>6, SetEffect
<1>4. ASSUME NEW h \in {0, 1}
      PROVE  LET p == [q EXCEPT !.hdr = @ + h] IN
             /\ RequestInv(Relayed(p))
             /\ RequestInv(Fail(Zeroed(p)))
             /\ p.relayTry < MaxTry(p) /\ p.hdr = 0 => RequestInv(NextRelay(p))
             /\ RequestInv([Zeroed(p) EXCEPT !.pc = "mark"])
  <2> DEFINE p == [q EXCEPT !.hdr = @ + h]
  <2>1. /\ p \in Request /\ p.pc = q.pc /\ p.rep = q.rep /\ p.raw = q.raw
        /\ p.active = q.active /\ p.sess = q.sess /\ p.hdr = h
        /\ p.relayTry = q.relayTry /\ p.sendTry = q.sendTry
    BY <1>0, <1>1, RelayedEffect
  <2> HIDE DEF p, q
  <2>2. p.hdr <= 1 /\ p.pc = "relay"
    BY <1>1, <2>1
  <2>3. RawInv(p) /\ ReportedInv(p) /\ ActiveInv(p)
    BY <1>1, <2>1 DEF RawInv, ReportedInv, ActiveInv
  <2>4. Zeroed(p) \in Request /\ Zeroed(p).sess = None /\ Zeroed(p).hdr <= 1 /\ RawInv(Zeroed(p))
    BY <2>1, <2>2, <2>3, ZeroedEffect DEF RawInv
  <2>5. RequestInv(Relayed(p))
    BY <2>1, <2>2, <2>3, RelayedInvariant
  <2>6. RequestInv(Fail(Zeroed(p)))
    BY <2>4, FailInvariant
  <2>7. ASSUME p.relayTry < MaxTry(p), p.hdr = 0 PROVE RequestInv(NextRelay(p))
    <3>1. RequestInv(p)
      BY <1>0, <2>1, <2>2, <2>3, <2>7
         DEF RequestInv, SessionInv, AnswerInv, NonceInv
    <3> QED
      BY <2>2, <2>7, <3>1, NextRelayInvariant DEF Forwarding
  <2>8. RequestInv([Zeroed(p) EXCEPT !.pc = "mark"])
    BY <2>4, TailInvariant
  <2> QED
    BY <2>5, <2>6, <2>7, <2>8 DEF p
<1>5. CASE Relay(r) /\ ~Set(r, [Zeroed(q) EXCEPT !.pc = "mark", !.hdr = @ + 1])
  <2>1. PICK h \in {0, 1} :
          LET p == [q EXCEPT !.hdr = @ + h] IN
          \/ Set(r, Relayed(p))
          \/ Set(r, Fail(Zeroed(p)))
          \/ p.relayTry < MaxTry(p) /\ p.hdr = 0 /\ Set(r, NextRelay(p))
          \/ Set(r, [Zeroed(p) EXCEPT !.pc = "mark"])
    BY <1>5, RelayOutcome
  <2> DEFINE p == [q EXCEPT !.hdr = @ + h]
  <2>2. /\ RequestInv(Relayed(p))
        /\ RequestInv(Fail(Zeroed(p)))
        /\ p.relayTry < MaxTry(p) /\ p.hdr = 0 => RequestInv(NextRelay(p))
        /\ RequestInv([Zeroed(p) EXCEPT !.pc = "mark"])
    BY <1>4
  <2>3. \/ Set(r, Relayed(p))
        \/ Set(r, Fail(Zeroed(p)))
        \/ p.relayTry < MaxTry(p) /\ p.hdr = 0 /\ Set(r, NextRelay(p))
        \/ Set(r, [Zeroed(p) EXCEPT !.pc = "mark"])
    BY <2>1
  <2> HIDE DEF p
  <2> QED
    BY <2>2, <2>3, SetEffect
<1> QED
  BY <1>2, <1>3, <1>5

\* The locals once the demoted clone of the cached report is made.
Demoted(q) == [q EXCEPT !.pc = "putdemoted", !.raw = None,
                        !.rep = [cache.rep EXCEPT !.usable = "fail"]]

LEMMA DemotedEffect ==
  ASSUME NEW q \in Request, cache.rep \in Report
  PROVE  /\ Demoted(q) \in Request /\ Demoted(q).pc = "putdemoted" /\ Demoted(q).raw = None
         /\ Demoted(q).rep \in Report
         /\ Demoted(q).rep.bound = cache.rep.bound /\ Demoted(q).rep.blocked = cache.rep.blocked
         /\ Demoted(q).sess = q.sess /\ Demoted(q).hdr = q.hdr /\ Demoted(q).sends = q.sends
         /\ Demoted(q).relayTry = q.relayTry /\ Demoted(q).sendTry = q.sendTry
         /\ Demoted(q).active = q.active
<1> DEFINE clone == [cache.rep EXCEPT !.usable = "fail"]
<1>1. clone \in Report /\ clone.bound = cache.rep.bound /\ clone.blocked = cache.rep.blocked
  BY DEF Report
<1>2. Demoted(q) = [q EXCEPT !.pc = "putdemoted", !.raw = None, !.rep = clone]
  BY DEF Demoted
<1> HIDE DEF clone
<1>3. Demoted(q) \in Request
  BY <1>1, <1>2, Places DEF Request
<1>4. /\ Demoted(q).pc = "putdemoted" /\ Demoted(q).raw = None /\ Demoted(q).rep = clone
      /\ Demoted(q).sess = q.sess /\ Demoted(q).hdr = q.hdr /\ Demoted(q).sends = q.sends
      /\ Demoted(q).relayTry = q.relayTry /\ Demoted(q).sendTry = q.sendTry
      /\ Demoted(q).active = q.active
  BY <1>2 DEF Request
<1> QED
  BY <1>1, <1>3, <1>4

LEMMA DemotedInvariant ==
  ASSUME NEW q \in Request, cache.rep \in Report, q.sess = None, q.hdr <= 1
  PROVE  RequestInv(Demoted(q))
<1> DEFINE p == Demoted(q)
<1>1. /\ p \in Request /\ p.pc = "putdemoted" /\ p.raw = None /\ p.rep \in Report
      /\ p.sess = None /\ p.hdr <= 1
  BY DemotedEffect
<1> HIDE DEF p
<1>2. RequestInv(p)
  BY <1>1 DEF RequestInv, ReportedInv, ActiveInv, SessionInv, AnswerInv, NonceInv, RawInv,
              Reported, Forwarding
<1> QED
  BY <1>2 DEF p

\* Promotion, the invalidation of the caches and the replies that follow.
LEMMA TailSteps ==
  ASSUME Inv, NEW r \in Requests,
         Promote(r) \/ Mark(r) \/ Demote(r) \/ PutDemoted(r) \/ Wipe(r) \/ WipeKey(r)
  PROVE  Kept(r)
<1> DEFINE q == req[r]
<1>1. q \in Request /\ RequestInv(q) /\ RawInv(q) /\ q.hdr <= 1
  BY DEF Inv, RequestInv, AnswerInv
<1>2. q.sess = None
  BY <1>1 DEF Promote, Mark, Demote, PutDemoted, Wipe, WipeKey, RequestInv, SessionInv
<1>3. RequestInv(Return(q, "ok")) /\ RequestInv(Fail(q))
  BY <1>1, <1>2, ReturnInvariant, FailInvariant
<1>4. \A x \in {"demote", "wipe", "wipekey"} : RequestInv([q EXCEPT !.pc = x])
  BY <1>1, <1>2, TailInvariant
<1>5. CASE Demote(r)
  <2>1. ASSUME Hit(cache)
        PROVE  RequestInv(Demoted(q))
    <3>1. q.hdr <= 1 /\ q.sess = None /\ cache # None
      BY <1>1, <1>2, <2>1 DEF Hit
    <3>2. cache.rep \in Report
      BY <3>1 DEF Inv, TypeOK
    <3> HIDE DEF q
    <3> QED
      BY <1>1, <3>1, <3>2, DemotedInvariant
  <2>2. Hit(cache) => Set(r, Demoted(q))
    BY <1>5 DEF Demote, Demoted
  <2>3. ~Hit(cache) => Set(r, [q EXCEPT !.pc = "wipe"])
    BY <1>5 DEF Demote
  <2> QED
    BY <1>4, <2>1, <2>2, <2>3, SetEffect
<1> QED
  BY <1>3, <1>4, <1>5, SetEffect DEF Promote, Mark, PutDemoted, Wipe, WipeKey

\* Every step of a handler.
LEMMA HandlerSteps ==
  ASSUME Inv, NEW r \in Requests, Arrive(r) \/ Step(r)
  PROVE  Kept(r)
  BY AdmissionSteps, BuildSteps, SendStep, RelaySteps, TailSteps DEF Step

(***************************************************************************)
(* The shared caches                                                       *)
(***************************************************************************)

CacheType == cache \in [rep : Report, age : 0 .. TTL + 1] \cup {None}
KeyCacheType == keyCache \in [key : Keys, bound : BOOLEAN, age : 0 .. TTL + 1] \cup {None}
MarkType == neg \in 0 .. NegTTL /\ failed \in BOOLEAN

\* A report that is put is a report, with age zero.
LEMMA PutReport ==
  ASSUME NEW report \in Report
  PROVE  [rep |-> report, age |-> 0] \in [rep : Report, age : 0 .. TTL + 1] \cup {None}
  BY BoundAssumption

\* Time keeps the types of the caches.
LEMMA TickTypes ==
  ASSUME TypeOK, Tick
  PROVE  CacheType' /\ KeyCacheType' /\ MarkType'
<1>1. \A a \in 0 .. TTL + 1 : Older(a) \in 0 .. TTL + 1
  BY BoundAssumption DEF Older
<1>2. CacheType'
  BY <1>1 DEF TypeOK, Tick, Aged, CacheType
<1>3. KeyCacheType'
  BY <1>1 DEF TypeOK, Tick, Aged, KeyCacheType
<1>4. MarkType'
  BY BoundAssumption DEF TypeOK, Tick, MarkType
<1> QED
  BY <1>2, <1>3, <1>4

\* So does an eviction.
LEMMA EvictTypes ==
  ASSUME TypeOK, Evict
  PROVE  CacheType' /\ KeyCacheType' /\ MarkType'
  BY BoundAssumption DEF TypeOK, Evict, EvictReport, EvictKey, EvictFailure,
     CacheType, KeyCacheType, MarkType

\* Every step of a handler keeps the types of the caches.
LEMMA CacheTypes ==
  ASSUME Inv, NEW r \in Requests, Arrive(r) \/ Step(r)
  PROVE  CacheType' /\ KeyCacheType' /\ MarkType'
<1>0. TypeOK /\ RequestInv(req[r])
  BY DEF Inv
<1>1. CacheType /\ KeyCacheType /\ MarkType
  BY <1>0 DEF TypeOK, CacheType, KeyCacheType, MarkType
<1>2. CASE UNCHANGED <<cache, keyCache, neg, failed>>
  BY <1>1, <1>2 DEF CacheType, KeyCacheType, MarkType
<1>3. CASE Attest(r)
  <2>1. neg' = 0 \/ neg' = neg
    BY <1>3 DEF Attest
  <2>2. UNCHANGED <<cache, keyCache, failed>>
    BY <1>3 DEF Attest
  <2> QED
    BY <1>1, <2>1, <2>2, BoundAssumption DEF CacheType, KeyCacheType, MarkType
<1>4. CASE Store(r)
  <2>1. req[r].rep \in Report
    BY <1>0, <1>4 DEF Store, RequestInv, ReportedInv, Reported
  <2> QED
    BY <1>1, <1>4, <2>1, PutReport DEF Store, CacheType, KeyCacheType, MarkType
<1>5. CASE Admit(r)
  <2>1. req[r].raw # None => req[r].raw \in Raw
    BY <1>0 DEF RequestInv, Request
  <2>2. CachedKey(r) \in [key : Keys, bound : BOOLEAN, age : 0 .. TTL + 1] \cup {None}
    BY <1>1, <2>1, BoundAssumption DEF CachedKey, Raw, KeyCacheType
  <2>3. (keyCache' = CachedKey(r) \/ keyCache' = keyCache) /\ UNCHANGED <<cache, neg, failed>>
    BY <1>5 DEF Admit
  <2> QED
    BY <1>1, <2>2, <2>3 DEF CacheType, KeyCacheType, MarkType
<1>6. CASE Gate(r)
  BY <1>1, <1>6 DEF Gate, CacheType, KeyCacheType, MarkType
<1>7. CASE FetchKey(r)
  <2>1. ASSUME NEW d \in Docs, AcceptKey(d)
        PROVE  [key |-> d.key, bound |-> d.bound, age |-> 0]
                 \in [key : Keys, bound : BOOLEAN, age : 0 .. TTL + 1] \cup {None}
    <3>1. d.key \in Keys /\ d.bound \in BOOLEAN
      BY <2>1, DocsAssumption DEF AcceptKey, Doc
    <3> QED
      BY <3>1, BoundAssumption
  <2>2. /\ \/ keyCache' = keyCache
           \/ \E d \in Docs : AcceptKey(d) /\ keyCache' = [key |-> d.key, bound |-> d.bound, age |-> 0]
        /\ UNCHANGED <<cache, neg, failed>>
    BY <1>7 DEF FetchKey
  <2> QED
    BY <1>1, <2>1, <2>2 DEF CacheType, KeyCacheType, MarkType
<1>8. CASE Promote(r)
  <2>1. req[r].rep \in Report
    BY <1>0, <1>8 DEF Promote, RequestInv, ReportedInv, Reported
  <2>2. MarkE2EEUsable(req[r].rep) \in Report
    BY <2>1 DEF MarkE2EEUsable, Report
  <2> QED
    BY <1>1, <1>8, <2>2, PutReport DEF Promote, CacheType, KeyCacheType, MarkType
<1>9. CASE Mark(r)
  BY <1>1, <1>9 DEF Mark, CacheType, KeyCacheType, MarkType
<1>10. CASE PutDemoted(r)
  <2>1. req[r].rep \in Report
    BY <1>0, <1>10 DEF PutDemoted, RequestInv, ReportedInv, Reported
  <2> QED
    BY <1>1, <1>10, <2>1, PutReport DEF PutDemoted, CacheType, KeyCacheType, MarkType
<1>11. CASE Wipe(r)
  BY <1>1, <1>11 DEF Wipe, CacheType, KeyCacheType, MarkType
<1>12. CASE WipeKey(r)
  BY <1>1, <1>12 DEF WipeKey, CacheType, KeyCacheType, MarkType
<1>13. \/ UNCHANGED <<cache, keyCache, neg, failed>>
       \/ Attest(r) \/ Store(r) \/ Admit(r) \/ Gate(r) \/ FetchKey(r) \/ Promote(r)
       \/ Mark(r) \/ PutDemoted(r) \/ Wipe(r) \/ WipeKey(r)
  BY DEF Step, Arrive, Lookup, BuildPlain, BuildFromRaw, BuildFromCache, BuildFails,
         PrepareFails, Send, ForwardStatus, Relay, Demote
<1> QED
  BY <1>2, <1>3, <1>4, <1>5, <1>6, <1>7, <1>8, <1>9, <1>10, <1>11, <1>12, <1>13

(***************************************************************************)
(* The inductive invariant                                                 *)
(***************************************************************************)

LEMMA InvInit == Init => Inv
<1>1. ASSUME Init PROVE TypeOK
  <2>1. Idle \in Request
    BY IdleInvariant DEF RequestInv
  <2>2. NegTTL \in 0 .. NegTTL
    BY BoundAssumption
  <2>3. [r \in Requests |-> Idle] \in [Requests -> Request]
    BY <2>1
  <2> HIDE DEF Request, Report
  <2> QED
    BY <1>1, <2>2, <2>3 DEF Init, TypeOK
<1>2. ASSUME Init, NEW r \in Requests PROVE RequestInv(req[r])
  BY <1>2, IdleInvariant DEF Init
<1> QED
  BY <1>1, <1>2 DEF Inv

\* The provider of the model stays the same.
LEMMA SameProvider == ASSUME [Next]_vars PROVE prov' = prov
<1>1. CASE UNCHANGED vars
  BY <1>1 DEF vars
<1>2. CASE Tick \/ Evict
  BY <1>2 DEF Tick, Evict, EvictReport, EvictKey, EvictFailure
<1>3. ASSUME NEW r \in Requests, Arrive(r) \/ Step(r) PROVE prov' = prov
  BY <1>3 DEF Step, Arrive, Lookup, Attest, Store, Admit, Gate, BuildPlain, BuildFromRaw,
     BuildFromCache, FetchKey, BuildFails, PrepareFails, Send, ForwardStatus, Relay, Promote,
     Mark, Demote, PutDemoted, Wipe, WipeKey
<1> QED
  BY <1>1, <1>2, <1>3 DEF Next

LEMMA InvStep == Inv /\ [Next]_vars => Inv'
<1> SUFFICES ASSUME Inv, [Next]_vars PROVE Inv'
  OBVIOUS
<1>0. TypeOK /\ prov' \in Providers /\ \A r \in Requests : RequestInv(req[r])
  BY SameProvider DEF Inv, TypeOK
<1>1. CASE UNCHANGED vars
  BY <1>0, <1>1 DEF vars, Inv, TypeOK
<1>2. CASE Tick \/ Evict
  <2>1. req' = req
    BY <1>2 DEF Tick, Evict, EvictReport, EvictKey, EvictFailure
  <2>2. CacheType' /\ KeyCacheType' /\ MarkType'
    BY <1>0, <1>2, TickTypes, EvictTypes
  <2> QED
    BY <1>0, <2>1, <2>2 DEF Inv, TypeOK, CacheType, KeyCacheType, MarkType
<1>3. ASSUME NEW r \in Requests, Arrive(r) \/ Step(r) PROVE Inv'
  <2>1. req' = [req EXCEPT ![r] = req'[r]] /\ RequestInv(req'[r])
    BY <1>3, HandlerSteps DEF Kept
  <2>2. CacheType' /\ KeyCacheType' /\ MarkType'
    BY <1>3, CacheTypes
  <2>3. req' \in [Requests -> Request]
    BY <1>0, <2>1 DEF TypeOK, RequestInv
  <2>4. \A s \in Requests : RequestInv(req'[s])
    BY <1>0, <2>1 DEF TypeOK
  <2> QED
    BY <1>0, <2>2, <2>3, <2>4 DEF Inv, TypeOK, CacheType, KeyCacheType, MarkType
<1> QED
  BY <1>1, <1>2, <1>3 DEF Next

\* Every reachable state satisfies the inductive invariant.
THEOREM InvHolds == Spec => []Inv
  BY InvInit, InvStep, PTL DEF Spec

\* The caches and the handlers' locals always have their types.
THEOREM TypeCorrect == Spec => []TypeOK
<1>1. Inv => TypeOK
  BY DEF Inv
<1> QED
  BY <1>1, InvHolds, PTL

\* No request is forwarded under a report that an enforced factor blocks,
\* whatever the other requests do to the report cache in between.
THEOREM Verified == Spec => []ForwardedOnlyIfVerified
<1>1. Inv => ForwardedOnlyIfVerified
  BY DEF Inv, RequestInv, ReportedInv, Forwarding, ForwardedOnlyIfVerified
<1> QED
  BY <1>1, InvHolds, PTL

\* No attempt of either retry loop encrypts with a nonce already used.
THEOREM NonceUsedOnce == Spec => []NonceNeverReused
<1>1. Inv => NonceNeverReused
  BY DEF Inv, RequestInv, NonceInv, NonceNeverReused
<1> QED
  BY <1>1, InvHolds, PTL

\* On every path on which a handler returns its session was zeroed.
THEOREM Zeroing == Spec => []SessionsZeroed
<1>1. Inv => SessionsZeroed
  BY DEF Inv, RequestInv, SessionInv, SessionsZeroed
<1> QED
  BY <1>1, InvHolds, PTL

\* On every path the client gets at most one response, and a failed request
\* exactly one.
THEOREM OneAnswer == Spec => []AnsweredOnce
<1>1. Inv => AnsweredOnce
  BY DEF Inv, RequestInv, AnswerInv, AnsweredOnce
<1> QED
  BY <1>1, InvHolds, PTL

(***************************************************************************)
(* With the binding factor enforced, only bound keys are used              *)
(***************************************************************************)

\* A handler that returns is idle.
LEMMA ReturnEnds == \A q, o : Return(q, o).pc = "idle" /\ Fail(q).pc = "idle"
  BY DEF Return, Fail, Idle

\* Before the encryption and after the attempt, only the report matters.
LEMMA QuietBound ==
  ASSUME NEW p, RequestInv(p), p.pc \notin {"send", "relay"},
         p.pc \in Reported => p.rep.bound \/ p.rep.blocked
  PROVE  BoundRequest(p)
  BY DEF BoundRequest, RequestInv, SessionInv

\* Retrying, and giving up, keep the report and drop the session.
LEMMA RetryBound ==
  ASSUME NEW q, BoundRequest(q), q.pc \in Reported,
         NEW p, RequestInv(p), RetriesOrEnds(q, p)
  PROVE  BoundRequest(p)
<1>1. q.rep.bound \/ q.rep.blocked
  BY DEF BoundRequest
<1>2. p.pc \notin {"send", "relay"} /\ (p.pc \in Reported => p.rep = q.rep)
  BY DEF RetriesOrEnds, Reported
<1> QED
  BY <1>1, <1>2, QuietBound

\* The locals after the steps up to the gate.
LEMMA AdmissionBound ==
  ASSUME BindingEnforced, Inv, BoundInv, NEW r \in Requests,
         Arrive(r) \/ Lookup(r) \/ Attest(r) \/ Store(r) \/ Admit(r) \/ Gate(r)
  PROVE  BoundRequest(req'[r])
<1> DEFINE q == req[r]
           p == req'[r]
<1>0. /\ RequestInv(p)
      /\ BoundRequest(q) /\ q \in Request
      /\ \A x : Set(r, x) => p = x
  BY AdmissionSteps DEF Kept, BoundInv, Inv, TypeOK, RequestInv, Set
<1>1. p.pc \notin {"send", "relay"}
  <2>1. ASSUME NEW x \in {"admit", "attest", "store", "gate", "build", "wipe"} 
        PROVE  [q EXCEPT !.pc = x].pc = x
    BY <1>0 DEF Request
  <2>2. [Idle EXCEPT !.pc = "lookup"].pc = "lookup"
    BY DEF Idle
  <2>3. CASE Arrive(r)
    BY <1>0, <2>2, <2>3, ReturnEnds DEF Arrive
  <2>4. CASE Lookup(r)
    BY <1>0, <2>4 DEF Lookup, Request
  <2>5. CASE Attest(r)
    BY <1>0, <2>5, ReturnEnds DEF Attest, Request
  <2>6. CASE Store(r)
    BY <1>0, <2>1, <2>6 DEF Store
  <2>7. CASE Admit(r)
    BY <1>0, <2>7, ReturnEnds DEF Admit, Request
  <2>8. CASE Gate(r)
    BY <1>0, <2>1, <2>8 DEF Gate
  <2> QED
    BY <2>3, <2>4, <2>5, <2>6, <2>7, <2>8
<1>2. ASSUME p.pc \in Reported PROVE p.rep.bound \/ p.rep.blocked
  <2>0. p.pc # "idle" /\ p.pc # "lookup" /\ p.pc # "attest" /\ p.pc # "wipe"
    BY <1>2 DEF Reported
  <2>1. CASE Arrive(r)
    <3>1. [Idle EXCEPT !.pc = "lookup"].pc = "lookup"
      BY DEF Idle
    <3> QED
      BY <1>0, <2>0, <2>1, <3>1, ReturnEnds DEF Arrive
  <2>2. CASE Lookup(r)
    <3>1. Hit(cache) /\ p.rep = cache.rep
      BY <1>0, <2>0, <2>2 DEF Lookup, Request
    <3> QED
      BY <3>1 DEF Hit, BoundInv
  <2>3. CASE Attest(r)
    <3>1. PICK d \in Docs : p.rep = NewReport(d)
      <4>1. \A x, y : [q EXCEPT !.pc = "store", !.rep = x, !.raw = y].rep = x
        BY <1>0 DEF Request
      <4>2. Set(r, Fail(q)) => p.pc = "idle"
        BY <1>0, ReturnEnds
      <4> QED
        <5>1. PICK d \in Docs : Set(r, [q EXCEPT !.pc = "store", !.rep = NewReport(d), !.raw = NewRaw(d)])
          BY <2>0, <2>3, <4>2 DEF Attest
        <5>2. p = [q EXCEPT !.pc = "store", !.rep = NewReport(d), !.raw = NewRaw(d)]
          BY <1>0, <5>1, Zenon
        <5> QED
          BY <4>1, <5>2
    <3> QED
      BY <3>1 DEF BindingEnforced, NewReport
  <2>4. CASE Store(r) \/ Admit(r) \/ Gate(r)
    <3>1. p.rep = q.rep
      <4>1. CASE Store(r)
        BY <1>0, <4>1 DEF Store, Request
      <4>2. CASE Admit(r)
        <5>1. \A e, x : [q EXCEPT !.active = e, !.pc = x].rep = q.rep
          BY <1>0 DEF Request
        <5>2. Set(r, Fail(q)) => p.pc = "idle"
          BY <1>0, ReturnEnds
        <5>3. \/ Set(r, Fail(q))
              \/ \E e, x : Set(r, [q EXCEPT !.active = e, !.pc = x])
          BY <4>2, Zenon DEF Admit
        <5> QED
          <6>1. PICK e, x : Set(r, [q EXCEPT !.active = e, !.pc = x])
            BY <2>0, <5>2, <5>3
          <6>2. p = [q EXCEPT !.active = e, !.pc = x]
            BY <1>0, <6>1, Zenon
          <6> QED
            BY <5>1, <6>2
      <4>3. CASE Gate(r)
        BY <1>0, <4>3 DEF Gate, Request
      <4> QED
        BY <2>4, <4>1, <4>2, <4>3
    <3>2. q.pc \in Reported
      BY <2>4 DEF Store, Admit, Gate, Reported
    <3> QED
      BY <1>0, <3>1, <3>2 DEF BoundRequest
  <2> QED
    BY <2>1, <2>2, <2>3, <2>4
<1> QED
  BY <1>0, <1>1, <1>2, QuietBound

\* The locals after the steps that build the upstream request.
LEMMA BuildBound ==
  ASSUME BindingEnforced, Inv, BoundInv, NEW r \in Requests,
         \/ BuildPlain(r) \/ BuildFromRaw(r) \/ BuildFromCache(r)
         \/ FetchKey(r) \/ BuildFails(r) \/ PrepareFails(r)
  PROVE  BoundRequest(req'[r])
<1> DEFINE q == req[r]
           p == req'[r]
<1>0. /\ RequestInv(p) /\ RequestInv(q) /\ q \in Request
      /\ BoundRequest(q)
      /\ \A x : Set(r, x) => p = x
  BY BuildSteps DEF Kept, BoundInv, Inv, TypeOK, RequestInv, Set
<1>1. q.pc \in {"build", "fetchkey", "send"}
  BY DEF BuildPlain, BuildFromRaw, BuildFromCache, FetchKey, BuildFails, PrepareFails
<1>2. /\ q.pc \in Reported /\ q.pc \in Forwarding /\ q.hdr = 0
      /\ (q.pc = "build" => q.sess = None) /\ (q.rep.bound \/ q.rep.blocked)
  BY <1>0, <1>1 DEF Reported, Forwarding, RequestInv, AnswerInv, SessionInv, BoundRequest
<1>3. Set(r, UpstreamError(q)) => BoundRequest(p)
  <2>1. RetriesOrEnds(q, UpstreamError(q))
    BY <1>0, <1>2, UpstreamErrorInvariant
  <2> QED
    BY <1>0, <1>2, <2>1, RetryBound
<1>4. \A cancelled \in BOOLEAN : Set(r, BuildError(q, cancelled)) => BoundRequest(p)
  <2>1. \A cancelled \in BOOLEAN : RetriesOrEnds(q, BuildError(q, cancelled))
    BY <1>0, <1>2, BuildErrorInvariant
  <2> QED
    BY <1>0, <1>2, <2>1, RetryBound
<1>5. ASSUME q.pc \in {"build", "fetchkey"}, NEW k \in Keys \cup {NoKey},
             Set(r, Encrypted(q, k, TRUE, "fresh"))
      PROVE  BoundRequest(p)
  <2> DEFINE e == Encrypted(q, k, TRUE, "fresh")
  <2>1. e.pc = "send" /\ e.rep = q.rep /\ e.sess # None /\ e.sess.bound = TRUE
    BY <1>0, <1>5, EncryptedInvariant
  <2>2. p = e
    BY <1>0, <1>5, Zenon
  <2> HIDE DEF e
  <2> QED
    BY <1>2, <2>1, <2>2 DEF BoundRequest
<1>6. CASE BuildPlain(r)
  <2>1. CASE ~prov.e2ee /\ Set(r, [q EXCEPT !.pc = "send"])
    <3>1. p = [q EXCEPT !.pc = "send"]
      BY <1>0, <2>1, Zenon
    <3>2. p.rep = q.rep /\ p.sess = q.sess
      BY <1>0, <3>1 DEF Request
    <3> QED
      BY <1>2, <1>6, <2>1, <3>2 DEF BoundRequest, BuildPlain
  <2> QED
    BY <1>4, <1>6, <2>1 DEF BuildPlain, RefusePlaintext
<1>7. CASE BuildFromRaw(r)
  <2>1. CASE Set(r, EncryptedToRaw(q))
    <3>1. q.pc = "build" /\ q.active /\ FreshRaw(q)
      BY <1>7 DEF BuildFromRaw
    <3>2. /\ p = EncryptedToRaw(q)
          /\ p.pc = "send" /\ p.rep = q.rep /\ p.sess # None /\ p.sess.bound = q.raw.bound
      BY <1>0, <2>1, <3>1, EncryptedToRawInvariant
    <3>3. q.rep.bound /\ q.raw.bound = q.rep.bound
      BY <1>0, <1>2, <3>1 DEF RequestInv, ActiveInv, RawInv, FreshRaw
    <3> QED
      BY <3>2, <3>3 DEF BoundRequest
  <2> QED
    BY <1>4, <1>7, <2>1 DEF BuildFromRaw
<1>8. CASE BuildFromCache(r)
  <2>1. Hit(keyCache) => keyCache.key \in Keys /\ keyCache.bound = TRUE
    BY DEF Hit, Inv, TypeOK, BoundInv
  <2>2. CASE Set(r, [q EXCEPT !.pc = "fetchkey"])
    <3>1. p = [q EXCEPT !.pc = "fetchkey"]
      BY <1>0, <2>2, Zenon
    <3>2. p.rep = q.rep /\ p.pc = "fetchkey"
      BY <1>0, <3>1 DEF Request
    <3> QED
      BY <1>0, <1>2, <3>2, QuietBound
  <2> QED
    BY <1>5, <1>8, <2>1, <2>2 DEF BuildFromCache
<1>9. CASE FetchKey(r)
  <2>1. \A d \in Docs : d.key \in Keys \cup {NoKey} /\ (AcceptKey(d) => d.bound = TRUE)
    BY DocsAssumption DEF Doc, AcceptKey
  <2> QED
    BY <1>4, <1>5, <1>9, <2>1 DEF FetchKey
<1>10. CASE BuildFails(r)
  BY <1>3, <1>4, <1>10 DEF BuildFails
<1>11. CASE PrepareFails(r)
  BY <1>3, <1>11 DEF PrepareFails
<1> QED
  BY <1>6, <1>7, <1>8, <1>9, <1>10, <1>11

\* The locals after the call of the upstream.
LEMMA SendBound ==
  ASSUME Inv, BoundInv, NEW r \in Requests, Send(r)
  PROVE  BoundRequest(req'[r])
<1> DEFINE q == [req[r] EXCEPT !.sends = @ + 1]
           p == req'[r]
<1>0. /\ RequestInv(req[r]) /\ BoundRequest(req[r]) /\ RequestInv(p)
      /\ \A x : Set(r, x) => p = x
  BY SendStep DEF Kept, BoundInv, Inv, TypeOK, Set
<1>1. /\ RequestInv(q) /\ q.pc = req[r].pc /\ q.rep = req[r].rep /\ q.sess = req[r].sess
  BY <1>0, SentInvariant
<1>2. q.pc = "send"
  BY <1>1 DEF Send
<1>3. /\ \/ Set(r, [Zeroed(q) EXCEPT !.pc = "wipe"])
         \/ Set(r, UpstreamError(q))
         \/ q.sendTry < MaxTry(q) /\ Set(r, NextSend(q))
         \/ \E peer \in {"attested", "other"}, resp \in {"ok", "status"} :
              Set(r, [q EXCEPT !.pc = "relay", !.peer = peer, !.resp = resp])
  BY SendOutcomes
<1> HIDE DEF q
<1>4. BoundRequest(q)
  BY <1>0, <1>1 DEF BoundRequest
<1>5. q \in Request /\ q.pc \in Forwarding /\ q.pc \in Reported /\ q.hdr = 0
  BY <1>1, <1>2 DEF RequestInv, AnswerInv, Forwarding, Reported
<1>6. CASE Set(r, [Zeroed(q) EXCEPT !.pc = "wipe"])
  <2>1. p = [Zeroed(q) EXCEPT !.pc = "wipe"]
    BY <1>0, <1>6, Zenon
  <2>2. p.pc = "wipe"
    BY <1>5, <2>1, ZeroedEffect DEF Request
  <2> QED
    BY <1>0, <2>2, QuietBound DEF Reported
<1>7. CASE Set(r, UpstreamError(q))
  BY <1>0, <1>1, <1>4, <1>5, <1>7, UpstreamErrorInvariant, RetryBound
<1>8. CASE q.sendTry < MaxTry(q) /\ Set(r, NextSend(q))
  BY <1>0, <1>1, <1>4, <1>5, <1>8, NextSendInvariant, RetryBound DEF RetriesOrEnds
<1>9. ASSUME NEW peer \in {"attested", "other"}, NEW resp \in {"ok", "status"},
             Set(r, [q EXCEPT !.pc = "relay", !.peer = peer, !.resp = resp])
      PROVE  BoundRequest(p)
  <2>1. p = [q EXCEPT !.pc = "relay", !.peer = peer, !.resp = resp]
    BY <1>0, <1>9, Zenon
  <2>2. p.pc = "relay" /\ p.rep = q.rep /\ p.sess = q.sess
    BY <1>5, <2>1 DEF Request
  <2> QED
    BY <1>2, <1>4, <1>5, <2>2 DEF BoundRequest, Reported
<1> QED
  BY <1>3, <1>6, <1>7, <1>8, <1>9

\* The locals after the relay of an answer.
LEMMA RelayBound ==
  ASSUME Inv, BoundInv, NEW r \in Requests, Relay(r) \/ ForwardStatus(r)
  PROVE  BoundRequest(req'[r])
<1> DEFINE q == req[r]
           p == req'[r]
<1>0. /\ RequestInv(q) /\ q \in Request /\ BoundRequest(q) /\ RequestInv(p)
      /\ \A x : Set(r, x) => p = x
  BY RelaySteps DEF Kept, BoundInv, Inv, TypeOK, Set, RequestInv
<1>1. q.pc = "relay"
  BY DEF Relay, ForwardStatus
<1>2. q.rep.bound \/ q.rep.blocked
  BY <1>0, <1>1 DEF BoundRequest, Reported
<1>3. ASSUME p.pc \in {"idle", "mark"} \/ (p.pc \in {"build", "promote"} /\ p.rep = q.rep)
      PROVE  BoundRequest(p)
  BY <1>0, <1>2, <1>3, QuietBound DEF Reported
<1>4. ASSUME NEW x \in Request, NEW y, p = [Zeroed(x) EXCEPT !.pc = y]
      PROVE  p.pc = y /\ p.rep = x.rep
  BY <1>4, ZeroedEffect DEF Request
<1>5. CASE ForwardStatus(r)
  BY <1>0, <1>3, <1>5, ReturnEnds DEF ForwardStatus
<1>6. CASE Set(r, [Zeroed(q) EXCEPT !.pc = "mark", !.hdr = @ + 1])
  <2>1. p = [Zeroed(q) EXCEPT !.pc = "mark", !.hdr = @ + 1]
    BY <1>0, <1>6, Zenon
  <2>2. Zeroed(q) \in Request
    BY <1>0, ZeroedEffect
  <2>3. p.pc = "mark"
    BY <2>1, <2>2 DEF Request
  <2> QED
    BY <1>3, <2>3
<1>7. CASE Relay(r) /\ ~Set(r, [Zeroed(q) EXCEPT !.pc = "mark", !.hdr = @ + 1])
  <2>1. PICK h \in {0, 1} :
          LET x == [q EXCEPT !.hdr = @ + h] IN
          \/ Set(r, Relayed(x))
          \/ Set(r, Fail(Zeroed(x)))
          \/ x.relayTry < MaxTry(x) /\ x.hdr = 0 /\ Set(r, NextRelay(x))
          \/ Set(r, [Zeroed(x) EXCEPT !.pc = "mark"])
    BY <1>7, RelayOutcome
  <2> DEFINE x == [q EXCEPT !.hdr = @ + h]
  <2>2. \/ Set(r, Relayed(x))
        \/ Set(r, Fail(Zeroed(x)))
        \/ Set(r, NextRelay(x))
        \/ Set(r, [Zeroed(x) EXCEPT !.pc = "mark"])
    BY <2>1
  <2>3. x \in Request /\ x.rep = q.rep
    BY <1>0, <1>1, RelayedEffect
  <2> HIDE DEF x
  <2>4. CASE Set(r, Relayed(x))
    <3>1. p = Relayed(x)
      BY <1>0, <2>4, Zenon
    <3>2. p.pc = "idle" \/ p = [Zeroed(x) EXCEPT !.pc = "promote"]
      BY <3>1, ReturnEnds DEF Relayed
    <3> QED
      BY <1>3, <1>4, <2>3, <3>2
  <2>5. CASE Set(r, Fail(Zeroed(x)))
    BY <1>0, <1>3, <2>5, ReturnEnds
  <2>6. CASE Set(r, NextRelay(x))
    <3>1. p = NextRelay(x)
      BY <1>0, <2>6, Zenon
    <3>2. Zeroed(x) \in Request /\ Zeroed(x).rep = q.rep
      BY <2>3, ZeroedEffect
    <3>3. p.pc = "build" /\ p.rep = q.rep
      BY <3>1, <3>2 DEF NextRelay, Request
    <3> QED
      BY <1>3, <3>3
  <2>7. CASE Set(r, [Zeroed(x) EXCEPT !.pc = "mark"])
    <3>1. p = [Zeroed(x) EXCEPT !.pc = "mark"]
      BY <1>0, <2>7, Zenon
    <3> QED
      BY <1>3, <1>4, <2>3, <3>1
  <2> QED
    BY <2>2, <2>4, <2>5, <2>6, <2>7
<1> QED
  BY <1>5, <1>6, <1>7

\* The locals after promotion or the invalidation of the caches.
LEMMA TailBound ==
  ASSUME Inv, BoundInv, NEW r \in Requests,
         Promote(r) \/ Mark(r) \/ Demote(r) \/ PutDemoted(r) \/ Wipe(r) \/ WipeKey(r)
  PROVE  BoundRequest(req'[r])
<1> DEFINE q == req[r]
           p == req'[r]
<1>0. RequestInv(p) /\ q \in Request /\ \A x : Set(r, x) => p = x
  BY TailSteps DEF Kept, Inv, TypeOK, Set, RequestInv
<1>1. ASSUME NEW x \in {"demote", "wipe", "wipekey"}, Set(r, [q EXCEPT !.pc = x])
      PROVE  p.pc = x
  <2>1. p = [q EXCEPT !.pc = x]
    BY <1>0, <1>1, Zenon
  <2> QED
    BY <1>0, <2>1 DEF Request
<1>2. CASE Demote(r) /\ Hit(cache)
  <2>1. p = Demoted(q)
    BY <1>0, <1>2 DEF Demote, Demoted
  <2>2. cache # None /\ cache.rep \in Report /\ (cache.rep.bound \/ cache.rep.blocked)
    BY <1>2 DEF Hit, Inv, TypeOK, BoundInv
  <2>3. q.sess = None
    BY <1>2 DEF Demote, Inv, RequestInv, SessionInv
  <2> HIDE DEF q
  <2>4. p.pc = "putdemoted" /\ p.sess = None /\ (p.rep.bound \/ p.rep.blocked)
    BY <1>0, <2>1, <2>2, <2>3, DemotedEffect
  <2> QED
    BY <2>4 DEF BoundRequest
<1>3. CASE ~(Demote(r) /\ Hit(cache))
  <2>1. p.pc \in {"idle", "demote", "wipe", "wipekey"}
    <3>1. CASE Promote(r)
      BY <1>0, <3>1, ReturnEnds DEF Promote
    <3>2. CASE Mark(r)
      BY <1>1, <3>2 DEF Mark
    <3>3. CASE Demote(r)
      BY <1>1, <1>3, <3>3 DEF Demote
    <3>4. CASE PutDemoted(r)
      BY <1>1, <3>4 DEF PutDemoted
    <3>5. CASE Wipe(r)
      BY <1>1, <3>5 DEF Wipe
    <3>6. CASE WipeKey(r)
      BY <1>0, <3>6, ReturnEnds DEF WipeKey
    <3> QED
      BY <3>1, <3>2, <3>3, <3>4, <3>5, <3>6
  <2> QED
    BY <1>0, <2>1, QuietBound DEF Reported
<1> QED
  BY <1>2, <1>3

\* What the caches hold.
CacheBound == /\ cache # None => cache.rep.bound \/ cache.rep.blocked
              /\ keyCache # None => keyCache.bound

\* Only bound keys, and reports that block or bind, are put into the caches.
LEMMA CachesBound ==
  ASSUME BindingEnforced, Inv, BoundInv, NEW r \in Requests, Arrive(r) \/ Step(r)
  PROVE  CacheBound'
<1>0. CacheBound /\ RequestInv(req[r]) /\ BoundRequest(req[r])
  BY DEF Inv, BoundInv, CacheBound
<1>1. CASE UNCHANGED <<cache, keyCache>>
  BY <1>0, <1>1 DEF CacheBound
<1>2. CASE Store(r)
  <2>1. req[r].rep.bound \/ req[r].rep.blocked
    BY <1>0, <1>2 DEF Store, BoundRequest, Reported
  <2> QED
    BY <1>0, <1>2, <2>1 DEF Store, CacheBound
<1>3. CASE Admit(r)
  <2>1. req[r].pc = "admit" /\ UNCHANGED cache
    BY <1>3 DEF Admit
  <2>2. req[r].rep.bound \/ req[r].rep.blocked
    BY <1>0, <2>1 DEF BoundRequest, Reported
  <2>3. Enforce(req[r].rep) => req[r].rep.bound
    BY <2>2 DEF Enforce, Blocked, BindingEnforced
  <2>4. req[r].raw # None => req[r].raw.bound = req[r].rep.bound
    BY <1>0 DEF RequestInv, RawInv
  <2>5. Enforce(req[r].rep) => (CachedKey(r) = keyCache \/ CachedKey(r).bound)
    BY <2>3, <2>4 DEF CachedKey
  <2>6. keyCache' = keyCache \/ (Enforce(req[r].rep) /\ keyCache' = CachedKey(r))
    BY <1>3 DEF Admit
  <2> QED
    BY <1>0, <2>1, <2>5, <2>6 DEF CacheBound
<1>4. CASE FetchKey(r)
  <2>1. UNCHANGED cache /\ (keyCache' = keyCache \/ keyCache'.bound)
    <3>1. /\ UNCHANGED cache
          /\ \/ keyCache' = keyCache
             \/ \E d \in Docs : AcceptKey(d) /\ keyCache' = [key |-> d.key, bound |-> d.bound, age |-> 0]
      BY <1>4 DEF FetchKey
    <3>2. \A d \in Docs : AcceptKey(d) => d.bound
      BY DEF AcceptKey
    <3> QED
      BY <3>1, <3>2
  <2> QED
    BY <1>0, <2>1 DEF CacheBound
<1>5. CASE Promote(r)
  <2>1. req[r].rep \in Report /\ (req[r].rep.bound \/ req[r].rep.blocked)
    BY <1>0, <1>5 DEF Promote, BoundRequest, RequestInv, ReportedInv, Reported
  <2>2. MarkE2EEUsable(req[r].rep).bound \/ MarkE2EEUsable(req[r].rep).blocked
    BY <2>1 DEF MarkE2EEUsable, Report
  <2> QED
    BY <1>0, <1>5, <2>2 DEF Promote, CacheBound
<1>6. CASE PutDemoted(r)
  <2>1. req[r].rep.bound \/ req[r].rep.blocked
    BY <1>0, <1>6 DEF PutDemoted, BoundRequest, Reported
  <2> QED
    BY <1>0, <1>6, <2>1 DEF PutDemoted, CacheBound
<1>7. CASE Wipe(r) \/ WipeKey(r)
  BY <1>0, <1>7 DEF Wipe, WipeKey, CacheBound
<1>8. \/ UNCHANGED <<cache, keyCache>>
      \/ Store(r) \/ Admit(r) \/ FetchKey(r) \/ Promote(r) \/ PutDemoted(r) \/ Wipe(r) \/ WipeKey(r)
  BY DEF Step, Arrive, Lookup, Attest, Gate, Mark, Demote, BuildPlain, BuildFromRaw, BuildFromCache,
         BuildFails, PrepareFails, Send, ForwardStatus, Relay
<1> QED
  BY <1>1, <1>2, <1>3, <1>4, <1>5, <1>6, <1>7, <1>8

\* The invariant of the bound keys is inductive.
LEMMA BoundStep ==
  ASSUME BindingEnforced, Inv, BoundInv, [Next]_vars
  PROVE  BoundInv'
<1>0. CacheBound /\ \A r \in Requests : BoundRequest(req[r])
  BY DEF BoundInv, CacheBound
<1> prov' = prov
  BY SameProvider
<1>1. CASE UNCHANGED vars
  BY <1>0, <1>1 DEF vars, BoundInv, CacheBound, BoundRequest
<1>2. CASE Tick
  <2>1. (cache' # None => cache'.rep = cache.rep) /\ (keyCache' # None => keyCache'.bound = keyCache.bound)
    <3>1. ASSUME cache # None PROVE Aged(cache).rep = cache.rep
      BY <3>1 DEF Aged, Inv, TypeOK
    <3>2. ASSUME keyCache # None PROVE Aged(keyCache).bound = keyCache.bound
      BY <3>2 DEF Aged, Inv, TypeOK
    <3> QED
      BY <1>2, <3>1, <3>2 DEF Tick, Aged
  <2>2. (cache' # None => cache # None) /\ (keyCache' # None => keyCache # None)
    BY <1>2 DEF Tick, Aged
  <2>3. CacheBound'
    BY <1>0, <2>1, <2>2 DEF CacheBound
  <2> QED
    BY <1>0, <1>2, <2>3 DEF Tick, BoundInv, CacheBound, BoundRequest
<1>3. ASSUME NEW r \in Requests, Arrive(r) \/ Step(r) PROVE BoundInv'
  <2>1. req' = [req EXCEPT ![r] = req'[r]]
    BY <1>3, HandlerSteps DEF Kept
  <2>2. BoundRequest(req'[r])
    BY <1>3, AdmissionBound, BuildBound, SendBound, RelayBound, TailBound DEF Step
  <2>3. CacheBound'
    BY <1>3, CachesBound
  <2>4. \A s \in Requests : BoundRequest(req'[s])
    BY <1>0, <2>1, <2>2 DEF Inv, TypeOK
  <2> QED
    BY <2>3, <2>4 DEF BoundInv, CacheBound, BoundRequest
<1>4. CASE Evict
  <2>1. req' = req /\ cache' \in {cache, None} /\ keyCache' \in {keyCache, None}
    BY <1>4 DEF Evict, EvictReport, EvictKey, EvictFailure
  <2> QED
    BY <1>0, <2>1 DEF BoundInv, CacheBound, BoundRequest
<1> QED
  BY <1>1, <1>2, <1>3, <1>4 DEF Next

\* With the binding factor enforced, the invariant of the bound keys holds.
LEMMA BoundHolds ==
  ASSUME BindingEnforced
  PROVE  Spec => []BoundInv
<1>1. Init => BoundInv
  <2>1. Idle.pc = "idle" /\ Idle.sess = None
    BY DEF Idle
  <2>2. BoundRequest(Idle)
    BY <2>1 DEF BoundRequest, Reported
  <2> QED
    BY <2>2 DEF Init, BoundInv
<1>2. Inv /\ BoundInv /\ [Next]_vars => BoundInv'
  BY BoundStep
<1> QED
  BY <1>1, <1>2, InvHolds, PTL DEF Spec

\* When the REPORTDATA binding is an enforced factor and --force is not given,
\* nothing is sent to an E2EE provider except encrypted to a bound key: not
\* from the request's own attestation, not from the shared key cache, not from
\* the nonce pool and not from a key fetched in between.
THEOREM OnlyBoundKeys ==
  ASSUME BindingEnforced
  PROVE  Spec => []SentOnlyToBoundKey
<1>1. BoundInv => SentOnlyToBoundKey
  BY DEF BoundInv, BoundRequest, SentOnlyToBoundKey
<1> QED
  BY <1>1, BoundHolds, PTL

(***************************************************************************)
(* The retry loops bound the upstream calls                                *)
(***************************************************************************)

\* The places of the attempts in the two nested loops.
LEMMA AttemptsFit ==
  ASSUME NEW a \in Tries, NEW b \in Tries
  PROVE  /\ (a - 1) * MaxAttempts + b <= MaxAttempts * MaxAttempts
         /\ a * MaxAttempts = (a - 1) * MaxAttempts + MaxAttempts
         /\ (a - 1) * MaxAttempts \in Nat
<1> USE BoundAssumption
<1>1. a \in Nat /\ b \in Nat /\ a >= 1 /\ a <= MaxAttempts /\ b <= MaxAttempts /\ MaxAttempts \in Nat
  BY DEF Tries
<1>2. \A x, y \in Int : (x - 1) * y = x * y - y
  OBVIOUS
<1>3. \A x, y, z \in Nat : x <= y => x * z <= y * z
  OBVIOUS
<1>4. \A x, y \in Nat : x * y \in Nat
  OBVIOUS
<1>5. a * MaxAttempts <= MaxAttempts * MaxAttempts /\ a - 1 \in Nat
  BY <1>1, <1>3
<1>6. (a - 1) * MaxAttempts \in Nat /\ a * MaxAttempts \in Nat /\ MaxAttempts * MaxAttempts \in Nat
  BY <1>1, <1>4, <1>5
<1>7. (a - 1) * MaxAttempts = a * MaxAttempts - MaxAttempts
  BY <1>1, <1>2
<1> QED
  BY <1>1, <1>5, <1>6, <1>7

\* A handler that returns starts to count again.
LEMMA ReturnCount == \A q, o : CountInv(Return(q, o)) /\ CountInv(Fail(q))
<1> SUFFICES ASSUME NEW q, NEW o PROVE CountInv(Return(q, o))
  BY DEF Fail
<1>1. Return(q, o).sends = 0 /\ Return(q, o).relayTry = 1 /\ Return(q, o).sendTry = 1 /\ Return(q, o).pc = "idle"
  BY DEF Return, Idle
<1>2. (1 - 1) * MaxAttempts + 1 = 1
  BY BoundAssumption
<1> QED
  BY <1>1, <1>2 DEF CountInv

\* What the counts satisfy also right after a call.
Counted(q) == /\ ~Chutes(q) => q.relayTry = 1 /\ q.sendTry = 1
              /\ q.sends <= (q.relayTry - 1) * MaxAttempts + q.sendTry

\* The end of an attempt.
LEMMA LateCount ==
  ASSUME NEW q \in Request, Counted(q), NEW p,
         p.sends = q.sends, p.relayTry = q.relayTry, p.sendTry = q.sendTry, p.active = q.active,
         p.pc \in {"relay", "promote", "mark", "demote", "putdemoted", "wipe", "wipekey"}
  PROVE  CountInv(p)
BY DEF Counted, CountInv, Chutes

\* A step that makes no call and starts no attempt.
LEMMA SameCount ==
  ASSUME NEW q \in Request, CountInv(q), NEW p,
         p.sends = q.sends, p.relayTry = q.relayTry, p.sendTry = q.sendTry, p.active = q.active,
         p.pc \in {"idle", "lookup", "attest", "store", "admit", "gate"}
           => q.pc \in {"idle", "lookup", "attest", "store", "admit", "gate"},
         p.pc \in {"build", "fetchkey", "send"}
           => q.pc \in {"idle", "lookup", "attest", "store", "admit", "gate", "build", "fetchkey", "send"}
  PROVE  CountInv(p)
<1>1. (1 - 1) * MaxAttempts + 1 = 1
  BY BoundAssumption
<1> QED
  BY <1>1 DEF CountInv, Chutes

\* Another attempt, of either loop, has room for another call.
LEMMA RetryCount ==
  ASSUME NEW q \in Request, Counted(q)
  PROVE  /\ q.sendTry < MaxTry(q) => CountInv(NextSend(q))
         /\ q.relayTry < MaxTry(q) => CountInv(NextRelay(q))
         /\ CountInv(UpstreamError(q))
         /\ \A cancelled \in BOOLEAN : CountInv(BuildError(q, cancelled))
<1>0. /\ q.relayTry \in Tries /\ q.sendTry \in Tries /\ q.sends \in Nat /\ Zeroed(q) \in Request
      /\ Zeroed(q) = [q EXCEPT !.sess = None]
  BY ZeroedEffect DEF Request, Zeroed
<1>1. /\ q.relayTry * MaxAttempts = (q.relayTry - 1) * MaxAttempts + MaxAttempts
      /\ (q.relayTry - 1) * MaxAttempts \in Nat
  BY <1>0, AttemptsFit
<1>2. /\ q.sends <= (q.relayTry - 1) * MaxAttempts + q.sendTry
      /\ (~Chutes(q) => q.relayTry = 1 /\ q.sendTry = 1)
      /\ MaxAttempts \in Nat /\ q.sendTry <= MaxAttempts /\ q.sendTry \in Nat /\ q.relayTry \in Nat
  BY <1>0, BoundAssumption DEF Counted, Tries
<1>3. ASSUME q.sendTry < MaxTry(q) PROVE CountInv(NextSend(q))
  <2> DEFINE p == NextSend(q)
  <2>1. /\ p.pc = "build" /\ p.sends = q.sends /\ p.relayTry = q.relayTry /\ p.sendTry = q.sendTry + 1
        /\ p.active = q.active
    BY <1>0 DEF NextSend, Request
  <2>2. Chutes(q)
    BY <1>2, <1>3 DEF MaxTry
  <2> HIDE DEF p
  <2>3. Chutes(p)
    BY <2>1, <2>2 DEF Chutes
  <2>4. q.sends < (q.relayTry - 1) * MaxAttempts + (q.sendTry + 1)
    BY <1>0, <1>1, <1>2
  <2>5. CountInv(p)
    BY <1>0, <1>1, <1>2, <2>1, <2>3, <2>4 DEF CountInv
  <2> QED
    BY <2>5 DEF p
<1>4. ASSUME q.relayTry < MaxTry(q) PROVE CountInv(NextRelay(q))
  <2> DEFINE p == NextRelay(q)
  <2>1. /\ p.pc = "build" /\ p.sends = q.sends /\ p.relayTry = q.relayTry + 1 /\ p.sendTry = 1
        /\ p.active = q.active
    BY <1>0 DEF NextRelay, Request
  <2>2. Chutes(q)
    BY <1>2, <1>4 DEF MaxTry
  <2> HIDE DEF p
  <2>3. Chutes(p)
    BY <2>1, <2>2 DEF Chutes
  <2>4. (p.relayTry - 1) * MaxAttempts + p.sendTry = q.relayTry * MaxAttempts + 1
    <3>1. p.relayTry - 1 = q.relayTry
      BY <1>2, <2>1
    <3> QED
      BY <2>1, <3>1
  <2>5. q.sends < q.relayTry * MaxAttempts + 1
    BY <1>0, <1>1, <1>2
  <2>6. q.sends <= q.relayTry * MaxAttempts + 1
    BY <1>0, <1>1, <1>2
  <2>7. CountInv(p)
    BY <2>1, <2>3, <2>4, <2>5, <2>6 DEF CountInv
  <2> QED
    BY <2>7 DEF p
<1>5. CountInv(UpstreamError(q))
  BY <1>4, ReturnCount DEF UpstreamError
<1>6. \A cancelled \in BOOLEAN : CountInv(BuildError(q, cancelled))
  BY <1>3, <1>5 DEF BuildError
<1> QED
  BY <1>3, <1>4, <1>5, <1>6

\* The counts after the steps up to the gate.
LEMMA AdmissionCount ==
  ASSUME Inv, NEW r \in Requests, CountInv(req[r]),
         Arrive(r) \/ Lookup(r) \/ Attest(r) \/ Store(r) \/ Admit(r) \/ Gate(r)
  PROVE  CountInv(req'[r])
<1> DEFINE q == req[r]
           p == req'[r]
<1>0. q \in Request /\ \A x : Set(r, x) => p = x
  BY DEF Inv, TypeOK, Set
<1>1. ASSUME NEW x \in PCs \ {"idle"}, q.pc \in {"lookup", "attest", "store", "admit", "gate"},
             NEW y, p = y, y.pc = x, y.sends = q.sends, y.relayTry = q.relayTry,
             y.sendTry = q.sendTry, y.active = q.active
      PROVE  CountInv(p)
  BY <1>0, <1>1, SameCount
<1>2. CASE Arrive(r)
  <2>1. CountInv(Fail(Idle))
    BY ReturnCount
  <2>2. CountInv([Idle EXCEPT !.pc = "lookup"])
    BY BoundAssumption DEF Idle, CountInv
  <2> QED
    BY <1>0, <1>2, <2>1, <2>2, Zenon DEF Arrive
<1>3. CASE Lookup(r)
  <2>1. \/ p = [q EXCEPT !.pc = "admit", !.rep = cache.rep]
        \/ p = [q EXCEPT !.pc = "attest"]
    BY <1>0, <1>3, Zenon DEF Lookup
  <2>2. /\ p.pc \in {"admit", "attest"} /\ p.sends = q.sends /\ p.relayTry = q.relayTry
        /\ p.sendTry = q.sendTry /\ p.active = q.active
    BY <1>0, <2>1 DEF Request
  <2> QED
    BY <1>0, <1>3, <2>2, SameCount DEF Lookup
<1>4. CASE Attest(r)
  <2>1. \/ p = Fail(q)
        \/ \E d \in Docs : p = [q EXCEPT !.pc = "store", !.rep = NewReport(d), !.raw = NewRaw(d)]
    BY <1>0, <1>4, Zenon DEF Attest
  <2>2. CASE p = Fail(q)
    BY <2>2, ReturnCount
  <2>3. ASSUME NEW d \in Docs, p = [q EXCEPT !.pc = "store", !.rep = NewReport(d), !.raw = NewRaw(d)]
        PROVE  CountInv(p)
    <3>1. /\ p.pc = "store" /\ p.sends = q.sends /\ p.relayTry = q.relayTry
          /\ p.sendTry = q.sendTry /\ p.active = q.active
      BY <1>0, <2>3 DEF Request
    <3> QED
      BY <1>0, <1>4, <3>1, SameCount DEF Attest
  <2> QED
    BY <2>1, <2>2, <2>3
<1>5. CASE Store(r)
  <2>1. p = [q EXCEPT !.pc = "admit"]
    BY <1>0, <1>5, Zenon DEF Store
  <2>2. /\ p.pc = "admit" /\ p.sends = q.sends /\ p.relayTry = q.relayTry
        /\ p.sendTry = q.sendTry /\ p.active = q.active
    BY <1>0, <2>1 DEF Request
  <2> QED
    BY <1>0, <1>5, <2>2, SameCount DEF Store
<1>6. CASE Admit(r)
  <2>1. \/ p = Fail(q)
        \/ \E e, x : x \in {"gate", "build"} /\ p = [q EXCEPT !.active = e, !.pc = x]
    <3>1. \/ Set(r, Fail(q))
          \/ \E e, x : x \in {"gate", "build"} /\ Set(r, [q EXCEPT !.active = e, !.pc = x])
      BY <1>6, Zenon DEF Admit
    <3> QED
      BY <1>0, <3>1, Zenon
  <2>2. CASE p = Fail(q)
    BY <2>2, ReturnCount
  <2>3. ASSUME NEW e, NEW x \in {"gate", "build"}, p = [q EXCEPT !.active = e, !.pc = x]
        PROVE  CountInv(p)
    <3>1. /\ p.pc = x /\ p.sends = q.sends /\ p.relayTry = q.relayTry /\ p.sendTry = q.sendTry
      BY <1>0, <2>3 DEF Request
    <3>2. q.sends = 0 /\ q.relayTry = 1 /\ q.sendTry = 1
      BY <1>6 DEF Admit, CountInv
    <3>3. (1 - 1) * MaxAttempts + 1 = 1
      BY BoundAssumption
    <3> QED
      BY <3>1, <3>2, <3>3 DEF CountInv
  <2> QED
    BY <2>1, <2>2, <2>3
<1>7. CASE Gate(r)
  <2>1. p = [q EXCEPT !.pc = "build"] \/ p = [q EXCEPT !.pc = "wipe"]
    BY <1>0, <1>7, Zenon DEF Gate
  <2>2. /\ p.pc \in {"build", "wipe"} /\ p.sends = q.sends /\ p.relayTry = q.relayTry
        /\ p.sendTry = q.sendTry /\ p.active = q.active
    BY <1>0, <2>1 DEF Request
  <2> QED
    BY <1>0, <1>7, <2>2, SameCount DEF Gate
<1> QED
  BY <1>2, <1>3, <1>4, <1>5, <1>6, <1>7

\* The counts after the steps that build the upstream request.
LEMMA BuildCount ==
  ASSUME Inv, NEW r \in Requests, CountInv(req[r]),
         \/ BuildPlain(r) \/ BuildFromRaw(r) \/ BuildFromCache(r)
         \/ FetchKey(r) \/ BuildFails(r) \/ PrepareFails(r)
  PROVE  CountInv(req'[r])
<1> DEFINE q == req[r]
           p == req'[r]
<1>0. q \in Request /\ Counted(q) /\ \A x : Set(r, x) => p = x
  BY DEF Inv, TypeOK, Set, CountInv, Counted
<1>1. Set(r, UpstreamError(q)) => CountInv(p)
  BY <1>0, RetryCount
<1>2. \A cancelled \in BOOLEAN : Set(r, BuildError(q, cancelled)) => CountInv(p)
  BY <1>0, RetryCount
<1>3. ASSUME q.pc \in {"build", "fetchkey"}, NEW x \in {"send", "fetchkey"}, Set(r, [q EXCEPT !.pc = x])
      PROVE  CountInv(p)
  <2>1. p = [q EXCEPT !.pc = x]
    BY <1>0, <1>3, Zenon
  <2>2. /\ p.pc = x /\ p.sends = q.sends /\ p.relayTry = q.relayTry
        /\ p.sendTry = q.sendTry /\ p.active = q.active
    BY <1>0, <2>1 DEF Request
  <2> QED
    BY <1>0, <1>3, <2>2, SameCount
<1>4. ASSUME q.pc \in {"build", "fetchkey"}, NEW k, NEW b, NEW n, Set(r, Encrypted(q, k, b, n))
      PROVE  CountInv(p)
  <2>1. p = [q EXCEPT !.pc = "send", !.sess = [key |-> k, bound |-> b, nonce |-> n]]
    BY <1>0, <1>4, Zenon DEF Encrypted
  <2>2. /\ p.pc = "send" /\ p.sends = q.sends /\ p.relayTry = q.relayTry
        /\ p.sendTry = q.sendTry /\ p.active = q.active
    BY <1>0, <2>1 DEF Request
  <2> QED
    BY <1>0, <1>4, <2>2, SameCount
<1>5. CASE BuildPlain(r)
  BY <1>2, <1>3, <1>5 DEF BuildPlain
<1>6. CASE BuildFromRaw(r)
  <2>1. CASE Set(r, EncryptedToRaw(q))
    <3> DEFINE x == [key |-> q.raw.key, bound |-> q.raw.bound, nonce |-> q.raw.nonce]
               e == [q EXCEPT !.pc = "send", !.sess = x]
    <3>1. p = [e EXCEPT !.raw.nonce = "spent"]
      BY <1>0, <2>1, Zenon DEF EncryptedToRaw, Encrypted
    <3> HIDE DEF x
    <3>2. /\ p.pc = "send" /\ p.sends = q.sends /\ p.relayTry = q.relayTry
          /\ p.sendTry = q.sendTry /\ p.active = q.active
      BY <1>0, <3>1 DEF Request
    <3> QED
      BY <1>0, <1>6, <3>2, SameCount DEF BuildFromRaw
  <2> QED
    BY <1>2, <1>6, <2>1 DEF BuildFromRaw
<1>7. CASE BuildFromCache(r)
  BY <1>3, <1>4, <1>7 DEF BuildFromCache
<1>8. CASE FetchKey(r)
  BY <1>2, <1>4, <1>8 DEF FetchKey
<1>9. CASE BuildFails(r)
  BY <1>1, <1>2, <1>9 DEF BuildFails
<1>10. CASE PrepareFails(r)
  BY <1>1, <1>10 DEF PrepareFails
<1> QED
  BY <1>5, <1>6, <1>7, <1>8, <1>9, <1>10

\* The counts after the call of the upstream, which uses up the attempt.
LEMMA SendCount ==
  ASSUME Inv, NEW r \in Requests, CountInv(req[r]), Send(r)
  PROVE  CountInv(req'[r])
<1> DEFINE q == [req[r] EXCEPT !.sends = @ + 1]
           p == req'[r]
<1>0. req[r] \in Request /\ \A x : Set(r, x) => p = x
  BY DEF Inv, TypeOK, Set
<1>1. /\ \/ Set(r, [Zeroed(q) EXCEPT !.pc = "wipe"])
         \/ Set(r, UpstreamError(q))
         \/ q.sendTry < MaxTry(q) /\ Set(r, NextSend(q))
         \/ \E peer \in {"attested", "other"}, resp \in {"ok", "status"} :
              Set(r, [q EXCEPT !.pc = "relay", !.peer = peer, !.resp = resp])
  BY SendOutcomes
<1>2. req[r].pc = "send"
  BY <1>0 DEF Send, Request
<1>3. /\ q \in Request /\ q.sends = req[r].sends + 1 /\ q.relayTry = req[r].relayTry
      /\ q.sendTry = req[r].sendTry /\ q.active = req[r].active
  BY <1>0 DEF Request
<1> HIDE DEF q
<1>4. Counted(q)
  <2>1. req[r].sends < (req[r].relayTry - 1) * MaxAttempts + req[r].sendTry
    BY <1>2 DEF CountInv
  <2>2. /\ req[r].sends \in Nat /\ req[r].sendTry \in Nat /\ (req[r].relayTry - 1) * MaxAttempts \in Nat
    <3>1. req[r].relayTry \in Tries /\ req[r].sendTry \in Tries /\ req[r].sends \in Nat
      BY <1>0 DEF Request
    <3> QED
      BY <3>1, AttemptsFit DEF Tries
  <2>3. q.sends <= (q.relayTry - 1) * MaxAttempts + q.sendTry
    BY <1>3, <2>1, <2>2
  <2> QED
    BY <1>3, <2>3 DEF CountInv, Counted, Chutes
<1>5. CASE Set(r, [Zeroed(q) EXCEPT !.pc = "wipe"])
  <2>1. p = [[q EXCEPT !.sess = None] EXCEPT !.pc = "wipe"]
    BY <1>0, <1>5, Zenon DEF Zeroed
  <2>2. /\ p.pc = "wipe" /\ p.sends = q.sends /\ p.relayTry = q.relayTry
        /\ p.sendTry = q.sendTry /\ p.active = q.active
    BY <1>3, <2>1 DEF Request
  <2> QED
    BY <1>3, <1>4, <2>2, LateCount
<1>6. ASSUME NEW peer \in {"attested", "other"}, NEW resp \in {"ok", "status"},
             Set(r, [q EXCEPT !.pc = "relay", !.peer = peer, !.resp = resp])
      PROVE  CountInv(p)
  <2>1. p = [q EXCEPT !.pc = "relay", !.peer = peer, !.resp = resp]
    BY <1>0, <1>6, Zenon
  <2>2. /\ p.pc = "relay" /\ p.sends = q.sends /\ p.relayTry = q.relayTry
        /\ p.sendTry = q.sendTry /\ p.active = q.active
    BY <1>3, <2>1 DEF Request
  <2> QED
    BY <1>3, <1>4, <2>2, LateCount
<1>7. CASE Set(r, UpstreamError(q))
  BY <1>0, <1>3, <1>4, <1>7, RetryCount
<1>8. CASE q.sendTry < MaxTry(q) /\ Set(r, NextSend(q))
  BY <1>0, <1>3, <1>4, <1>8, RetryCount
<1> QED
  BY <1>1, <1>5, <1>6, <1>7, <1>8

\* The counts after the relay of an answer.
LEMMA RelayCount ==
  ASSUME Inv, NEW r \in Requests, CountInv(req[r]), Relay(r) \/ ForwardStatus(r)
  PROVE  CountInv(req'[r])
<1> DEFINE q == req[r]
           p == req'[r]
<1>0. q \in Request /\ Counted(q) /\ \A x : Set(r, x) => p = x
  BY DEF Inv, TypeOK, Set, CountInv, Counted
<1>1. ASSUME NEW x \in Request, Counted(x), NEW y \in {"promote", "mark"},
             p = [Zeroed(x) EXCEPT !.pc = y] \/ p = [Zeroed(x) EXCEPT !.pc = y, !.hdr = @ + 1]
      PROVE  CountInv(p)
  <2>1. /\ p.pc = y /\ p.sends = x.sends /\ p.relayTry = x.relayTry
        /\ p.sendTry = x.sendTry /\ p.active = x.active
    BY <1>1 DEF Request, Zeroed
  <2> QED
    BY <1>1, <2>1, LateCount
<1>2. CASE ForwardStatus(r)
  BY <1>0, <1>2, ReturnCount DEF ForwardStatus
<1>3. CASE Set(r, [Zeroed(q) EXCEPT !.pc = "mark", !.hdr = @ + 1])
  BY <1>0, <1>1, <1>3
<1>4. CASE Relay(r) /\ ~Set(r, [Zeroed(q) EXCEPT !.pc = "mark", !.hdr = @ + 1])
  <2>1. PICK h \in {0, 1} :
          LET x == [q EXCEPT !.hdr = @ + h] IN
          \/ Set(r, Relayed(x))
          \/ Set(r, Fail(Zeroed(x)))
          \/ x.relayTry < MaxTry(x) /\ x.hdr = 0 /\ Set(r, NextRelay(x))
          \/ Set(r, [Zeroed(x) EXCEPT !.pc = "mark"])
    BY <1>4, RelayOutcome
  <2> DEFINE x == [q EXCEPT !.hdr = @ + h]
  <2>2. /\ x \in Request /\ x.sends = q.sends /\ x.relayTry = q.relayTry
        /\ x.sendTry = q.sendTry /\ x.active = q.active
    BY <1>0 DEF Request
  <2>3. \/ Set(r, Relayed(x))
        \/ Set(r, Fail(Zeroed(x)))
        \/ x.relayTry < MaxTry(x) /\ Set(r, NextRelay(x))
        \/ Set(r, [Zeroed(x) EXCEPT !.pc = "mark"])
    BY <2>1
  <2> HIDE DEF x
  <2>4. Counted(x)
    BY <1>0, <2>2 DEF Counted, Chutes
  <2>5. CASE Set(r, Relayed(x))
    <3>1. p = Relayed(x)
      BY <1>0, <2>5, Zenon
    <3>2. p = Return(Zeroed(x), "ok") \/ p = [Zeroed(x) EXCEPT !.pc = "promote"]
      BY <3>1 DEF Relayed
    <3>3. CASE p = Return(Zeroed(x), "ok")
      BY <3>3, ReturnCount
    <3>4. CASE p = [Zeroed(x) EXCEPT !.pc = "promote"]
      BY <1>1, <2>2, <2>4, <3>4
    <3> QED
      BY <3>2, <3>3, <3>4
  <2>6. CASE Set(r, Fail(Zeroed(x)))
    BY <1>0, <2>6, ReturnCount
  <2>7. CASE x.relayTry < MaxTry(x) /\ Set(r, NextRelay(x))
    BY <1>0, <2>2, <2>4, <2>7, RetryCount
  <2>8. CASE Set(r, [Zeroed(x) EXCEPT !.pc = "mark"])
    BY <1>0, <1>1, <2>2, <2>4, <2>8
  <2> QED
    BY <2>3, <2>5, <2>6, <2>7, <2>8
<1> QED
  BY <1>2, <1>3, <1>4

\* The counts after promotion or the invalidation of the caches.
LEMMA TailCount ==
  ASSUME Inv, NEW r \in Requests, CountInv(req[r]),
         Promote(r) \/ Mark(r) \/ Demote(r) \/ PutDemoted(r) \/ Wipe(r) \/ WipeKey(r)
  PROVE  CountInv(req'[r])
<1> DEFINE q == req[r]
           p == req'[r]
<1>0. q \in Request /\ Counted(q) /\ \A x : Set(r, x) => p = x
  BY DEF Inv, TypeOK, Set, CountInv, Counted
<1>1. ASSUME NEW x \in {"demote", "wipe", "wipekey"}, Set(r, [q EXCEPT !.pc = x])
      PROVE  CountInv(p)
  <2>1. p = [q EXCEPT !.pc = x]
    BY <1>0, <1>1, Zenon
  <2>2. /\ p.pc = x /\ p.sends = q.sends /\ p.relayTry = q.relayTry
        /\ p.sendTry = q.sendTry /\ p.active = q.active
    BY <1>0, <2>1 DEF Request
  <2> QED
    BY <1>0, <2>2, LateCount
<1>2. CASE Promote(r)
  BY <1>0, <1>2, ReturnCount DEF Promote
<1>3. CASE Mark(r) \/ (Demote(r) /\ ~Hit(cache)) \/ PutDemoted(r) \/ Wipe(r)
  BY <1>1, <1>3 DEF Mark, Demote, PutDemoted, Wipe
<1>4. CASE Demote(r) /\ Hit(cache)
  <2>1. p = Demoted(q)
    BY <1>0, <1>4 DEF Demote, Demoted
  <2>2. cache.rep \in Report
    BY <1>4 DEF Hit, Inv, TypeOK
  <2> HIDE DEF q, p
  <2>3. /\ p.pc = "putdemoted" /\ p.sends = q.sends /\ p.relayTry = q.relayTry
        /\ p.sendTry = q.sendTry /\ p.active = q.active
    BY <1>0, <2>1, <2>2, DemotedEffect
  <2>4. CountInv(p)
    BY <1>0, <2>3, LateCount
  <2> QED
    BY <2>4 DEF p
<1>5. CASE WipeKey(r)
  BY <1>0, <1>5, ReturnCount DEF WipeKey
<1> QED
  BY <1>2, <1>3, <1>4, <1>5

CountsInv == \A r \in Requests : CountInv(req[r])

LEMMA CountStep == Inv /\ CountsInv /\ [Next]_vars => CountsInv'
<1> SUFFICES ASSUME Inv, CountsInv, [Next]_vars PROVE CountsInv'
  OBVIOUS
<1> prov' = prov
  BY SameProvider
<1>1. CASE UNCHANGED req
  BY <1>1 DEF CountsInv, CountInv, Chutes
<1>2. ASSUME NEW r \in Requests, Arrive(r) \/ Step(r) PROVE CountsInv'
  <2>1. req' = [req EXCEPT ![r] = req'[r]]
    BY <1>2, HandlerSteps DEF Kept
  <2>2. CountInv(req'[r])
    BY <1>2, AdmissionCount, BuildCount, SendCount, RelayCount, TailCount DEF Step, CountsInv
  <2>3. \A s \in Requests : CountInv(req'[s])
    BY <2>1, <2>2 DEF CountsInv, Inv, TypeOK
  <2> QED
    BY <2>3 DEF CountsInv, CountInv, Chutes
<1> QED
  BY <1>1, <1>2 DEF Next, Tick, Evict, EvictReport, EvictKey, EvictFailure, vars

\* One request makes at most MaxAttempts * MaxAttempts upstream calls where
\* relayWithRetry and doUpstreamRoundtrip may both retry, and otherwise one.
THEOREM RetriesBounded == Spec => []SendsBounded
<1>1. Init => CountsInv
  <2>1. CountInv(Idle)
    BY BoundAssumption DEF Idle, CountInv
  <2> QED
    BY <2>1 DEF Init, CountsInv
<1>2. Inv /\ CountsInv => SendsBounded
  <2> SUFFICES ASSUME Inv, CountsInv, NEW r \in Requests
               PROVE  req[r].sends <= IF prov.pool THEN MaxAttempts * MaxAttempts ELSE 1
    BY DEF SendsBounded
  <2>1. req[r].relayTry \in Tries /\ req[r].sendTry \in Tries /\ req[r].sends \in Nat
    BY DEF Inv, TypeOK, Request
  <2>2. /\ (req[r].relayTry - 1) * MaxAttempts + req[r].sendTry <= MaxAttempts * MaxAttempts
        /\ (req[r].relayTry - 1) * MaxAttempts \in Nat /\ req[r].sendTry \in Nat
        /\ MaxAttempts * MaxAttempts \in Nat
    BY <2>1, AttemptsFit, BoundAssumption DEF Tries
  <2>3. req[r].sends <= (req[r].relayTry - 1) * MaxAttempts + req[r].sendTry
    BY DEF CountsInv, CountInv
  <2>4. CASE prov.pool
    BY <2>1, <2>2, <2>3, <2>4
  <2>5. CASE ~prov.pool
    <3>1. req[r].relayTry = 1 /\ req[r].sendTry = 1
      BY <2>5 DEF CountsInv, CountInv, Chutes
    <3>2. (1 - 1) * MaxAttempts + 1 = 1
      BY BoundAssumption
    <3> QED
      BY <2>3, <2>5, <3>1, <3>2
  <2> QED
    BY <2>4, <2>5
<1> QED
  BY <1>1, <1>2, CountStep, InvHolds, PTL DEF Spec

(***************************************************************************)
(* The refinement of Exchange                                              *)
(***************************************************************************)

\* Where the proxy holds the body, and where it only cleans up.
HeldAt == {"lookup", "attest", "store", "admit", "gate", "build", "fetchkey"}
ClosingAt == {"promote", "mark", "demote", "putdemoted", "wipe", "wipekey"}

\* How the handler goes from one place to the next.
Walks(q, p) ==
  \/ q.pc = "idle" /\ p.pc \in {"idle", "lookup"}
  \/ q.pc \in HeldAt /\ p.pc \in HeldAt \cup {"idle", "send", "wipe"}
  \/ q.pc = "send" /\ p.pc \in {"idle", "build", "wipe", "relay"}
  \/ q.pc = "relay" /\ q.resp = "ok" /\ p.pc \in {"idle", "build", "promote", "mark"}
  \/ q.pc = "relay" /\ p.pc = "idle"
  \/ q.pc \in ClosingAt /\ p.pc \in ClosingAt \cup {"idle"}

LEMMA AdmissionWalks ==
  ASSUME Inv, NEW r \in Requests,
         Arrive(r) \/ Lookup(r) \/ Attest(r) \/ Store(r) \/ Admit(r) \/ Gate(r)
  PROVE  Walks(req[r], req'[r])
<1> DEFINE q == req[r]
           p == req'[r]
<1>0. q \in Request /\ \A x : Set(r, x) => p = x
  BY DEF Inv, TypeOK, Set
<1>1. ASSUME NEW x \in {"admit", "attest", "store", "gate", "build", "wipe"}
      PROVE  [q EXCEPT !.pc = x].pc = x
  BY <1>0 DEF Request
<1>2. CASE Arrive(r)
  <2>1. [Idle EXCEPT !.pc = "lookup"].pc = "lookup"
    BY DEF Idle
  <2>2. q.pc = "idle" /\ p.pc \in {"idle", "lookup"}
    BY <1>0, <1>2, <2>1, ReturnEnds DEF Arrive
  <2> QED
    BY <2>2 DEF Walks
<1>3. CASE Lookup(r)
  <2>1. q.pc = "lookup" /\ p.pc \in {"admit", "attest"}
    BY <1>0, <1>3 DEF Lookup, Request
  <2> QED
    BY <2>1 DEF Walks, HeldAt
<1>4. CASE Attest(r)
  <2>1. q.pc = "attest" /\ p.pc \in {"idle", "store"}
    <3>1. /\ q.pc = "attest"
          /\ Set(r, Fail(q)) \/ \E x, y : Set(r, [q EXCEPT !.pc = "store", !.rep = x, !.raw = y])
      BY <1>4 DEF Attest
    <3>2. \A x, y : [q EXCEPT !.pc = "store", !.rep = x, !.raw = y].pc = "store"
      BY <1>0 DEF Request
    <3>3. Set(r, Fail(q)) => p.pc = "idle"
      BY <1>0, ReturnEnds
    <3>4. ASSUME NEW x, NEW y, Set(r, [q EXCEPT !.pc = "store", !.rep = x, !.raw = y])
          PROVE  p.pc = "store"
      <4>1. p = [q EXCEPT !.pc = "store", !.rep = x, !.raw = y]
        BY <1>0, <3>4, Zenon
      <4> QED
        BY <3>2, <4>1
    <3> QED
      BY <3>1, <3>3, <3>4
  <2> QED
    BY <2>1 DEF Walks, HeldAt
<1>5. CASE Store(r)
  <2>1. q.pc = "store" /\ p.pc = "admit"
    BY <1>0, <1>1, <1>5 DEF Store
  <2> QED
    BY <2>1 DEF Walks, HeldAt
<1>6. CASE Admit(r)
  <2>1. q.pc = "admit" /\ p.pc \in {"idle", "gate", "build"}
    <3> DEFINE e == prov.e2ee /\ q.rep.bound
               y == IF e THEN "gate" ELSE "build"
               n == [q EXCEPT !.active = e, !.pc = y]
    <3>1. q.pc = "admit" /\ (Set(r, Fail(q)) \/ Set(r, n))
      BY <1>6 DEF Admit
    <3>2. y \in {"gate", "build"}
      OBVIOUS
    <3> HIDE DEF y, e
    <3>3. n.pc = y
      BY <1>0 DEF Request
    <3> HIDE DEF n
    <3> QED
      BY <1>0, <3>1, <3>2, <3>3, ReturnEnds
  <2> QED
    BY <2>1 DEF Walks, HeldAt
<1>7. CASE Gate(r)
  <2>1. q.pc = "gate" /\ p.pc \in {"build", "wipe"}
    BY <1>0, <1>1, <1>7 DEF Gate
  <2> QED
    BY <2>1 DEF Walks, HeldAt
<1> QED
  BY <1>2, <1>3, <1>4, <1>5, <1>6, <1>7

LEMMA BuildWalks ==
  ASSUME Inv, NEW r \in Requests,
         \/ BuildPlain(r) \/ BuildFromRaw(r) \/ BuildFromCache(r)
         \/ FetchKey(r) \/ BuildFails(r) \/ PrepareFails(r)
  PROVE  Walks(req[r], req'[r])
<1> DEFINE q == req[r]
           p == req'[r]
<1>0. RequestInv(q) /\ q \in Request /\ \A x : Set(r, x) => p = x
  BY DEF Inv, TypeOK, Set
<1>1. q.pc \in {"build", "fetchkey", "send"}
  BY DEF BuildPlain, BuildFromRaw, BuildFromCache, FetchKey, BuildFails, PrepareFails
<1>2. q.pc \in Forwarding /\ q.hdr = 0
  BY <1>0, <1>1 DEF Forwarding, RequestInv, AnswerInv
<1>3. ASSUME q.pc \in {"build", "fetchkey"}, p.pc \in {"idle", "build", "fetchkey", "send"}
      PROVE  Walks(q, p)
  BY <1>3 DEF Walks, HeldAt
<1>4. Set(r, UpstreamError(q)) => p.pc \in {"idle", "build"}
  BY <1>0, <1>2, UpstreamErrorInvariant DEF RetriesOrEnds
<1>5. \A cancelled \in BOOLEAN : Set(r, BuildError(q, cancelled)) => p.pc \in {"idle", "build"}
  BY <1>0, <1>2, BuildErrorInvariant DEF RetriesOrEnds
<1>6. \A k, bound, nonce : Set(r, Encrypted(q, k, bound, nonce)) => p.pc = "send"
  <2>1. \A k, bound, nonce : Encrypted(q, k, bound, nonce).pc = "send"
    BY <1>0 DEF Encrypted, Request
  <2> QED
    BY <1>0, <2>1
<1>7. \A x \in {"fetchkey", "send"} : Set(r, [q EXCEPT !.pc = x]) => p.pc = x
  <2>1. \A x \in {"fetchkey", "send"} : [q EXCEPT !.pc = x].pc = x
    BY <1>0 DEF Request
  <2> QED
    BY <1>0, <2>1
<1>8. CASE BuildPlain(r)
  BY <1>3, <1>5, <1>7, <1>8 DEF BuildPlain
<1>9. CASE BuildFromRaw(r)
  <2>1. q.pc = "build" /\ FreshRaw(q)
        /\ (Set(r, BuildError(q, FALSE)) \/ Set(r, EncryptedToRaw(q)))
    BY <1>9 DEF BuildFromRaw
  <2>2. EncryptedToRaw(q).pc = "send"
    BY <1>0, <2>1, EncryptedToRawInvariant
  <2> QED
    BY <1>0, <1>3, <1>5, <2>1, <2>2
<1>10. CASE BuildFromCache(r)
  BY <1>3, <1>6, <1>7, <1>10 DEF BuildFromCache
<1>11. CASE FetchKey(r)
  BY <1>3, <1>5, <1>6, <1>11 DEF FetchKey
<1>12. CASE BuildFails(r)
  BY <1>3, <1>4, <1>5, <1>12 DEF BuildFails
<1>13. CASE PrepareFails(r)
  BY <1>4, <1>13 DEF PrepareFails, Walks
<1> QED
  BY <1>8, <1>9, <1>10, <1>11, <1>12, <1>13

LEMMA SendWalks ==
  ASSUME Inv, NEW r \in Requests, Send(r)
  PROVE  Walks(req[r], req'[r])
<1> DEFINE q == [req[r] EXCEPT !.sends = @ + 1]
           p == req'[r]
<1>0. RequestInv(req[r]) /\ \A x : Set(r, x) => p = x
  BY DEF Inv, TypeOK, Set
<1>1. RequestInv(q) /\ q.pc = req[r].pc /\ q.pc = "send"
  BY <1>0, SentInvariant DEF Send
<1>2. /\ \/ Set(r, [Zeroed(q) EXCEPT !.pc = "wipe"])
         \/ Set(r, UpstreamError(q))
         \/ q.sendTry < MaxTry(q) /\ Set(r, NextSend(q))
         \/ \E peer \in {"attested", "other"}, resp \in {"ok", "status"} :
              Set(r, [q EXCEPT !.pc = "relay", !.peer = peer, !.resp = resp])
  BY SendOutcomes
<1> HIDE DEF q
<1>3. q \in Request /\ q.pc \in Forwarding /\ q.hdr = 0
  BY <1>1 DEF RequestInv, AnswerInv, Forwarding
<1>4. Set(r, [Zeroed(q) EXCEPT !.pc = "wipe"]) => p.pc = "wipe"
  <2>1. [Zeroed(q) EXCEPT !.pc = "wipe"].pc = "wipe"
    BY <1>3, ZeroedEffect DEF Request
  <2> QED
    BY <1>0, <2>1
<1>5. Set(r, UpstreamError(q)) => p.pc \in {"idle", "build"}
  BY <1>0, <1>1, <1>3, UpstreamErrorInvariant DEF RetriesOrEnds
<1>6. q.sendTry < MaxTry(q) /\ Set(r, NextSend(q)) => p.pc = "build"
  BY <1>0, <1>1, <1>3, NextSendInvariant
<1>7. ASSUME NEW peer \in {"attested", "other"}, NEW resp \in {"ok", "status"},
             Set(r, [q EXCEPT !.pc = "relay", !.peer = peer, !.resp = resp])
      PROVE  p.pc = "relay"
  <2>1. [q EXCEPT !.pc = "relay", !.peer = peer, !.resp = resp].pc = "relay"
    BY <1>3 DEF Request
  <2> QED
    BY <1>0, <1>7, <2>1
<1>8. p.pc \in {"idle", "build", "wipe", "relay"}
  BY <1>2, <1>4, <1>5, <1>6, <1>7
<1> QED
  BY <1>1, <1>8 DEF Walks

LEMMA RelayWalks ==
  ASSUME Inv, NEW r \in Requests, Relay(r) \/ ForwardStatus(r)
  PROVE  Walks(req[r], req'[r])
<1> DEFINE q == req[r]
           p == req'[r]
<1>0. RequestInv(q) /\ q \in Request /\ q.pc = "relay" /\ \A x : Set(r, x) => p = x
  BY DEF Inv, TypeOK, Set, Relay, ForwardStatus
<1>1. CASE ForwardStatus(r)
  BY <1>0, <1>1, ReturnEnds DEF ForwardStatus, Walks
<1>2. ASSUME NEW x \in Request, NEW y \in {"promote", "mark"} PROVE [Zeroed(x) EXCEPT !.pc = y].pc = y
  BY ZeroedEffect DEF Request
<1>3. CASE Set(r, [Zeroed(q) EXCEPT !.pc = "mark", !.hdr = @ + 1])
  <2>1. p = [Zeroed(q) EXCEPT !.pc = "mark", !.hdr = @ + 1]
    BY <1>0, <1>3, Zenon
  <2>2. Zeroed(q) \in Request
    BY <1>0, ZeroedEffect
  <2>3. p.pc = "mark"
    BY <2>1, <2>2 DEF Request
  <2>4. q.resp = "ok" \/ p.pc = "idle"
    BY <1>0, <1>1, <2>3, ReturnEnds DEF Relay, ForwardStatus
  <2> QED
    BY <1>0, <2>3, <2>4 DEF Walks
<1>4. CASE Relay(r) /\ ~Set(r, [Zeroed(q) EXCEPT !.pc = "mark", !.hdr = @ + 1])
  <2>0. q.resp = "ok"
    BY <1>4 DEF Relay
  <2>1. PICK h \in {0, 1} :
          LET x == [q EXCEPT !.hdr = @ + h] IN
          \/ Set(r, Relayed(x))
          \/ Set(r, Fail(Zeroed(x)))
          \/ x.relayTry < MaxTry(x) /\ x.hdr = 0 /\ Set(r, NextRelay(x))
          \/ Set(r, [Zeroed(x) EXCEPT !.pc = "mark"])
    BY <1>4, RelayOutcome
  <2> DEFINE x == [q EXCEPT !.hdr = @ + h]
  <2>2. \/ Set(r, Relayed(x))
        \/ Set(r, Fail(Zeroed(x)))
        \/ Set(r, NextRelay(x))
        \/ Set(r, [Zeroed(x) EXCEPT !.pc = "mark"])
    BY <2>1
  <2>3. x \in Request
    BY <1>0, RelayedEffect
  <2> HIDE DEF x
  <2>4. Set(r, Relayed(x)) => p.pc \in {"idle", "promote"}
    <3>1. CASE x.active
      <4>1. Relayed(x) = [Zeroed(x) EXCEPT !.pc = "promote"]
        BY <3>1 DEF Relayed
      <4>2. [Zeroed(x) EXCEPT !.pc = "promote"].pc = "promote"
        BY <1>2, <2>3
      <4> QED
        BY <1>0, <4>1, <4>2
    <3>2. CASE ~x.active
      <4>1. Relayed(x).pc = "idle"
        BY <3>2, ReturnEnds DEF Relayed
      <4> QED
        BY <1>0, <4>1
    <3> QED
      BY <3>1, <3>2
  <2>5. Set(r, Fail(Zeroed(x))) => p.pc = "idle"
    BY <1>0, ReturnEnds
  <2>6. Set(r, NextRelay(x)) => p.pc = "build"
    <3>1. NextRelay(x).pc = "build"
      BY <2>3, ZeroedEffect DEF NextRelay, Request
    <3> QED
      BY <1>0, <3>1
  <2>7. Set(r, [Zeroed(x) EXCEPT !.pc = "mark"]) => p.pc = "mark"
    BY <1>0, <1>2, <2>3
  <2>8. p.pc \in {"idle", "build", "promote", "mark"}
    BY <2>2, <2>4, <2>5, <2>6, <2>7
  <2> QED
    BY <1>0, <2>0, <2>8 DEF Walks
<1> QED
  BY <1>1, <1>3, <1>4

LEMMA TailWalks ==
  ASSUME Inv, NEW r \in Requests,
         Promote(r) \/ Mark(r) \/ Demote(r) \/ PutDemoted(r) \/ Wipe(r) \/ WipeKey(r)
  PROVE  Walks(req[r], req'[r])
<1> DEFINE q == req[r]
           p == req'[r]
<1>0. q \in Request /\ \A x : Set(r, x) => p = x
  BY DEF Inv, TypeOK, Set
<1>1. \A x \in {"demote", "wipe", "wipekey"} : Set(r, [q EXCEPT !.pc = x]) => p.pc = x
  <2>1. \A x \in {"demote", "wipe", "wipekey"} : [q EXCEPT !.pc = x].pc = x
    BY <1>0 DEF Request
  <2> QED
    BY <1>0, <2>1
<1>2. q.pc \in ClosingAt
  BY DEF Promote, Mark, Demote, PutDemoted, Wipe, WipeKey, ClosingAt
<1>3. p.pc \in {"idle", "demote", "putdemoted", "wipe", "wipekey"}
  <2>1. CASE Promote(r)
    BY <1>0, <2>1, ReturnEnds DEF Promote
  <2>2. CASE Mark(r)
    BY <1>1, <2>2 DEF Mark
  <2>3. CASE Demote(r) /\ ~Hit(cache)
    BY <1>1, <2>3 DEF Demote
  <2>4. CASE Demote(r) /\ Hit(cache)
    <3>1. p = Demoted(q) /\ cache.rep \in Report
      BY <1>0, <2>4 DEF Demote, Demoted, Hit, Inv, TypeOK
    <3> HIDE DEF q
    <3> QED
      BY <1>0, <3>1, DemotedEffect
  <2>5. CASE PutDemoted(r)
    BY <1>1, <2>5 DEF PutDemoted
  <2>6. CASE Wipe(r)
    BY <1>1, <2>6 DEF Wipe
  <2>7. CASE WipeKey(r)
    BY <1>0, <2>7, ReturnEnds DEF WipeKey
  <2> QED
    BY <2>1, <2>2, <2>3, <2>4, <2>5, <2>6, <2>7
<1> QED
  BY <1>2, <1>3 DEF Walks, ClosingAt

LEMMA HandlerWalks ==
  ASSUME Inv, NEW r \in Requests, Arrive(r) \/ Step(r)
  PROVE  Walks(req[r], req'[r])
  BY AdmissionWalks, BuildWalks, SendWalks, RelayWalks, TailWalks DEF Step

\* The phase of a handler at each of its places.
PhaseRequest(q) ==
  /\ q.pc = "idle" => Phase(q) = "idle"
  /\ q.pc \in HeldAt => Phase(q) = "held"
  /\ q.pc \in ClosingAt => Phase(q) = "closing"
  /\ q.pc = "send" => Phase(q) = "sealed" \/ (Phase(q) = "plain" /\ ~prov.e2ee)
  /\ q.pc = "relay" /\ q.resp = "ok" => Phase(q) = "relaying" /\ Verdict(q)
  /\ q.pc = "relay" /\ q.resp # "ok" => Phase(q) = "closing"

\* The invariants make it so.
LEMMA PhaseFacts ==
  ASSUME Inv, BoundInv, NEW r \in Requests
  PROVE  PhaseRequest(req[r])
<1> DEFINE q == req[r]
<1>1. RequestInv(q) /\ BoundRequest(q)
  BY DEF Inv, BoundInv
<1> HIDE DEF q
<1>2. q.pc = "idle" => Phase(q) = "idle"
  BY DEF Phase
<1>3. q.pc \in HeldAt => Phase(q) = "held"
  BY DEF Phase, HeldAt
<1>4. q.pc \in ClosingAt => Phase(q) = "closing"
  BY DEF Phase, ClosingAt
<1>5. q.pc = "send" => Phase(q) = "sealed" \/ (Phase(q) = "plain" /\ ~prov.e2ee)
  <2>1. q.pc = "send" => Phase(q) = Sent(q)
    BY DEF Phase
  <2>2. q.pc = "send" => q.sess # None \/ ~prov.e2ee
    BY <1>1 DEF BoundRequest
  <2>3. q.sess # None => q.sess.bound /\ q.sess.nonce = "fresh"
    BY <1>1 DEF BoundRequest, RequestInv, NonceInv
  <2> QED
    BY <2>1, <2>2, <2>3 DEF Sent
<1>6. q.pc = "relay" /\ q.resp = "ok" => Phase(q) = "relaying"
  BY DEF Phase
<1>7. q.pc = "relay" => Verdict(q)
  BY <1>1 DEF Verdict, RequestInv, ReportedInv, Reported, Forwarding
<1>8. q.pc = "relay" /\ q.resp # "ok" => Phase(q) = "closing"
  BY DEF Phase
<1> QED
  BY <1>2, <1>3, <1>4, <1>5, <1>6, <1>7, <1>8 DEF q, PhaseRequest

\* The variables of Exchange.
Held == [r \in Requests |-> Phase(req[r])]
Judged == [r \in Requests |-> Verdict(req[r])]

\* The steps Exchange allows one request, from phase a to phase b, where v is
\* the verdict after the step.
Turns(a, b, v) ==
  \/ a = b /\ a # "relaying"
  \/ a = "idle" /\ b = "held"
  \/ a = "held" /\ (b = "sealed" \/ (b = "plain" /\ ~prov.e2ee))
  \/ a \in {"sealed", "plain"} /\ b = "relaying" /\ v
  \/ a \in {"sealed", "plain", "relaying"} /\ b = "held"
  \/ a # "idle" /\ b \in {"idle", "closing"}

LEMMA TurnRefines ==
  ASSUME NEW r \in Requests, NEW b,
         Held' = [Held EXCEPT ![r] = b],
         Held[r] \in Exchanges!Phases,
         Turns(Held[r], b, Judged'[r]),
         Judged' \in [Requests -> BOOLEAN],
         \A s \in Requests \ {r} : Judged'[s] = Judged[s],
         prov' = prov
  PROVE  Exchanges!Next
<1> DEFINE a == Held[r]
<1>0. Held \in [Requests -> {Held[s] : s \in Requests}] /\ Held'[r] = b
  BY DEF Held
<1>1. Exchanges!Judge
  <2>1. ~(a = "relaying" /\ b = "relaying")
    BY DEF Turns
  <2> QED
    BY <1>0, <2>1 DEF Exchanges!Judge, Held, Judged
<1>2. ASSUME a # "idle", b = "closing" PROVE Exchanges!Close({r})
  BY <1>0, <1>2 DEF Exchanges!Close, Held
<1>3. ASSUME a = b PROVE Exchanges!Close({})
  BY <1>0, <1>3 DEF Exchanges!Close, Held
<1>4. \A from : a \in from => Exchanges!Move(r, from, b)
  BY DEF Exchanges!Move, Held
<1>5. \/ Exchanges!Close({}) \/ Exchanges!Close({r})
      \/ Exchanges!Accept(r) \/ Exchanges!Seal(r) \/ Exchanges!Expose(r)
      \/ Exchanges!Relay(r) \/ Exchanges!Retry(r) \/ Exchanges!End(r)
  <2>1. CASE a = "idle" /\ b = "held"
    BY <1>4, <2>1 DEF Exchanges!Accept
  <2>2. CASE a = "held" /\ b = "sealed"
    BY <1>4, <2>2 DEF Exchanges!Seal
  <2>3. CASE a = "held" /\ b = "plain" /\ ~prov.e2ee
    BY <1>4, <2>3 DEF Exchanges!Expose
  <2>4. CASE a \in {"sealed", "plain"} /\ b = "relaying" /\ Judged'[r]
    <3>1. Exchanges!Move(r, {"sealed", "plain", "answered"}, "relaying")
      BY <1>4, <2>4
    <3> QED
      BY <2>4, <3>1 DEF Exchanges!Relay, Judged
  <2>5. CASE a \in {"sealed", "plain", "relaying"} /\ b = "held"
    BY <1>4, <2>5 DEF Exchanges!Retry
  <2>6. CASE a # "idle" /\ b = "idle"
    BY <1>4, <2>6 DEF Exchanges!End
  <2> QED
    BY <1>2, <1>3, <2>1, <2>2, <2>3, <2>4, <2>5, <2>6 DEF Turns
<1>6. {} \in SUBSET Requests /\ {r} \in SUBSET Requests
  OBVIOUS
<1>7. Judged' \in [Requests -> BOOLEAN] /\ prov'.e2ee = prov.e2ee
  OBVIOUS
<1> QED
  BY <1>1, <1>5, <1>6, <1>7 DEF Exchanges!Next, Judged

PhaseInv == \A r \in Requests : PhaseRequest(req[r])

LEMMA Phased == Inv /\ BoundInv => PhaseInv
  BY PhaseFacts DEF PhaseInv

\* A walk of a handler is a turn of its request.
LEMMA WalksTurn ==
  ASSUME NEW q, NEW p, PhaseRequest(q), PhaseRequest(p), Walks(q, p)
  PROVE  /\ Turns(Phase(q), Phase(p), Verdict(p))
         /\ Phase(q) \in Exchanges!Phases
<1>1. CASE q.pc = "idle" /\ p.pc \in {"idle", "lookup"}
  BY <1>1 DEF PhaseRequest, HeldAt, Turns, Exchanges!Phases
<1>2. CASE q.pc \in HeldAt /\ p.pc \in HeldAt \cup {"idle", "send", "wipe"}
  <2>1. Phase(q) = "held"
    BY <1>2 DEF PhaseRequest
  <2>2. CASE p.pc \in HeldAt
    BY <2>1, <2>2 DEF PhaseRequest, Turns, Exchanges!Phases
  <2>3. CASE p.pc = "send"
    BY <2>1, <2>3 DEF PhaseRequest, Turns, Exchanges!Phases
  <2>4. CASE p.pc \in {"idle", "wipe"}
    BY <2>1, <2>4 DEF PhaseRequest, ClosingAt, Turns, Exchanges!Phases
  <2> QED
    BY <1>2, <2>2, <2>3, <2>4
<1>3. CASE q.pc = "send" /\ p.pc \in {"idle", "build", "wipe", "relay"}
  <2>1. Phase(q) \in {"sealed", "plain"}
    BY <1>3 DEF PhaseRequest
  <2>2. CASE p.pc \in {"idle", "build", "wipe"}
    BY <2>1, <2>2 DEF PhaseRequest, HeldAt, ClosingAt, Turns, Exchanges!Phases
  <2>3. CASE p.pc = "relay"
    BY <2>1, <2>3 DEF PhaseRequest, Turns, Exchanges!Phases
  <2> QED
    BY <1>3, <2>2, <2>3
<1>4. CASE q.pc = "relay" /\ q.resp = "ok" /\ p.pc \in {"idle", "build", "promote", "mark"}
  BY <1>4 DEF PhaseRequest, HeldAt, ClosingAt, Turns, Exchanges!Phases
<1>5. CASE q.pc = "relay" /\ p.pc = "idle"
  BY <1>5 DEF PhaseRequest, Turns, Exchanges!Phases
<1>6. CASE q.pc \in ClosingAt /\ p.pc \in ClosingAt \cup {"idle"}
  BY <1>6 DEF PhaseRequest, Turns, Exchanges!Phases
<1> QED
  BY <1>1, <1>2, <1>3, <1>4, <1>5, <1>6 DEF Walks

\* Phases and verdicts depend on nothing but the handler and the provider.
LEMMA LocalViews ==
  ASSUME prov' = prov
  PROVE  /\ Held' = [r \in Requests |-> Phase(req'[r])]
         /\ Judged' = [r \in Requests |-> Verdict(req'[r])]
         /\ PhaseInv' => \A r \in Requests : PhaseRequest(req'[r])
<1>1. Held' = [r \in Requests |-> Phase(req'[r])]
  BY DEF Held, Phase, Sent
<1>2. Judged' = [r \in Requests |-> Verdict(req'[r])]
  BY DEF Judged, Verdict, Blocked
<1>3. PhaseInv' => \A r \in Requests : PhaseRequest(req'[r])
  BY DEF PhaseInv, PhaseRequest, Phase, Sent, Verdict, Blocked
<1> QED
  BY <1>1, <1>2, <1>3

LEMMA HandlerRefines ==
  ASSUME Inv, PhaseInv, PhaseInv', NEW r \in Requests, Arrive(r) \/ Step(r)
  PROVE  Exchanges!Next
<1>1. prov' = prov
  BY SameProvider DEF Next
<1>2. req' = [req EXCEPT ![r] = req'[r]] /\ req \in [Requests -> Request]
  BY HandlerSteps DEF Kept, Inv, TypeOK
<1>3. PhaseRequest(req[r]) /\ PhaseRequest(req'[r]) /\ Walks(req[r], req'[r])
  BY <1>1, LocalViews, HandlerWalks DEF PhaseInv
<1>4. Turns(Held[r], Phase(req'[r]), Verdict(req'[r])) /\ Held[r] \in Exchanges!Phases
  BY <1>3, WalksTurn DEF Held
<1>5. \A s \in Requests \ {r} : req'[s] = req[s]
  BY <1>2
<1>6. Held' = [Held EXCEPT ![r] = Phase(req'[r])]
  BY <1>1, <1>5, LocalViews DEF Held
<1>7. \A q : Verdict(q) \in BOOLEAN
  BY DEF Verdict
<1>8. Judged' = [s \in Requests |-> Verdict(req'[s])]
  BY <1>1, LocalViews
<1>9. /\ Judged' \in [Requests -> BOOLEAN]
      /\ Judged'[r] = Verdict(req'[r])
      /\ \A s \in Requests \ {r} : Judged'[s] = Judged[s]
  BY <1>5, <1>7, <1>8 DEF Judged
<1> QED
  BY <1>1, <1>4, <1>6, <1>9, TurnRefines

LEMMA NextRefines ==
  ASSUME Inv, PhaseInv, PhaseInv', [Next]_vars
  PROVE  Exchanges!Next \/ UNCHANGED <<prov.e2ee, Held, Judged>>
<1>1. ASSUME prov' = prov, req' = req PROVE UNCHANGED <<prov.e2ee, Held, Judged>>
  BY <1>1, LocalViews DEF Held, Judged
<1>2. CASE UNCHANGED vars
  BY <1>1, <1>2 DEF vars
<1>3. CASE Tick \/ Evict
  BY <1>1, <1>3 DEF Tick, Evict, EvictReport, EvictKey, EvictFailure
<1>4. CASE \E r \in Requests : Arrive(r) \/ Step(r)
  BY <1>4, HandlerRefines
<1> QED
  BY <1>2, <1>3, <1>4 DEF Next

\* When the REPORTDATA binding is an enforced factor and --force is not given,
\* the handlers of the shared client, with their caches, their two retry loops
\* and the failures of every call, implement Exchange: a body is sealed anew
\* for every attempt, and an answer is relayed only after such an exchange and
\* under a report that was let pass.
THEOREM ExchangesOnly ==
  ASSUME BindingEnforced
  PROVE  Spec => ImplementsExchange
<1>1. Init => Exchanges!Init
  <2> SUFFICES ASSUME Init PROVE Exchanges!Init
    OBVIOUS
  <2>1. prov.e2ee \in BOOLEAN
    BY FlagAssumption DEF Init, Provider
  <2>2. Phase(Idle) = "idle" /\ Verdict(Idle) \in BOOLEAN
    BY DEF Phase, Idle, Verdict
  <2> QED
    BY <2>1, <2>2 DEF Init, Exchanges!Init
<1>2. Inv /\ PhaseInv /\ PhaseInv' /\ [Next]_vars =>
        [Exchanges!Next]_Exchanges!vars
  BY NextRefines DEF Exchanges!vars, Held, Judged
<1> QED
  BY <1>1, <1>2, Phased, InvHolds, BoundHolds, PTL DEF Spec, ImplementsExchange, Exchanges!Spec

=============================================================================
